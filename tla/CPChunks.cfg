SPECIFICATION ChunkSpec
CONSTANTS
    CPSize = 2
    TailRows = 4
    MaxTiles = 2
    CompressRatio = 2
    OverlayBase = 36
    Lengths = {3, 7, 16, 18, 32}
    MaxPosition = 36
    Prompts = 2
    FirstPage = 9
    Pages = 2
INVARIANTS
    KeysFound
    WindowKept
    OutputInOrder
    GroupsWhole
    HostAgrees
