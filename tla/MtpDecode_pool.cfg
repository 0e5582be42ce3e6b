SPECIFICATION Spec
CONSTANTS
    Batch = 2
    Slots = {0, 1}
    Requests = 2
    Prompt = 2
    MaxPosition = 7
    Overlaps = {TRUE}
INVARIANT PoolGuarded
