CONSTANTS
    TpSize = 2
    MaxLogitRows = 2
    HiddenRows = 2
    VocabPerTp = 5
    VocabTile = 2
    CommTile = 2
    Cores = 2
    Forwards = 2
    Heads = 2
    Indices <- RowChoices
SPECIFICATION FairSpec
INVARIANT RowsExact
PROPERTIES ClearsWhole AllServed
\* The host call returns: after the last forward every rank stops for good.
\* A deadlock of the exchange before that is a violation of AllServed.
CHECK_DEADLOCK FALSE
