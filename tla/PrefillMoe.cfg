CONSTANTS
    EP = 2
    Local = 2
    SegmentRows = 6
    TopK = 2
    CountTile = 5
    PutTile = 2
    RecvTile = 2
    Layers = 2
    Requests = 2
    Plans <- Mixed
SPECIFICATION FairSpec
INVARIANT RoutesExact
PROPERTIES ClearsExactly AllServed
\* The host call returns: after the last request every rank stops for good.
\* A deadlock of the exchange before that is a violation of AllServed.
CHECK_DEADLOCK FALSE
