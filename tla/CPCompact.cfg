CONSTANTS
    CPSize = 2
    LayerKinds <- TwoOfEach
    Ratio <- SmallRatios
    MaxSeqLen = 14
    Requests = 4
    Plans <- WindowPlans
SPECIFICATION FairSpec
INVARIANTS RootExact CacheExact RetiredQuiet
PROPERTY AllServed
\* The host call returns: after the last request every rank stops for good.
\* A protocol deadlock before that is a violation of AllServed.
CHECK_DEADLOCK FALSE
