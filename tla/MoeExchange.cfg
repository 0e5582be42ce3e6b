SPECIFICATION FairSpec
CONSTANTS
    EP = 2
    Local = 4
    Tokens = 2
    TopK = 1
    Layers = 2
    Forwards = 2
    Routings <- MixedRoutings
INVARIANTS IInv GatherExact ReduceExact
PROPERTIES ClearsExactly AllForwardsEnd
\* The last forward ends for good, and so does a rank that clears the counters
\* under its own payload wait (MoeExchange_payload.cfg).  A wait that is never
\* satisfied for another reason is a violation of AllForwardsEnd.
CHECK_DEADLOCK FALSE
