CONSTANTS
    CPSize = 3
    Requests = 4
    Kinds = {"served", "refused", "empty"}
SPECIFICATION FairSpec
INVARIANTS IInv ReceivedExact OutputsSurvive
PROPERTIES ClearsExactly AllServed
\* The host call returns: after the last request every rank stops for good.
\* A protocol deadlock before that is a violation of AllServed.
CHECK_DEADLOCK FALSE
