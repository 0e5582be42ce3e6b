CONSTANTS
    CPSize = 2
    Layers = 3
    Requests = 3
    Kinds = {"fresh", "chunk", "skip"}
SPECIFICATION FairSpec
INVARIANTS GatherExact OneWaveApart RequestsSeparated IInv
PROPERTIES RetireUndisturbed BarrierKept AllServed
\* The host call returns: after the last request every rank stops for good.
\* A protocol deadlock before that is a violation of AllServed.
CHECK_DEADLOCK FALSE
