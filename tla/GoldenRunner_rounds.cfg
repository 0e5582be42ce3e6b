CONSTANTS
    SpecLists <- Programs
    Ranks = 2
    Warmup = 0
    Rounds = 2
    MaxFaults = 2
SPECIFICATION Spec
INVARIANT RoundsLogged
