SPECIFICATION Spec
CONSTANTS
    N = 2
    Kinds = {"set", "delete"}
    MaxOps = 2
    MaxTime = 3
    TailBound = 3
    MaxBreaks = 1
    MaxOpen = 2
INVARIANTS TypeOK FileReplays EditsAreKept AcksAreDurable ShowsTheLatest
PROPERTY EditsTakeHold
