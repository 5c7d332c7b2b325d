SPECIFICATION FairSpec
CONSTANTS
    N = 2
    Kinds = {"set"}
    MaxOps = 2
    MaxTime = 2
    TailBound = 5
    MaxBreaks = 1
    MaxOpen = 2
PROPERTIES EventuallySynced
