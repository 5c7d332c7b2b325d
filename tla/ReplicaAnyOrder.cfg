SPECIFICATION Spec
CONSTANTS
    N = 2
    Kinds = {"set", "delete"}
    MaxOps = 2
    MaxTime = 3
INVARIANTS TypeOK CountersAreUnique FrontierIsExact EditsConverged
CHECK_DEADLOCK FALSE
