SPECIFICATION Spec
CONSTANTS
    N = 2
    Kinds = {"set", "delete"}
    MaxOps = 2
    MaxTime = 2
INVARIANTS Converged
CHECK_DEADLOCK FALSE
