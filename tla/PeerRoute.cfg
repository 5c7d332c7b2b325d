SPECIFICATION Spec
CONSTANTS
    MaxSeq = 2
    MaxFaults = 2
    MaxInput = 2
    MaxSlots = 3
    MaxProbes = 3
INVARIANTS TypeOK QueueIsYoungest NoForgottenTransport AlwaysRecovering
PROPERTIES ImplementsViewer EventuallyCurrent
CHECK_DEADLOCK FALSE
