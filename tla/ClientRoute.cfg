SPECIFICATION Spec
CONSTANTS
    MaxSeq = 2
    MaxFaults = 2
    MaxInput = 2
    MaxDriver = 2
    MaxEvents = 2
INVARIANTS TypeOK NothingSkipped QueueIsYoungest NoForgottenSocket
PROPERTIES ImplementsViewer EventuallyCurrent
CHECK_DEADLOCK FALSE
