SPECIFICATION Spec
CONSTANTS
    MaxSeq = 1
    MaxFaults = 1
    MaxInput = 0
    MaxDriver = 0
    MaxEvents = 1
PROPERTY FallbackKeepsRelay
CHECK_DEADLOCK FALSE
