SPECIFICATION Spec
CONSTANTS
    MaxEdits = 2
    MaxCalls = 1
    MaxExtra = 0
PROPERTY NoStepBack
