SPECIFICATION Spec
CONSTANTS
    MaxEdits = 2
    MaxCalls = 2
    MaxExtra = 1
INVARIANT TypeOK
PROPERTIES UnsentEditStays EventuallyAgree
