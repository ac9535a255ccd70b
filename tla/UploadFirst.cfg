SPECIFICATION Spec
CONSTANTS
    Chunks = 3
    Window = 3
    MaxLost = 0
    MaxDup = 0
    MaxCut = 0
CHECK_DEADLOCK FALSE
INVARIANT UploadPrefix
