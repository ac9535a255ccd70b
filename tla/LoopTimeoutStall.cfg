SPECIFICATION LoopFairSpec
CONSTANTS
    Responses <- EofNode
    MaxSeq = 4
    MaxUploads = 1
    MaxTimeouts = 1
    InflightActive = 3
    RefillSteps = 1
    ElevateUnits = 1
PROPERTY EofEnds
CHECK_DEADLOCK FALSE
