\* Two requests poll the session at the same time.
SPECIFICATION Spec
CONSTANTS
    Handlers = {h1, h2}
    StreamLen = 3
    MaxChunk = 2
    ReadBufCap = 2
    DrainMax = 2
    Budget = 3
    IdleLimit = 0
    MaxFaults = 0
SYMMETRY HandlerSymmetry
INVARIANT ResponsesContiguous
CHECK_DEADLOCK FALSE
