\* The two polls a session starts with (INFLIGHT_OPTIMIST).
SPECIFICATION Spec
CONSTANTS
    Handlers = {h1, h2}
    StreamLen = 1
    MaxChunk = 1
    ReadBufCap = 1
    DrainMax = 1
    Budget = 1
    IdleLimit = 0
    MaxFaults = 0
INVARIANT NoLostWakeup
CHECK_DEADLOCK FALSE
