SPECIFICATION MuxSpec
CONSTANTS
    Scripts = {s1}
    PermitLimit = 1
    MaxBatchOps = 3
    MaxPayload = 3
    Kinds = {"data", "udp", "open"}
    Sizes = {1}
    MaxMsgs = 3
    MaxCuts = 1
INVARIANT ReplyMatchesOp
CHECK_DEADLOCK FALSE
