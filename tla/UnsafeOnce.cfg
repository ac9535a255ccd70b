SPECIFICATION RelaySpec
CONSTANTS
    Reqs = {"direct", "exit"}
    ReqMethod <- Posts
    ReqUrl <- OneUrl
    PlainReqs = {}
    ExitReqs = {"exit"}
    ParallelRelay = 2
INVARIANT UnsafeOnce
CHECK_DEADLOCK FALSE
