\* The bounds of each component are the smallest at which its races and limits occur.
SPECIFICATION EdgeSpec
CONSTANTS
    Parts = {"h2", "h1", "scripts", "quota", "relay", "cache", "range", "associate", "lifecycle",
             "http", "open", "elevation", "nodeudp", "udpgw", "today", "upload", "mux", "certs", "reader", "loop"}
    \* H2Transport
    Callers = {"r1", "r2"}
    MaxGen = 2
    \* H1Pool
    PoolUsers = {"p1", "p2"}
    Sockets = {"k1", "k2"}
    PoolMax = 1
    PoolMin = 1
    WarmN = 1
    MaxRedirects = 1
    \* ScriptPool
    ScriptIds <- ListedScripts
    StrikeLimit = 2
    ShortCool = 1
    LongCool = 2
    MaxFan = 2
    \* QuotaTracker
    Accounts = {"a"}
    Dispatchers = {"d1", "d2"}
    DailyLimit = 2
    SafetyBuffer = 1
    MaxCrashes = 1
    \* RelayCoalesce
    Reqs = {"get1", "get2", "head", "post"}
    ReqMethod <- EdgeMethods
    ReqUrl <- EdgeUrls
    PlainReqs = {"get1", "get2", "head"}
    ExitReqs = {"post"}
    ParallelRelay = 2
    \* ResponseCache
    CacheKeys = {"w", "x", "y", "z"}
    MaxBytes = 6
    EntryShare = 2
    \* RangeDownload
    MaxSize = 6
    Chunk = 2
    MaxParallel = 2
    BufferMax = 4
    StitchMax = 5
    StreamMax = 6
    \* UdpAssociate
    Peers = {"peer"}
    UTargets = {"t1", "t2"}
    UCap = 1
    UQueue = 1
    MaxSids = 3
    \* ProxyLifecycle
    MaxStarts = 1
    MaxQueue = 1
    FullMode = TRUE
    Listeners = {"socks"}
    Periodic = {"keepalive"}
    \* HttpConn
    HttpPrograms <- Programs
    MaxHead = 2
    \* SessionOpen
    Opens = {"o1", "o2", "o3"}
    OpenTarget <- EdgeTargets
    ServerFirst = {"smtp"}
    MaxUnreach = 1
    \* Elevation
    Sess = {"e1", "e2", "e3"}
    MaxElevated = 2
    MaxLeaks = 2
    \* NodeUdp
    UBatches = {"u1", "u2"}
    UdpQueueLimit = 2
    MaxDatagrams = 3
    UdpIdleLimit = 1
    \* Udpgw
    GKeys = {"f1", "f2"}
    MaxFrames = 2
    ChanCap = 1
    \* TodayStats
    Recorders = {"c1"}
    DayYears = {2024, 2100}
    DayHours = 34
    \* UploadStream
    Chunks = 4
    Window = 3
    MaxLost = 1
    MaxDup = 1
    MaxCut = 1
    \* TunnelMux: one permit per deployment, caps of 2 ops and 3 units; size 4 is an
    \* op that is larger than the cap by itself.
    Scripts = {s1, s2}
    PermitLimit = 1
    MaxBatchOps = 2
    MaxPayload = 3
    Kinds = {"connect", "data", "open", "close"}
    Sizes = {1, 4}
    MaxMsgs = 3
    MaxCuts = 1
    \* CertTrust
    Platforms = {"debian", "rhel", "arch", "openwrt", "unknown", "macos", "windows"}
    NssStores = {"firefox"}
    BareProfile = FALSE
    MaxCa = 1
    MaxOps = 3
    \* ResponseReader
    Answers <- ServerAnswers
    MaxPiece = 3
    HeadMax = 2
    \* TunnelLoop
    Responses <- SafetyNode
    MaxSeq = 4
    MaxUploads = 2
    MaxTimeouts = 1
    InflightActive = 3
    RefillSteps = 2
    ElevateUnits = 1
    \* NodeSession, with one request at a time
    StreamLen = 2
    MaxChunk = 1
    ReadBufCap = 1
    DrainMax = 1
    Budget = 1
    IdleLimit = 1
    MaxFaults = 0
INVARIANTS
    EdgeSound NoStrayResponse AvailablePreferred ReserveKept AnswerIsOwn
    CacheAccounting RequestsIntact FirstBytesOnce ElevationBounded DatagramsAccounted
    TodayIsQuotaDay StoppedMeansStopped InOrderNoDup TornIsLast OwnReplyWithinBudget BatchWithinCaps
    ResponseIntact DeliveredInOrder OpsAccounted GivenUpNotPassed
PROPERTIES
    HealthyCellKept ImplementsOrderedStream RemovalHonest StopOutlivesRestart
CHECK_DEADLOCK FALSE
