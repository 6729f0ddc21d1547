CONSTANTS
    a1 = a1
    a2 = a2
    b1 = b1
    e1 = e1
    Leases <- MCLeases
    TaskOf <- MCTaskOf
    E3 <- MCE3
    Results <- MCResults
    Unknown = "unknown"
    MaxEntries = 2
    OutputLimit = 2
    MaxOutput = 4
    i1 = i1
    i2 = i2
    i3 = i3
    ConnIds <- MCConnIds
    Ports = {"p"}
    MaxOpen = 2
    HalfCloseGrace = 1
    OrphanTTL = 2
    MaxGen = 1
    MaxCreated = 3
    LogIds = {"a", "b"}
    Budgets = {1, 2}
    Factor = 2
    MaxPerSecond = 5
    RingCap = 2
    MaxSeq = 4
    CapIds = {"a", "b", "c"}
    TracePendingPerConn = 2
    TracePendingConns = 2
    MaxLines = 3
    TraceRawQueueMax = 2
    MaxRawLines = 4
    MaxRawEpoch = 2
    Buckets = {"x", "y"}
    GlobalBudget = 4
    BucketBudget = 1
    HotDrops = 2
    Window = 4
    HotSeconds = 3
    MaxReadErrors = 2
    Packets = 3
    Wait = 2
    MaxReadErrs = 2
    Tailers = {1, 2}
    LogTailMaxPending = 1
    MaxReadLines = 2
    BatchLines = 1
    MaxLogLines = 2
    MaxTurns = 1
    IpConfigs <- MCIpConfigs
    StartupIp <- MCStartupIp
    Throttle = 2
    UsageFlags = {"file", "url"}
    StatsAddrs = {1}
    Wanted <- MCWanted
    NodeLevels = {"debug", ""}
    Tags = {"in", "router"}
    TraceUsers = {"alice", "bob"}
    TraceHosts = {"h", "g"}
    MaxWanted = 2
    MaxClock = 3
    Transports = {"udp", "tcp", "doh"}
    Questions <- MCQuestions
    Responses <- MCResponses
    MaxAddrs = 4
    DnsTimeout = 7
    MinDialSlice = 2
    IcmpPackets = 3
    EchoWait = 2
    MaxEchoErrors = 2
    CapabilityRecheck = 2
SPECIFICATION MCSpec
CHECK_DEADLOCK FALSE
SYMMETRY MCSymmetry
INVARIANT OutboxInv
 
INVARIANT IndexesAgree
INVARIANT ShedForLife
INVARIANT WholeChain
 
INVARIANT TripsOnFlood
INVARIANT WaitsItsTurn
 
INVARIANT AddressIsCurrent
 
 
INVARIANT FactsCatchUp
