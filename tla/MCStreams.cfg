CONSTANTS
    TraceStreamGrace = 2
    TraceFailLimit = 2
    MaxEpoch = 3
    Pipes = {1, 2}
    Addrs0 = {0, 1}
    MaxLost = 1
    Width = 2
    MaxPending = 2
    MaxBatchRecords = 1
    MaxBatchLines = 1
    MaxBatchBytes = 2
    MaxBackoff = 2
    MaxItems = 3
    MaxCounted = 1
    Tailers = {1}
    LogTailMaxPending = 2
    MaxReadLines = 2
    BatchLines = 1
    MaxLogLines = 3
    MaxTurns = 1
    LogBase <- VarLog
    LogAllow <- MCAllow
    DenyFiles <- MCDenyFiles
    DenyDirs <- MCDenyDirs
    Paths <- MCPaths
    Leads <- MCLeads
    OffLimits <- MCOffLimits
    LogTailers = {1, 2}
SPECIFICATION MCFairSpec
CHECK_DEADLOCK FALSE
 
INVARIANT CountedOnce
 
PROPERTY LevelFollows
 
