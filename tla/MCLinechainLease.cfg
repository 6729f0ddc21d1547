CONSTANTS
    e1 = e1
    Leases <- MCLeases
    TaskOf <- MCTaskOf
    E3 <- MCLeases
    Results <- MCResults
    OkResults <- MCOk
    FailedResults <- MCFailed
    Unknown = "unknown"
    MaxEntries = 1
SPECIFICATION FairSpec
PROPERTY InterruptedLeaseAnswered
