CONSTANTS
    d1 = d1
    d2 = d2
    p1 = p1
    r1 = r1
    r2 = r2
    Leases <- MCLeases
    Plain <- MCPlain
    TaskOf <- MCTaskOf
    E3 <- MCE3
    Results <- MCResults
    Unknown = "unknown"
    Done = "done"
    NotRun = "notrun"
    MaxEntries = 2
    MaxBatch = 2
    Targets = {"t1", "t2", "t3"}
    Digests = {"f1", "f2"}
    served <- MCserved
    keeps <- MCkeeps
    Keeps = {{}}
    Valid = {"t1", "t2", "t3"}
    Fetchable = {"t1", "t2"}
    Size = 2
    MinProgress = 1
    FirstBackoff = 1
    MaxBackoff = 1
    ProgressRetry = 1
    ShiftLimit = 1
    Honest = FALSE
    Runs <- MCRuns
SPECIFICATION MCSpec
SYMMETRY Symm
INVARIANT AtMostOnce
INVARIANT CycleInv
INVARIANT ReportIsTrue
PROPERTY UploadIsDurable
PROPERTY ImplementsDurableTask
PROPERTY TasksOwnFiles
