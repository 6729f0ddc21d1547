CONSTANTS
    d1 = d1
    Targets = {"t1"}
    Digests = {"d1"}
    served <- MCserved
    keeps <- MCkeeps
    Keeps = {{}}
    Valid = {"t1"}
    Fetchable = {"t1"}
    Size = 2
    MinProgress = 1
    FirstBackoff = 1
    MaxBackoff = 1
    ProgressRetry = 1
    ShiftLimit = 1
    Honest = TRUE
    Runs = {r1, r2}
SPECIFICATION MCFairSpec
PROPERTY ResultDelivered
PROPERTY HoldReturns
PROPERTY DownloadCompletes
