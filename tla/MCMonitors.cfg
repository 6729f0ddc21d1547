CONSTANTS
    Monitors = {"m1", "m2"}
    Specs = {"v1", "v2"}
    Goroutines = {"g1", "g2", "g3"}
    QueueMax = 3
    BatchMax = 2
    FlushBatches = 2
    MaxResults = 4
SPECIFICATION MCFairSpec
CHECK_DEADLOCK FALSE
INVARIANT Accounted
INVARIANT ProbedAsAssigned
PROPERTY Delivered
