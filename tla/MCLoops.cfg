CONSTANTS
    Hold = 3
    Recover = 2
    MaxGap = 3
    MaxLosses = 1
    Addrs = {"a", "b"}
    Epochs = {1, 2}
    Sockets = {1, 2}
    Cooldown = 2
    RetryWait = 1
    StepMax = 2
    Interval = 1
    StallFloor = 4
    WatchdogTimeout = 2
    Conns = {1, 2}
    RingBytes = 1
    DetachCeiling = 1
    MaxOutputBytes = 2
    Runners = {1, 2}
    MaxInputs = 2
SPECIFICATION MCFairSpec
CHECK_DEADLOCK FALSE
INVARIANT NeitherTwiceNorForgotten
INVARIANT BeaconInv
INVARIANT WedgeIsRestarted
 
 
PROPERTY OutageAnnounced
PROPERTY SessionServed
