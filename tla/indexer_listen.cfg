CONSTANTS
    Parts = {"supervisor"}
    None = None
    Streams = {"s1", "s2"}
    Catalogs <- TwoStreams
    LiveEnabled = TRUE
    MaxEdits = 1
    MaxFaults = 1
    WorkerSettings <- LiveAndPolled
    MaxTime = 2
    Heartbeats <- FourHeartbeats
    HeartbeatTime = 10
    Lookback = 2
    MaxLag = 2
    MaxHead = 6
    MaxReconnects = 2
    DriverRunsAlone = FALSE
SPECIFICATION FairSpec
PROPERTIES ListenerHears
CHECK_DEADLOCK FALSE
