CONSTANTS
    Parts = {"supervisor", "worker", "websocket", "logs"}
    None = None
    Streams = {"s1", "s2"}
    Catalogs <- TwoStreams
    LiveEnabled = TRUE
    MaxEdits = 1
    MaxFaults = 1
    WorkerSettings <- LiveAndPolled
    MaxTime = 2
    Heartbeats <- FourHeartbeats
    HeartbeatTime = 10
    Lookback = 2
    MaxLag = 2
    MaxHead = 6
    MaxReconnects = 2
    DriverRunsAlone = TRUE
SPECIFICATION FairSpec
INVARIANTS WorkersFollowCatalog PublishedOnce ReportIsFounded ConnectionKeepsUp
PROPERTIES Converges
CHECK_DEADLOCK FALSE
