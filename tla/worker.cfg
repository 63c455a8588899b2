CONSTANTS
    Keys = {k1, k2}
    Hashes = {ha, hb}
    NoHash = NoHash
    MaxHeight = 3
    EventDepths = {0}
    DefaultDepth = 1
    MaxDepth = 1
    Workers = {w1}
    Feed <- SmallFeed
    MaxEvents = 3
    BatchSize = 2
    PersistInterval = 4
    MaxCrashes = 0
    MaxStops = 1
    DbFaults = FALSE
SPECIFICATION FairSpec
PROPERTIES LifecycleSpec EveryEventReported
