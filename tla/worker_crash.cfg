CONSTANTS
    Keys = {k1, k2}
    Hashes = {ha, hb}
    NoHash = NoHash
    MaxHeight = 3
    EventDepths = {0}
    DefaultDepth = 1
    MaxDepth = 1
    Workers = {w1, w2}
    Feed <- SmallFeed
    MaxEvents = 3
    BatchSize = 1
    PersistInterval = 2
    MaxCrashes = 1
    MaxStops = 0
    DbFaults = TRUE
SPECIFICATION Spec
INVARIANTS SnapshotPublished EngineMirrorsTracker
SYMMETRY WorkerSymmetry
