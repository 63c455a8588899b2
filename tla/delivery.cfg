CONSTANTS
    Parts = {"detector", "detectors", "queue", "tables", "scenarios", "breaker"}
    QueueCallers = {q1, q2, q3}
    MaxRetries = 3
    HistoryRows <- SomeRows
    HistoryOrder <- TextOrder
    HistoryBatch = 1
    HistoryLag = 1
    HistoryTime = 2
    HistoryWrites = 3
    HistoryFaults = 1
    ScenarioFiles = {1, 2}
    Scenarios <- Said
    Slugs <- SomeSlugs
    Callers = {c1, c2}
    FailureThreshold = 2
    SuccessThreshold = 2
    MaxFailures = 4
SPECIFICATION DeliverySpec
INVARIANTS NoMissedTransition HandledOnce GivenUpIsKept HistoryComplete
PROPERTIES Recovers DetectorsCatchUp GivesUp HistoryCatchesUp
CHECK_DEADLOCK FALSE
