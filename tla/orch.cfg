CONSTANTS
    Keys = {k1, k2}
    Subjects = {s1}
    SubjectOf <- SharedSubject
    Workers = {w1}
    DetectionFeed <- MixedFeed
    UpdateStates = {"confirmed", "retracted"}
    MaxDetections = 3
    MaxUpdates = 2
    BatchSize = 2
    Quota <- Unlimited
    InWindow = {TRUE}
    CacheSize = 1
    MaxCrashes = 0
    DbFaults = FALSE
    GatewayFaults = FALSE
SPECIFICATION Spec
INVARIANTS OneOpenIncident NoRepeatedNotification CacheIsLatest
PROPERTIES ReinstatedByLaterUpdate
