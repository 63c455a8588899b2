CONSTANTS
    Keys = {k1}
    Subjects = {s1}
    SubjectOf <- SharedSubject
    Workers = {w1}
    DetectionFeed <- MixedFeed
    UpdateStates = {"provisional", "retracted"}
    MaxDetections = 2
    MaxUpdates = 1
    BatchSize = 1
    Quota = 1
    InWindow = {TRUE, FALSE}
    CacheSize = 1
    MaxCrashes = 1
    DbFaults = TRUE
    GatewayFaults = TRUE
SPECIFICATION Spec
INVARIANTS StoredWasOffered
