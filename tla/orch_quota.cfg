CONSTANTS
    Keys = {k1}
    Subjects = {s1}
    SubjectOf <- SharedSubject
    Workers = {w1, w2}
    DetectionFeed <- TriggerFeed
    UpdateStates = {}
    MaxDetections = 3
    MaxUpdates = 0
    BatchSize = 1
    Quota = 1
    InWindow = {FALSE}
    CacheSize = 1
    MaxCrashes = 0
    DbFaults = FALSE
    GatewayFaults = FALSE
SPECIFICATION FairSpec
INVARIANTS QuotaOvershootBounded
PROPERTIES CriticalOffered
