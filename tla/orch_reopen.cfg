CONSTANTS
    Keys = {k1}
    Subjects = {s1}
    SubjectOf <- SharedSubject
    Workers = {w1}
    DetectionFeed <- MixedFeed
    UpdateStates = {"confirmed"}
    MaxDetections = 2
    MaxUpdates = 1
    BatchSize = 2
    Quota <- Unlimited
    InWindow = {TRUE}
    CacheSize = 1
    MaxCrashes = 0
    DbFaults = FALSE
    GatewayFaults = FALSE
SPECIFICATION Spec
PROPERTIES TerminalIsFinal
