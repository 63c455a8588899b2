CONSTANTS
    Detectors = {d1}
    Markets = {"m1", "m2"}
    UsdMarkets = {"m1", "m2"}
    Scopes = {live}
    LiveScope = live
    Sources = {"cex", "orc"}
    Kind <- SourceKind
    Feed <- TwoMarkets
    Configs = {"on", "off"}
    Settings <- ExchangeOnOff
    MaxHistory = 1
    CacheTTL = 1
    MaxKeys = 2
    MaxTime = 2
    MaxBelow = 2
    MaxFaults = 1
SPECIFICATION Spec
INVARIANTS AlertsSpaced NoFlapping SeverityAnnounced NewestQuoteUsed
