CONSTANTS
    Detectors = {d1}
    NoMarket = "none"
    MaxFaults = 1
    ForUtilization <- SmallUtilization
    ForTvl <- SmallTvl
    ForFlash <- SmallFlash
    ForRuntime <- SmallRuntime
SPECIFICATION Spec
INVARIANTS RaiseToldOrMasked AlertIsFounded KeptStateHolds
PROPERTIES IncidentRunsItsCourse
