SPECIFICATION Spec
CONSTANTS
    MmtSatellites = {"A", "B"}
    FirstSatellite = "A"
    OtherSatellites = {"J"}
    MaxProcs = 3
INVARIANTS OneOfEach
PROPERTIES FailedLaunchLeavesNothing ProxyServesChoice
