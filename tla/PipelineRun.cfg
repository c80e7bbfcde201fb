SPECIFICATION SceneSpec
CONSTANTS
    NSteps = 5
    MaxVersions = 3
    MaxRetries = 2
    MaxFaults = 3
    Faults = {"d1", "crash"}
CHECK_DEADLOCK FALSE
INVARIANTS
    RowMatchesEdition
    ComposesOneCollection
PROPERTIES
    VisibleStaysVisible
    NewerEditionsOnly
    ImplementsRunLife
    InstanceEnds
