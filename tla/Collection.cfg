SPECIFICATION Spec
CONSTANTS
    ByName <- MCByName
    PublicIds = {"feed", "s2"}
    Pinned = {}
    PapersWithCode = "papers-with-code-co"
    Reviewed = {"lab"}
    LanesOf <- MCLanesOf
    Workers <- MCWorkers
    Enrichers <- MCEnrichers
    Finds <- MCFinds
    Kinds = {"fetch"}
    MaxNames = 3
    MaxLabels = 2
    Catalogs <- MCCatalogs
    Sent <- MCSent
    Changes <- MCChanges
    MaxEdits = 2
    MaxAttempts = 2
CHECK_DEADLOCK FALSE
INVARIANTS
    HealthyLanesAreKept
    PapersAreNotConflated
    SourcesTellTheTruth
PROPERTIES
    DisabledStaysDisabled
    EveryLaneSettles
