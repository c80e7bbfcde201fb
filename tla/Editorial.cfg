SPECIFICATION EditorialSpec
CONSTANTS
    IdFamilies <- MCIdFamilies
    ClusterWindow = 3
    Values <- MCValues
    Roles <- MCRoles
    Accesses <- MCAccesses
    ResearchPlaces = 4
    NewsPlaces = 4
    Signals = 3
    Days = 6
    Topics <- MCTopics
    Families <- MCFamilies
    PoolMaximum = 5
    Maximum = 3
    MaximumPerFamily = 2
    DomainMaximum <- MCDomains
    NearAllowance = 2
    MinimumFit = 50
    NearFit = 35
    Profile <- MCMaxima
    Maxima <- MCMaxima
    MinimumQuality = 50
    FewestEntries = 3
    MostEntries = 4
    Places = 5
    TriagePlaces = 5
CHECK_DEADLOCK FALSE
INVARIANTS
    GroupsAreOnePaper
    ExplicitLinksAreKept
    DevelopmentsAreCompact
    MoreEvidenceKeepsTheFact
    TriageIsFair
    GoodDayIsPublished
