SPECIFICATION MCSpec
CONSTANTS
    Topics <- MCTopics
    Families <- MCFamilies
    PoolMaximum = 5
    Maximum = 3
    MaximumPerFamily = 2
    DomainMaximum <- MCDomains
    NearAllowance = 2
    MinimumFit = 50
    NearFit = 35
    Profile <- MCMaxima
    Maxima <- MCMaxima
    MinimumQuality = 50
    FewestEntries = 3
    MostEntries = 4
    Places = 3
    TriagePlaces = 1
CHECK_DEADLOCK FALSE
INVARIANTS
    NearMatchCanBeChosen
