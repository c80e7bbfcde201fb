SPECIFICATION ReaderSpec
CONSTANTS
    Keys = {k1}
    Explicits = {50, 5}
    Baseline = 50
    Tabs = {t1, t2}
    Runs = {r1}
    NoPage = NoPage
    NoSnapshot = NoSnapshot
    MaxFeedback = 2
    Keep = 2
    MaxDay = 3
    Dates = {1, 2, 3}
    Items = {1, 2}
    Topics = {"t1", "t2"}
    Topic <- MCTopic
    Compositions <- MCCompositions
    PageSize = 1
    MaxLosses = 1
SYMMETRY TabSymmetry
CHECK_DEADLOCK FALSE
INVARIANTS
    SnapshotIsFixed
    PageShowsTheStore
    ListingIsWhole
PROPERTIES
    RecordedWeightIsUsed
