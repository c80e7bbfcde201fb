SPECIFICATION PagesSpec
CONSTANTS
    Dates = {1, 2, 3}
    Items = {1, 2}
    Topics = {"t1", "t2"}
    Topic <- MCTopic
    Compositions <- MCCompositions
    PageSize = 1
    MaxLosses = 1
CHECK_DEADLOCK FALSE
INVARIANTS
    NextPageRetainsFilters
