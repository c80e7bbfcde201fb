SPECIFICATION MCSpec
CONSTANTS
    r1 = r1
    c1 = c1
    c2 = c2
    c3 = c3
    NoCall = NoCall
    Runs <- OneRun
    Calls <- OneRunCalls
    RunOf <- OneRunRunOf
    MaxCost <- OneRunMaxCost
    CostBound = 2
    LastMonth = 2
    Limit = 2
    Faults = {"d1", "timeout", "crash", "overrun"}
CHECK_DEADLOCK FALSE
INVARIANTS
    WithinLimit
    CleanedRunHoldsNothing
PROPERTIES
    ImplementsAccount
