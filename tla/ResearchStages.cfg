SPECIFICATION Spec
CONSTANTS
    Works = {1, 2}
    Lanes = {"l1", "l2"}
    Offers <- MCOffers
    Policies = {"normal", "degraded", "hard_stop"}
    MaxUncached <- MCUncached
    MaxTriaged = 2
    Gaps = {1, 7}
    Runs = 2
    MaxFaults = 2
CHECK_DEADLOCK FALSE
INVARIANTS
    NewWorkIsSelected
    PaidOnce
    AssessmentsAreCurrent
    DiagnosticsTellTheRun
