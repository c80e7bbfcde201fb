SPECIFICATION Spec
CONSTANTS
    Dates = {1, 2}
    a = a
    b = b
    Items = {a, b}
    RunKeep = 1
    CandidateKeep = 1
    MaxDay = 1
SYMMETRY ItemSymmetry
CHECK_DEADLOCK FALSE
INVARIANTS
    NormalizedItemsRemain
PROPERTIES
    RetentionKeepsUp
    FeedbackIsKept
    LatestOnlyAdvances
