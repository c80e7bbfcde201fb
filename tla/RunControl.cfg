SPECIFICATION MCSpec
CONSTANTS
    cron1 = cron1
    start1 = start1
    start2 = start2
    resume1 = resume1
    resume2 = resume2
    Crons <- MCCrons
    Starters <- MCStarters
    Resumers <- MCResumers
    Faults = {"d1", "crash", "create", "lost", "operator"}
CHECK_DEADLOCK FALSE
PROPERTIES
    TriggersUndoNothing
    CalmRunsAreSettled
