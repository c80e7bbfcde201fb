SPECIFICATION CheckpointsSpec
CONSTANTS
    Kind <- MCKind
    Papers = {"a"}
    Hollow = {"h"}
    Size <- MCSize
    MaxBytes = 2
    MaxChunks = 2
    Finds <- MCFinds
    Older <- MCOlder
    MaxSaves = 7
    MaxFaults = 2
CHECK_DEADLOCK FALSE
INVARIANTS
    TextIsDecodedOnce
    RepairIsFinished
PROPERTIES
    ReadsWhatWasSaved
