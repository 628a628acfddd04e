CONSTANTS
    Programs <- AllPrograms
    MaxThreads = 3
SPECIFICATION Spec
INVARIANTS RacesSeen SameThreadHolds OneParent CacheAgrees
PROPERTY Terminates
CHECK_DEADLOCK FALSE
