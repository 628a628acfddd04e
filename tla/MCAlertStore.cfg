SPECIFICATION FairSpec
CONSTANTS
    Alerts = {a1, a2}
    MaxReport = 2
    Reports <- SomeReports
    MaxRuns = 3
    MaxNotes = 1
    MaxFaults = 2
INVARIANTS Persisted StaleRemoved CleanRunSucceeds CrashSafe
PROPERTIES OnlyCutsTear RunEnds
CHECK_DEADLOCK FALSE
