\* Two events of every kind, three crashes.
CONSTANTS
    e1 = e1
    e2 = e2
    Events = {e1, e2}
    MaxStalled = 1
    MaxCrashes = 3
SPECIFICATION FairSpec
INVARIANTS
    RowsMatchStage
PROPERTIES
    LogsSettle
\* Events happen at most once.
CHECK_DEADLOCK FALSE
