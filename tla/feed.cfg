SPECIFICATION Spec
CONSTANTS
    Cves = {c1}
    Streamed = {c1}
    Catalog = {c1}
    Kev = {c1}
    Workers = {w1, w2}
    AutoKev = TRUE
    LiveLimit = 1
    DailyLimit = 1
    BatchLimit = 1
    MaxRetries = 1
    MaxOps = 2
    MaxFaults = 1
INVARIANTS StagesBacked HistoricalIsApproved
PROPERTY LivePendingLeaves
CHECK_DEADLOCK FALSE
