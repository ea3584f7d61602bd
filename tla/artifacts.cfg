SPECIFICATION FairSpec
CONSTANTS
    Requests = {"c1", "c2"}
    Workers = {"w1", "w2"}
    MaxRows = 2
    MaxFaults = 1
INVARIANTS ActiveIsLatest GeneratingIsActive
PROPERTIES RowSettles
CHECK_DEADLOCK FALSE
