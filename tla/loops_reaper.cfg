CONSTANTS
    c1 = c1
    c2 = c2
    w1 = w1
    w2 = w2
    Clients = {c1}
    Workers = {w1, w2}
    MaxRuns = 2
    MaxCrash = 1
    MaxRedeliver = 1
    AutoValues = {FALSE,TRUE}
    SlowRuns = TRUE
    OneAtATime = FALSE
    Reuse = TRUE
SPECIFICATION FairSpec

CHECK_DEADLOCK FALSE
PROPERTIES NoRunStaysRunning
