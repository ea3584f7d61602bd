CONSTANTS
    c1 = c1
    c2 = c2
    w1 = w1
    w2 = w2
    Clients = {c1}
    Workers = {w1, w2}
    MaxRuns = 5
    MaxCrash = 1
    MaxRedeliver = 0
    AutoValues = {TRUE}
    SlowRuns = FALSE
    OneAtATime = TRUE
    Reuse = TRUE
SPECIFICATION FairSpec
CHECK_DEADLOCK FALSE
INVARIANTS StateMatchesOutputs
PROPERTIES CompletedLeftByReuse ChainContinues
