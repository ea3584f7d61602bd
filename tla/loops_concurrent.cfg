CONSTANTS
    c1 = c1
    c2 = c2
    w1 = w1
    w2 = w2
    Clients = {c1, c2}
    Workers = {w1, w2}
    MaxRuns = 3
    MaxCrash = 1
    MaxRedeliver = 0
    AutoValues = {FALSE}
    SlowRuns = TRUE
    OneAtATime = FALSE
    Reuse = TRUE
SPECIFICATION Spec
SYMMETRY TwoOfEach
CHECK_DEADLOCK FALSE
INVARIANTS ActiveHasOutput
PROPERTIES OutputNeverLost
