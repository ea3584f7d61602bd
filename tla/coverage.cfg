SPECIFICATION Spec
CONSTANTS
    t1 = t1
    t2 = t2
    c1 = c1
    c2 = c2
    r1 = r1
    Techniques = {t1, t2}
    Seeded = {t1}
    Rules = {r1}
    Cves = {c1, c2}
    Ttps <- MCTtps
    Similar <- MCSimilar
    TagSets <- MCTagSets
    Answers <- MCAnswers
    Mappers = {w1, w2}
    VerifyCap = 1
    MaxMaps = 2
    MaxInputs = 1
    MaxFaults = 1
INVARIANTS CountsAgree
PROPERTIES  CacheCatchesUp
CHECK_DEADLOCK FALSE
