SPECIFICATION FairSpec
CONSTANTS
    p1 = p1 p2 = p2 t1 = t1 t2 = t2 NoText = NoText
    Reviewers = {p1, p2}
    Loop3 = {"loop3"}
    Feed = {"feed"}
    Texts = {t1, t2}
    InvalidTexts = {}
    Ops = {"supersede"}
    MaxRules = 2
    MaxGenerations = 2
    MaxRequests = 3
    MaxFailures = 0
PROPERTY CoveringGrows
CHECK_DEADLOCK FALSE
