SPECIFICATION FairSpec
CONSTANTS
    p1 = p1 p2 = p2 t1 = t1 t2 = t2 NoText = NoText
    Reviewers = {p1, p2}
    Loop3 = {"loop3"}
    Feed = {}
    Texts = {t1, t2}
    InvalidTexts = {}
    Ops = {"approve", "reject"}
    MaxRules = 1
    MaxGenerations = 1
    MaxRequests = 3
    MaxFailures = 0
PROPERTY DecisionStands
CHECK_DEADLOCK FALSE
