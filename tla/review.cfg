SPECIFICATION Spec
CONSTANTS
    p1 = p1 p2 = p2 t1 = t1 t2 = t2 NoText = NoText
    Reviewers = {p1, p2}
    Loop3 = {"loop3"}
    Feed = {}
    Texts = {t1, t2}
    InvalidTexts = {t2}
    Ops = {"assign", "approve", "approve_local", "edit", "reject", "supersede", "submit"}
    MaxRules = 2
    MaxGenerations = 2
    MaxRequests = 3
    MaxFailures = 1
SYMMETRY ReviewersSymmetry
INVARIANTS ShippedTextWasApproved RecordedPRExists ItemMatchesRule RejectedNotShipped
PROPERTY UnracedDecisionStands
CHECK_DEADLOCK FALSE
