\* Two executions of one approved change.
SPECIFICATION Spec
CONSTANTS
    c1 = c1
    c2 = c2
    c3 = c3
    Calls = {c1, c2, c3}
    Admins = {p1}
    Inputs <- ApprovalInputs
    NoCall = NoCall
    DemoMode = FALSE
INVARIANTS
    OneExecutionPerApproval
CHECK_DEADLOCK FALSE
