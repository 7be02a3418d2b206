\* A dry run, two more calls of any tool, two admins, outside demo mode.
SPECIFICATION ExchangeSpec
CONSTANTS
    c1 = c1
    c2 = c2
    c3 = c3
    Calls = {c1, c2, c3}
    Admins = {p1, p2}
    Inputs <- SomeInputs
    NoCall = NoCall
    DemoMode = FALSE
    AuthMode = "entra"
    Bearers <- SomeBearers
    NoBearer = NoBearer
SYMMETRY CallSymmetry
CONSTRAINT OneOtherCall
INVARIANTS
    TypeOK
    NoChangeWithoutApproval
    ExecutionIsAuthorised
    
    DoneForTheToken
    NoPiiLeaves
    RedactionIsReported
CHECK_DEADLOCK FALSE
