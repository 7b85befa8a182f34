CONSTANTS
    Members = {m1}
    Agreements = {a1, a2}
    Submissions = {}
    NoSubmission = NoSubmission
    Plans = {p1, p2}
    NoPlan = NoPlan
    NoMember = NoMember
    Handlers = {h1, h2}
    MaxAttempts = 2
    MayFail = TRUE
CHECK_DEADLOCK FALSE
SPECIFICATION Spec
SYMMETRY Symmetry
INVARIANT TypeOK
PROPERTY ImplementsRegister
