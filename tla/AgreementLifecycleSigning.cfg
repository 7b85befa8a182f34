CONSTANTS
    Members = {m1}
    Agreements = {a1}
    Submissions = {s1, s2}
    NoSubmission = NoSubmission
    Plans = {p1}
    NoPlan = NoPlan
    NoMember = NoMember
    Handlers = {h1, h2}
    MaxAttempts = 2
    MayFail = TRUE
CHECK_DEADLOCK FALSE
SPECIFICATION Spec
SYMMETRY Symmetry
PROPERTIES SignedByParentOrStaff UnbilledOnlyByBreakOff
