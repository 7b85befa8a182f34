CONSTANTS
    Members = {m1}
    Agreements = {a1, a2}
    Submissions = {s1}
    NoSubmission = NoSubmission
    Plans = {p1, p2}
    NoPlan = NoPlan
    NoMember = NoMember
    Handlers = {h1, h2}
    MaxAttempts = 2
    MayFail = FALSE
CHECK_DEADLOCK FALSE
SPECIFICATION Spec
SYMMETRY Symmetry
PROPERTY FollowsArrows
