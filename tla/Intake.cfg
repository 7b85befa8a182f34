CONSTANTS
    Emails = {e1}
    NoEmail = NoEmail
    Keys = {b1, b2}
    NoKey = NoKey
    Codes = {k1}
    Links = {l1}
    Posts = {r1, r2}
    SixDigits = {d1, d2, d3}
    Partial = Partial
    Good = {d1}
    ParentTabs = {p1}
    Reviewers = {s1}
    Children = {c1}
    Incomplete = Incomplete
    MemberIds = {m1, m2}
    NotApproved = NotApproved
    MessageIds = {n1}
    MaxEvents = 2
    Scans = {x1, x2}
    NoScan = NoScan
    Uploads = {u1}
    OcrJobs = {j1}
    OcrAttempts = 1
    MaxKills = 0
SYMMETRY ScanSymmetry
CHECK_DEADLOCK FALSE
SPECIFICATION IntakeSpec
INVARIANTS
    IntakeTypeOK
    DuplicateAccepted
    CodeKeepsSession
    OnePost
    LockedWhileBusy
    ToldWasReported
PROPERTIES
    ResolutionStays
    TypedKept
