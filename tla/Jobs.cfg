CONSTANTS
    Members = {m1}
    Agreements = {a1}
    Submissions = {s1}
    NoSubmission = NoSubmission
    Plans = {p1}
    NoPlan = NoPlan
    NoMember = NoMember
    Handlers = {h1, h2}
    MaxAttempts = 2
    MayFail = FALSE
    Scans = {x1}
    NoScan = NoScan
    Uploads = {u1}
    OcrJobs = {j1}
    OcrAttempts = 2
    MaxKills = 1
    ParentTabs = {t1}
    Reviewers = {w1}
    Children = {c1}
    Incomplete = Incomplete
    MemberIds = {b1}
    NotApproved = NotApproved
    MessageIds = {n1}
    MaxEvents = 2
CHECK_DEADLOCK FALSE
SPECIFICATION JobsSpec
INVARIANTS
    JobsTypeOK
    CompletedHasExtraction
PROPERTIES
    SentReachesDocuSeal
    PendingScanSettles
    SubmissionReported
    LateJobsOnly
