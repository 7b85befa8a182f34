CONSTANTS
    ParentTabs = {p1}
    Reviewers = {s1}
    Children = {c1}
    Incomplete = Incomplete
    MemberIds = {m1, m2}
    NotApproved = NotApproved
    MessageIds = {n1}
    MaxEvents = 2
CHECK_DEADLOCK FALSE
SPECIFICATION ReviewSpec
PROPERTY SubmissionStands
