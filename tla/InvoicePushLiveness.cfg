CONSTANTS
    Records = {r1, r2}
    FreeRecords = {r2}
    NumInstallments = 2
    InvoiceIds = {i1, i2}
    NoId = NoId
    Jobs = {j1, j2}
    MaxAttempts = 2
    AutosendEnabled = FALSE
    EditedRecords = {}
    LeavingRecords = {}
    Crashing = FALSE
CHECK_DEADLOCK FALSE
SPECIFICATION FairSpec
INVARIANT PendingHasJob
PROPERTIES PendingSettles JobEnds
