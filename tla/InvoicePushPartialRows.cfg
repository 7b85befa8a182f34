CONSTANTS
    Records = {r1}
    FreeRecords = {}
    NumInstallments = 2
    InvoiceIds = {i1, i2}
    NoId = NoId
    Jobs = {j1}
    MaxAttempts = 2
    AutosendEnabled = FALSE
    EditedRecords = {}
    LeavingRecords = {}
    Crashing = TRUE
CHECK_DEADLOCK FALSE
SPECIFICATION Spec
INVARIANT SyncedComplete
