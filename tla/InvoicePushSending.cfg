CONSTANTS
    Records = {r1}
    FreeRecords = {}
    NumInstallments = 2
    InvoiceIds = {i1, i2}
    NoId = NoId
    Jobs = {j1}
    MaxAttempts = 2
    AutosendEnabled = TRUE
    EditedRecords = {}
    LeavingRecords = {r1}
    Crashing = TRUE
CHECK_DEADLOCK FALSE
SPECIFICATION Spec
SYMMETRY IdSymmetry
INVARIANTS WithdrawnIsCancelled ParentSeesIssuedOnly SyncedSettled
PROPERTY SettledLeftAlone
