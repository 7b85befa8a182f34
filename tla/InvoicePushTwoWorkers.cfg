CONSTANTS
    Records = {r1}
    FreeRecords = {}
    NumInstallments = 2
    InvoiceIds = {i1, i2, i3}
    NoId = NoId
    Jobs = {j1, j2}
    MaxAttempts = 2
    AutosendEnabled = FALSE
    EditedRecords = {r1}
    LeavingRecords = {}
    Crashing = TRUE
CHECK_DEADLOCK FALSE
SPECIFICATION Spec
SYMMETRY JobSymmetry
INVARIANTS TypeOK RowNamesOwnInvoice
PROPERTIES BookedForever ImplementsLedger
