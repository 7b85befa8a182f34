CONSTANTS
    Seasons = {1, 2}
    MaxContracts = 2
    Siblings = {1, 2}
    BillSeasons = {1, 2}
    OptedOut = {}
    MaxClock = 1
    SkipChoices = {{7, 12}, {1, 9}}
    CountChoices = {1, 3, 10}
    AmountChoices = {10001}
    PercentChoices = {0, 75, 100}
    OverrideChoices = {5000}
    Todays = {7, 10}
    TypedMonths = {8, 11, 12}
    PermitRequests = {q1, q2}
    PermitFiles = {f1, f2, f3}
    NoFile = NoFile
    ArtifactRequests = {q1, q2}
    ArtifactNames = {n1, n2, n3}
    WantedName = n1
    NoName = NoName
SYMMETRY RequestSymmetry
CHECK_DEADLOCK FALSE
SPECIFICATION OfficeSpec
INVARIANTS
    OfficeTypeOK
    
    FirstAgreementHasItsRecord
    ListsAgree
    NextActionWorks
    
    RowsSumToFinal
    RowsKeepYear
    FileStored
    ArtifactStored

    
