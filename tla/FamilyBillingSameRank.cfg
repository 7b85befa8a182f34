CONSTANTS
    Siblings = {1, 2}
    BillSeasons = {1, 2}
    OptedOut = {}
    MaxClock = 1
CHECK_DEADLOCK FALSE
SPECIFICATION FamilySpec
INVARIANT RanksDistinct
