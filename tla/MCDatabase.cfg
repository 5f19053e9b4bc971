CONSTANTS
    SQLs = {1, 2, 3, 4, 5}
    NumParams = 2
    UsecPerSec = 4
    UsecPerMin = 8
    UsecPerHour = 16
    UsecPerDay = 32
    MaxRows = 2
    MaxResultSets = 1
    Loads <- Cases
SPECIFICATION DatabaseSpec
INVARIANTS HeldValid StatementsCurrent ReadBack
