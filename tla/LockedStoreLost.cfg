SPECIFICATION Spec
CONSTANTS
    Proc = {p1, p2}
    Key = {k1, k2}
    Absent = Absent
    Torn = Torn
    MaxUpserts = 3
    MaxCrashes = 1
    SlowHolder = FALSE
    FactorStore = TRUE
    AloneAfterCrash = FALSE
INVARIANTS RowsAreKept
