SPECIFICATION MCSpec
CONSTANTS
    Thread = {t1, t2, t3}
    Requests = 1
    MaxRetries = 2
    Interval = 2
    MaxDelay = 1
    NoThread = NoThread
    NoSlot = NoSlot
    Proc = {p1, p2, p3}
    Key = {k1, k2}
    Absent = Absent
    Torn = Torn
    MaxUpserts = 4
    MaxCrashes = 2
    SlowHolder = FALSE
    FactorStore = TRUE
    AloneAfterCrash = TRUE
    Gaps = 3
    Trailing = {3}
    Workers = 2
    MaxVersion = 1
INVARIANTS SlotsAreSpaced CallsWithinBudget 
PROPERTIES EventuallyThrough UpsertIsAtomic NeverWedged
CHECK_DEADLOCK FALSE
