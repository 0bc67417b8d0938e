SPECIFICATION MCSpec
CONSTANTS
    LastDay = 3
    MaxIntervals = 3
    None = None

    Gaps = 3
    Trailing = {3}
    Workers = 2
    MaxVersion = 2

    Proc = {"updater", "reader", "research"}
    Absent = Absent
    Torn = Torn
    Writer = {"updater"}
    LedgerRecords = 3

    BarDays = 3
    MaxBars = 1
    WindowDays = 2
    MonthDays = 3
    MaxRunDays = 1
    RunsInSession = FALSE
    PublishesLate = FALSE

    SnapshotDays = 4
    RefreshDays = 1

    Runs = {"r1", "r2"}
    Others = {"h"}
    BookSeq <- BookOfTwo
    RunRecords = 5
    MaxEdits = 1
    Quiet = TRUE

    PricedFactors = {f, g}
    CutoffSafe = {f, g}
    LastDate = 3
    Minutes = 2
    Horizon = 1
    HandRows = 1
    MaxOdd = 1
    MaxRuns = 2
    MaxEvents = 1
    MaxKills = 1
SYMMETRY Symmetric
INVARIANTS
    GapsAreExact GapsAreMaximal FailuresAreIsolated
    BoundedStaleness OnlyEndedOnesLinger BookIsCurated EvaluationsAgree
PROPERTIES LookupIsCurrent ClaimsAreEarned
CHECK_DEADLOCK FALSE
