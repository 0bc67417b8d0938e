SPECIFICATION MCSpec
CONSTANTS
    Proc = {p1}
    Symbol = {s1}
    LastDay = 2
    MaxVersion = 2
    MaxRevised = 1
    PublishLag = 0
    RevisionDays = 1
    RefreshDays = 1
    Program = {"nightly", "research"}
    Live = {"research"}
    NotReadyDays <- PendingOf
    MaxRunDays = 1
    TailOverride = NoOverride
    MayForce = TRUE
    NoOverride = NoOverride
    NoSymbol = NoSymbol
    Symbols = {a, b}
    Callers = {"p"}
    MaxDay = 3
    Depth = 1
    Horizon = 1
    MaxSchema = 2
    MaxRevisions = 1
    MaxLate = 1
    MaxCalls = 2
    MaxTails = 2
    MaxEvents = 3
    TailAlone = TRUE
SYMMETRY Symmetric
INVARIANTS
    CoverageIsDurable CoveredIsComplete TailIsFresh ReadIsComplete
    PanelIsComplete ValuesIgnoreTheRange TailIsExact OnlyMixedFillsMislead
PROPERTIES ComputedRowsAreKept WarmStoreIsNotRefilled
CHECK_DEADLOCK FALSE
