SPECIFICATION MCSpec
CONSTANTS
    Proc = {p1}
    Symbol = {s1}
    LastDay = 2
    MaxVersion = 2
    MaxRevised = 3
    PublishLag = 0
    RevisionDays = 0
    RefreshDays = 1
    Program = {"nightly"}
    Live = {}
    NotReadyDays <- OneNotReady
    MaxRunDays = 0
    TailOverride = NoOverride
    MayForce = FALSE
    NoOverride = NoOverride
    NoSymbol = NoSymbol

    Symbols = 4
    Endpoints = 2
    ChunkSize = 2
    MaxFailed = 3
    Poison <- MCPoison
    MaxFaults = 2
    MaxKills = 2
INVARIANTS NoSilentHole
PROPERTIES NightlyCatchesUp HealthyBatchesAreWarmed
