SPECIFICATION MCSpec
CONSTANTS
    Symbols = {a, b, c}
    LastDay = 6
    Horizon = 2
    Window = 2
    MinPeriods = 2
    Suspensions = FALSE
    Feeds = {"snapshots", "reports", "industry", "bars"}

    EngineDays = 6
    Warmup = 2
    Buffer = 3
    Baseline = 1
    Lookback = 2
    Chunk = 2
    Kinds = {"daily", "bounded", "pooled"}

    Unit = 6
    TopN = 2
    BookDays = 5
    DaysPerMonth = 2
    Simulated <- MCSimulated
    Quotes <- MCQuotes
    DropAtLimit = FALSE

    PeakMinutes <- MCPeakMinutes
    PeakCutoff = 20
    PeakLag = 1
    PeakSessions <- MCSessions
    MaxDays = 5
    BaselineDays = 2
    BaselineMinObs = 2
    PeakSigma = 1
    PeakLookback = 2
    PeakValidDays = 1
    MinClassifiable = 4
    MinValley = 2
    MinRidge = 1
    MinPeak = 1
    MinIntervals = 1

    Axis = {"predictive", "incremental", "tradable"}
    Steps = 1

    BarMinutes <- MCBarMinutes
    LastBar = 8
    BarOpen = 2
    BarCutoff = 8
    BarLag = 1
    BarGrid = 2
    Bars <- MCBars
    Histories <- MCHistories
    BarLookback = 2
    BarSigma = 1
    OneIn = 2
    MinMinutes = 4
    MinPool = 2
    MinSelected = 1
    MinPairs = 2
    MinDayMinutes = 3
    BarValidDays = 2
    LastWindow = 4
    MmpLookback = 2

    LastDate = 3
    GridMonths <- MCGridMonths
    Names = {"x", "y"}
    Stranger = "z"
    Direct = "x"
    Early = {1, 2}
    FlipDates = {2, 3}
    SparseDates = {3}
    SparseSymbols = {"y"}
    LookbackDepth = 2
    Panels <- MCPanels
    Moves <- MCMoves
    FloatTailMax = 1
    CrossFloatTailMax = 2
    FlipMax = 1
    ContaminationMax = 2
    BarsOnlyMax = 1
    SparseMax = 1
SYMMETRY Symmetric
CHECK_DEADLOCK FALSE
INVARIANTS
    DatesAgree BookIsExact ShortfallsAreExplained
    PeaksAreEarned GeometryFree WindowIsClosed
PROPERTIES
    RecordsKeepThePast WeightsKeepThePast RespectsTheMarket
    PublishedIsFinal EvidenceIsMonotone OnlyALostSignalConvicts
