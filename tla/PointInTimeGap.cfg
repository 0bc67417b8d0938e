CONSTANTS
    Symbols = {a, b, c}
    LastDay = 6
    Horizon = 2
    Window = 2
    MinPeriods = 2
    Suspensions = TRUE
    Feeds = {"bars"}
CHECK_DEADLOCK FALSE
SPECIFICATION Spec
INVARIANTS OnlyRealized
