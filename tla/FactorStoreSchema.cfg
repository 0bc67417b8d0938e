SPECIFICATION Spec
CONSTANTS
    Symbols = {"a", "b"}
    Callers = {"p"}
    MaxDay = 2
    Depth = 1
    Horizon = 1
    MaxSchema = 2
    MaxRevisions = 0
    MaxLate = 1
    MaxCalls = 3
    MaxTails = 0
    MaxEvents = 4
    TailAlone = TRUE
INVARIANT ServedUnderOwnSchema
