CONSTANTS
    LastDay = 6
    Warmup = 2
    Buffer = 3
    Baseline = 1
    Lookback = 2
    Chunk = 2
    Kinds = {"daily"}
CHECK_DEADLOCK FALSE
SPECIFICATION Spec
INVARIANTS SingleIsBatch
