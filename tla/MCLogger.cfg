CONSTANTS
    Threads = {"t1", "t2"}
    Nobody = Nobody
    Kinds = {k1, k2}
    Levels = {0, 1}
    NoMessage = NoMessage
    SinkCount = 2
    Setups <- TwoSinks
    MaxCalls = 2
    Calls <- TwoAndOne
    MaxClock = 2
SPECIFICATION FairSpec
INVARIANTS
    LogTypeOK
    HeaderOncePerKind
    HoldersPrint
    UnflushedIsRecent
PROPERTIES
    SinksAreLogs
    CallsReturn
CHECK_DEADLOCK FALSE
