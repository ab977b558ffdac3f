CONSTANTS
    Threads = {"t1", "t2"}
    Nobody = Nobody
    Kinds = {k1}
    Levels = {0, 1}
    NoMessage = NoMessage
    SinkCount = 1
    Setups <- DefaultSink
    MaxCalls = 2
    Calls <- TwoAndOne
    MaxClock = 0
SPECIFICATION Spec
INVARIANT
    HeaderFirst
CHECK_DEADLOCK FALSE
