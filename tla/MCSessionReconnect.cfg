CONSTANTS
    Workers = {w1, w2}
    NoWorker = NoWorker
    Cells = {"connect", "manage"}
    NoCell = "none"
    Readers = {r1}
    Messages = {"get_probes"}
    Nothing = Nothing
    Frame <- OneFrame
    SendEvents = FALSE
    MaxAsked = 1
SPECIFICATION NetworkSpec
PROPERTY
    Reconnects
