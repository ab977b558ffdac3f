CONSTANTS
    Workers = {w1, w2}
    NoWorker = NoWorker
    Cells = {"connect", "manage"}
    NoCell = "none"
    Readers = {r1, r2}
    Messages = {"get_probes", "other"}
    Nothing = Nothing
    Frame <- TwoFrames
    SendEvents = TRUE
    MaxAsked = 2
SPECIFICATION Spec
SYMMETRY Threads
INVARIANTS
    TypeOK
    AnsweredOnce
    OpenIsRead
    HolderSends
PROPERTIES
    ReplyStable
    OpenNotTorn
    IsConnection
