CONSTANTS
    Workers = {w1, w2, w3}
    Cells = {c1, c2}
    NoWorker = NoWorker
    NoCell = NoCell
SPECIFICATION CallFairSpec
INVARIANTS
    CallTypeOK
    FrameAlive
    NoLostSignal
    TrueMeansFinished
PROPERTY
    CallReturns
