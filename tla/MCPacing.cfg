SPECIFICATION FairSpec
CONSTANTS
    Devices <- MCDevices
    Workers = {"worker"}
    Readers <- MCReaders
    Callers = {"worker", "reader-1"}
    Slow = {1}
    Interval = 2
    Reconnect = 0
INVARIANTS
    PacingTypeOK
    Alternate
PROPERTIES
    TurnsSpaced
    Serves
