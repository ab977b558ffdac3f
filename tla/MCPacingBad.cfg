SPECIFICATION Spec
CONSTANTS
    Devices <- MCDevices
    Workers = {"worker"}
    Readers <- MCReaders
    Callers = {"worker", "reader-1"}
    Slow = {1}
    Interval = 2
    Reconnect = 1
INVARIANT BadOnlyIfAsked
