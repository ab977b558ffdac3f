CONSTANTS
    MaxIds = 8
    MaxThreads = 5
    NoFile = NoFile
SPECIFICATION Spec
INVARIANTS
    LauncherTypeOK
    EachDeviceOnce
    ThreadLimit
    Balanced
