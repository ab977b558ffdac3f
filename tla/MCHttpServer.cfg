SPECIFICATION FairSpec
CONSTANTS
    c1 = c1
    c2 = c2
    Conns = {c1, c2}
    Requests <- MCRequests
    Malformed <- MCMalformed
    Dotted <- MCDotted
    Root <- MCRoot
    Here <- MCHere
    Beside = "wwwpage"
    Files <- MCFiles
    Unreadable <- MCUnreadable
    MaxSent <- MCMaxSent
CHECK_DEADLOCK FALSE
INVARIANTS
    HttpTypeOK
    OneOperation
    AnswersInOrder
    LastIsLast
    OnlyUnderRoot
PROPERTIES
    SessionsAreDialogues
    NobodyWaits
    SessionsEnd
