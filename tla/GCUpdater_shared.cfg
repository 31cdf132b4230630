\* Workers attach and leave, from none and down to none
CONSTANTS
    MaxClients = 2
    NumClients = 0
    QueueMax = 1
    CapCopies = 2
    OrderUpdates = TRUE
    UpdatesOnly = FALSE
    GcTries = 2
    DestroyInUse = FALSE
    Ptr = {p1, p2, p3, p4}
    Null = Null
    MaxUpdates = 3
SPECIFICATION Spec
SYMMETRY Alike
INVARIANTS NoUpdateLost NoDanglingReader CopiesBounded
PROPERTY ReaderMovesForward
CHECK_DEADLOCK FALSE
