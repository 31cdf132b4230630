\* One worker, which may be attached when stop() is called
CONSTANTS
    MaxClients = 1
    NumClients = 1
    QueueMax = 1
    CapCopies = 2
    OrderUpdates = TRUE
    UpdatesOnly = FALSE
    GcTries = 2
    DestroyInUse = TRUE
    Ptr = {p1, p2, p3, p4}
    Null = Null
    MaxUpdates = 3
SPECIFICATION LiveSpec
PROPERTIES  StopReturns
CHECK_DEADLOCK FALSE
