SPECIFICATION Spec
CONSTANTS
    Monitors = {m1, m2}
    Servers = {s1, s2}
    Free = Free
    Dead = Dead
    NoServer = NoServer
    Candidates = {s1, s2}
    failcount = 1
    majority_of_running = TRUE
    MaxLag = 1
    MaxFaults = 1
INVARIANT SecondaryHoldsNoLock
INVARIANT OneMasterMark
PROPERTY TakesOver
