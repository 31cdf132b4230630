SPECIFICATION Safety
CONSTANTS
    Monitors = {m1, m2}
    Servers = {s1, s2, s3}
    Free = Free
    Dead = Dead
    NoServer = NoServer
    Candidates = {}
    failcount = 2
    majority_of_running = FALSE
    MaxLag = 1
    MaxFaults = 1
SYMMETRY Alike
 
INVARIANT OneFreshOwner
