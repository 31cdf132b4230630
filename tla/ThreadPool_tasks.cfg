\* Two threads at most, four tasks from two callers: tasks are handed over, queued and drained.
\* A third Thread identity is there so that a pool over its limit could create it.
CONSTANTS
    Threads = {t1, t2, t3}
    Callers = {c1, c2}
    Tasks = {k1, k2, k3, k4}
    NoTask = NoTask
    NoThread = NoThread
    nMax_threads = 2
SPECIFICATION Spec
INVARIANTS QueuedHasWorker NoTaskLost
PROPERTIES   PoolStops
CHECK_DEADLOCK FALSE
