------------------------------- MODULE TaskPool -------------------------------
(***************************************************************************)
(* What a thread pool promises, without threads, queues and mutexes.  A    *)
(* task is pending from the call of execute() on, it is started once and   *)
(* finishes once.  stop() may be called while tasks are pending or         *)
(* running, and it returns when there are none of either.                  *)
(***************************************************************************)
CONSTANTS Tasks

VARIABLES pending,      \* given to execute(), not started
          running,      \* being executed
          finished,     \* executed
          phase         \* "open", "stopping" once stop() is called, "stopped" when it has returned

vars == <<pending, running, finished, phase>>

Init == /\ pending = {}
        /\ running = {}
        /\ finished = {}
        /\ phase = "open"

Submit(k) == /\ phase = "open"
             /\ k \notin pending \cup running \cup finished
             /\ pending' = pending \cup {k}
             /\ UNCHANGED <<running, finished, phase>>

Start(k) == /\ k \in pending
            /\ pending' = pending \ {k}
            /\ running' = running \cup {k}
            /\ UNCHANGED <<finished, phase>>

Finish(k) == /\ k \in running
             /\ running' = running \ {k}
             /\ finished' = finished \cup {k}
             /\ UNCHANGED <<pending, phase>>

Stop == /\ phase = "open"
        /\ phase' = "stopping"
        /\ UNCHANGED <<pending, running, finished>>

Stopped == /\ phase = "stopping"
           /\ pending = {}
           /\ running = {}
           /\ phase' = "stopped"
           /\ UNCHANGED <<pending, running, finished>>

Next == \/ \E k \in Tasks : Submit(k) \/ Start(k) \/ Finish(k)
        \/ Stop
        \/ Stopped

Spec == Init /\ [][Next]_vars
===============================================================================
