--------------------------- MODULE ThreadPoolProofs ---------------------------
(***************************************************************************)
(* What is proved about ThreadPool for any number of threads, callers and  *)
(* tasks: its state keeps its type, a queued task has all threads working, *)
(* stop() leaves no thread behind, no task is lost or executed twice, and  *)
(* the pool implements TaskPool.                                           *)
(*                                                                         *)
(* The inductive invariant Inv says what a thread and a caller in each     *)
(* position can have (ThreadsInv), and how many threads there are          *)
(* (CountInv); TInv adds where the tasks are: the places are disjoint and  *)
(* none holds a task twice.                                                *)
(***************************************************************************)
EXTENDS ThreadPool, FiniteSetTheorems, TLAPS

Created == {t \in Threads : t_pc[t] # "none"}
Deleted == {t \in Threads : t_pc[t] = "deleted"}

(* Threads and callers agree on who has a task for whom.                   *)
ThreadsInv ==
    /\ \A t \in m_idle_threads : /\ t_pc[t] \in {"notify", "wait"}
                                 /\ t_tasks[t] = <<>>
                                 /\ ~t_stop[t]
                                 /\ \A c \in Callers : c_thread[c] # t
    /\ \A c \in Callers : c_task[c] # NoTask => c_thread[c] # NoThread
    /\ \A c \in Callers : c_thread[c] # NoThread =>
                              /\ c_task[c] # NoTask
                              /\ t_pc[c_thread[c]] \in {"notify", "wait"}
                              /\ t_tasks[c_thread[c]] = <<>>
                              /\ ~t_stop[c_thread[c]]
                              /\ \A d \in Callers \ {c} : c_thread[d] # c_thread[c]
    /\ \A t \in Threads : /\ t_job[t] # NoTask <=> t_pc[t] = "run"
                          /\ t_tasks[t] # <<>> => /\ t_pc[t] \in {"notify", "wait"}
                                                  /\ Len(t_tasks[t]) = 1
                                                  /\ ~t_stop[t]
                          /\ t_pc[t] \in {"exited", "deleted"} => t_stop[t]
                          /\ t_stop[t] => /\ m_stop
                                          /\ t_pc[t] \in {"notify", "wait", "exited", "deleted"}
                                          /\ t_pc[t] # "deleted" => s_cur = t
                          /\ t_pc[t] \in {"notify", "wait"} =>
                                 t \in m_idle_threads \/ t_stop[t] \/ Working(t)
    /\ s_pc = "join" <=> s_cur # NoThread
    /\ s_cur # NoThread => t_stop[s_cur] /\ t_pc[s_cur] # "deleted"

CountInv ==
    /\ m_nThreads = Cardinality(Created)
    /\ s_n = Cardinality(Deleted)

Inv == TypeOK /\ ThreadsInv /\ CountInv /\ QueuedHasWorker /\ StopLeavesNoThread
-----------------------------------------------------------------------------
(* A new pool satisfies the invariant.                                     *)
THEOREM InitInv == Init => Inv
<1> SUFFICES ASSUME Init PROVE Inv
    BY ZenonT(120)
<1>1. TypeOK
  <2>1. m_nThreads \in 0 .. nMax_threads /\ s_n \in 0 .. nMax_threads
    BY PoolAssumption, SMTT(120) DEF Init
  <2>2. m_tasks \in Seq(Tasks)
    BY SMTT(120) DEF Init
  <2>3. t_tasks \in [Threads -> Seq(Tasks)]
    BY SMTT(120) DEF Init
  <2>4. t_stop \in [Threads -> BOOLEAN] /\ m_abandon_tasks \in BOOLEAN
    BY ZenonT(120) DEF Init
  <2>5. executed \in [Tasks -> Nat]
    BY ZenonT(120) DEF Init
  <2> QED
    BY <2>1, <2>2, <2>3, <2>4, <2>5, ZenonT(120) DEF Init, TypeOK
<1>2. ThreadsInv
    BY PoolAssumption, ZenonT(120) DEF Init, ThreadsInv, m_stop, Working
<1>3. CountInv
  <2>1. Created = {} /\ Deleted = {}
    BY ZenonT(120) DEF Init, Created, Deleted
  <2> QED
    BY <2>1, FS_EmptySet, ZenonT(120) DEF Init, CountInv
<1>4. QueuedHasWorker /\ StopLeavesNoThread
    BY ZenonT(120) DEF Init, QueuedHasWorker, StopLeavesNoThread
<1> QED
    BY <1>1, <1>2, <1>3, <1>4, ZenonT(120) DEF Inv

(* The empty queue has no positions.                                       *)
LEMMA EmptyDomain == ASSUME NEW q, q = <<>> PROVE DOMAIN q = {}
    BY SMTT(120)

(* What is left of a sequence when its head is removed.                    *)
LEMMA HeadTail ==
    ASSUME NEW S, NEW q \in Seq(S), q # <<>>
    PROVE  /\ Head(q) \in S
           /\ Tail(q) \in Seq(S)
           /\ Len(Tail(q)) = Len(q) - 1
           /\ Len(q) = 1 => Tail(q) = <<>>
<1>1. Head(q) \in S /\ Tail(q) \in Seq(S) /\ Len(Tail(q)) = Len(q) - 1
    BY SMTT(120)
<1>2. ASSUME NEW r \in Seq(S), Len(r) = 0
      PROVE  r = <<>>
    BY <1>2, SMTT(120)
<1> QED
    BY <1>1, <1>2, SMTT(120)

(* What a task in an empty queue makes of it.                              *)
LEMMA AppendOne ==
    ASSUME NEW S, NEW q \in Seq(S), NEW e \in S
    PROVE  /\ Append(q, e) \in Seq(S)
           /\ Append(q, e) # <<>>
           /\ q = <<>> => Len(Append(q, e)) = 1
    BY SMTT(120)

(* The sets of threads that are counted are finite.                        *)
LEMMA CountFinite ==
    ASSUME TypeOK
    PROVE  IsFiniteSet(Created) /\ IsFiniteSet(Deleted) /\ Deleted \subseteq Created
<1>1. Created \subseteq Threads /\ Deleted \subseteq Threads /\ Deleted \subseteq Created
    BY ZenonT(120) DEF Created, Deleted
<1> QED
    BY <1>1, PoolAssumption, FS_Subset, ZenonT(120)

(* execute() with an idle or a new thread keeps the invariant.             *)
LEMMA ExecuteOnThreadInv ==
    ASSUME Inv, NEW c \in Callers, NEW k \in Tasks, NEW t \in Threads, Execute(c, k), ExecuteOnThread(c, k, t)
    PROVE  Inv'
<1> USE PoolAssumption
<1>1. TypeOK'
  <2>1. m_nThreads' \in 0 .. nMax_threads /\ m_idle_threads' \subseteq Threads
    BY SMTT(120) DEF Inv, TypeOK, ExecuteOnThread
  <2>2. t_pc' \in [Threads -> {"none", "wait", "run", "next", "notify", "exited", "deleted"}]
    BY ZenonT(120) DEF Inv, TypeOK, ExecuteOnThread
  <2>3. c_task' \in [Callers -> Tasks \cup {NoTask}] /\ c_thread' \in [Callers -> Threads \cup {NoThread}]
    BY ZenonT(120) DEF Inv, TypeOK, ExecuteOnThread
  <2> QED
    BY <2>1, <2>2, <2>3, ZenonT(120) DEF Inv, TypeOK, Execute, ExecuteOnThread, pool_vars, thread_vars, caller_vars, stop_vars
<1>2. ThreadsInv'
    BY SMTT(120) DEF Inv, TypeOK, ThreadsInv, Working, m_stop, Execute, ExecuteOnThread, pool_vars, thread_vars, caller_vars, stop_vars
<1>3. CountInv'
  <2>1. CASE t \in m_idle_threads
    <3>1. m_nThreads' = m_nThreads /\ t_pc' = t_pc
        BY <2>1, ZenonT(120) DEF ExecuteOnThread
    <3> QED
        BY <3>1, ZenonT(120) DEF Inv, CountInv, Created, Deleted, ExecuteOnThread, stop_vars
  <2>2. CASE t \notin m_idle_threads
    <3>1. t_pc[t] = "none" /\ m_nThreads' = m_nThreads + 1 /\ t_pc' = [t_pc EXCEPT ![t] = "wait"]
        BY <2>2, ZenonT(120) DEF ExecuteOnThread
    <3>2. Created' = Created \cup {t} /\ t \notin Created /\ Deleted' = Deleted
        BY <3>1, SMTT(120) DEF Inv, TypeOK, Created, Deleted
    <3>3. Cardinality(Created') = Cardinality(Created) + 1
        BY <3>2, CountFinite, FS_AddElement, ZenonT(120) DEF Inv
    <3> QED
        BY <3>1, <3>2, <3>3, ZenonT(120) DEF Inv, CountInv, ExecuteOnThread, stop_vars
  <2> QED
    BY <2>1, <2>2, ZenonT(120)
<1>4. QueuedHasWorker'
    BY SMTT(120) DEF Inv, TypeOK, ThreadsInv, QueuedHasWorker, Working, m_stop, Execute, ExecuteOnThread, pool_vars, thread_vars, caller_vars, stop_vars
<1>5. StopLeavesNoThread'
    BY ZenonT(120) DEF Inv, TypeOK, ThreadsInv, StopLeavesNoThread, m_stop, Execute, ExecuteOnThread, pool_vars, thread_vars, caller_vars, stop_vars
<1> QED
    BY <1>1, <1>2, <1>3, <1>4, <1>5, ZenonT(120) DEF Inv

(* execute() without a thread keeps the invariant.                         *)
LEMMA ExecuteQueuedInv ==
    ASSUME Inv, NEW c \in Callers, NEW k \in Tasks, Execute(c, k), ExecuteQueued(k)
    PROVE  Inv'
<1> USE PoolAssumption
<1>1. TypeOK'
    BY SMTT(120) DEF Inv, TypeOK, Execute, ExecuteQueued, pool_vars, thread_vars, caller_vars, stop_vars
<1>2. ThreadsInv'
    BY SMTT(120) DEF Inv, TypeOK, ThreadsInv, Working, m_stop, Execute, ExecuteQueued, pool_vars, thread_vars, caller_vars, stop_vars
<1>3. CountInv'
    BY ZenonT(120) DEF Inv, TypeOK, CountInv, Created, Deleted, Execute, ExecuteQueued, pool_vars, thread_vars, caller_vars, stop_vars
<1>4. QueuedHasWorker'
    BY SMTT(120) DEF Inv, TypeOK, ThreadsInv, QueuedHasWorker, Working, m_stop, Execute, ExecuteQueued, pool_vars, thread_vars, caller_vars, stop_vars
<1>5. StopLeavesNoThread'
    BY ZenonT(120) DEF Inv, TypeOK, ThreadsInv, StopLeavesNoThread, m_stop, Execute, ExecuteQueued, pool_vars, thread_vars, caller_vars, stop_vars
<1> QED
    BY <1>1, <1>2, <1>3, <1>4, <1>5, ZenonT(120) DEF Inv

(* Thread::execute() keeps the invariant.                                  *)
LEMMA HandInv ==
    ASSUME Inv, NEW c \in Callers, Hand(c)
    PROVE  Inv'
<1> USE PoolAssumption
<1>1. TypeOK'
  <2>1. c_thread[c] \in Threads /\ c_task[c] \in Tasks
    BY SMTT(120) DEF Inv, TypeOK, ThreadsInv, Hand
  <2>2. t_tasks' \in [Threads -> Seq(Tasks)]
    BY <2>1, AppendOne, ZenonT(120) DEF Inv, TypeOK, Hand
  <2> QED
    BY <2>2, ZenonT(120) DEF Inv, TypeOK, Hand, pool_vars, thread_vars, caller_vars, stop_vars
<1>2. ThreadsInv'
  <2> DEFINE u == c_thread[c]
  <2>1. u \in Threads /\ c_task[c] \in Tasks
    BY SMTT(120) DEF Inv, TypeOK, ThreadsInv, Hand
  <2>2. t_tasks'[u] # <<>> /\ Len(t_tasks'[u]) = 1 /\ \A v \in Threads \ {u} : t_tasks'[v] = t_tasks[v]
    BY <2>1, AppendOne, SMTT(120) DEF Inv, TypeOK, ThreadsInv, Hand
  <2> HIDE DEF u
  <2>3. u = c_thread[c]
    BY ZenonT(120) DEF u
  <2> QED
    BY <2>1, <2>2, <2>3, SMTT(120) DEF Inv, TypeOK, ThreadsInv, Working, m_stop, Hand, pool_vars, thread_vars, caller_vars, stop_vars
<1>3. CountInv'
    BY ZenonT(120) DEF Inv, TypeOK, CountInv, Created, Deleted, Hand, pool_vars, thread_vars, caller_vars, stop_vars
<1>4. QueuedHasWorker'
  <2>1. c_thread[c] \in Threads /\ c_task[c] \in Tasks
    BY SMTT(120) DEF Inv, TypeOK, ThreadsInv, Hand
  <2>2. t_tasks'[c_thread[c]] # <<>> /\ \A v \in Threads \ {c_thread[c]} : t_tasks'[v] = t_tasks[v]
    BY <2>1, AppendOne, SMTT(120) DEF Inv, TypeOK, ThreadsInv, Hand
  <2>3. t_pc[c_thread[c]] \in {"notify", "wait"}
    BY <2>1, PoolAssumption, ZenonT(120) DEF Inv, ThreadsInv
  <2> QED
    BY <2>1, <2>2, <2>3, ZenonT(120) DEF Inv, TypeOK, QueuedHasWorker, Working, Hand, pool_vars, thread_vars, caller_vars, stop_vars
<1>5. StopLeavesNoThread'
    BY ZenonT(120) DEF Inv, TypeOK, ThreadsInv, StopLeavesNoThread, m_stop, Hand, pool_vars, thread_vars, caller_vars, stop_vars
<1> QED
    BY <1>1, <1>2, <1>3, <1>4, <1>5, ZenonT(120) DEF Inv

(* A thread that takes its task keeps the invariant.                       *)
LEMMA ThreadTakeInv ==
    ASSUME Inv, NEW t \in Threads, ThreadTake(t)
    PROVE  Inv'
<1> USE PoolAssumption
<1>1. TypeOK'
    BY SMTT(120) DEF Inv, TypeOK, ThreadTake, MainTerminates, pool_vars, thread_vars, caller_vars, stop_vars
<1>2. ThreadsInv'
  <2>1. t_tasks[t] # <<>> /\ t_tasks[t] \in Seq(Tasks) /\ Len(t_tasks[t]) = 1
    BY ZenonT(120) DEF Inv, TypeOK, ThreadsInv, ThreadTake, MainTerminates
  <2>2. t_tasks'[t] = <<>> /\ t_job'[t] \in Tasks
    BY <2>1, HeadTail, ZenonT(120) DEF Inv, TypeOK, ThreadTake
  <2> QED
    BY <2>1, <2>2, SMTT(120) DEF Inv, TypeOK, ThreadsInv, Working, m_stop, ThreadTake, MainTerminates, pool_vars, thread_vars, caller_vars, stop_vars
<1>3. CountInv'
    BY ZenonT(120) DEF Inv, TypeOK, CountInv, Created, Deleted, ThreadTake, MainTerminates, pool_vars, thread_vars, caller_vars, stop_vars
<1>4. QueuedHasWorker'
    BY SMTT(120) DEF Inv, TypeOK, ThreadsInv, QueuedHasWorker, Working, m_stop, ThreadTake, MainTerminates, pool_vars, thread_vars, caller_vars, stop_vars
<1>5. StopLeavesNoThread'
    BY ZenonT(120) DEF Inv, TypeOK, ThreadsInv, StopLeavesNoThread, m_stop, ThreadTake, MainTerminates, pool_vars, thread_vars, caller_vars, stop_vars
<1> QED
    BY <1>1, <1>2, <1>3, <1>4, <1>5, ZenonT(120) DEF Inv

(* A thread that leaves main() keeps the invariant.                        *)
LEMMA ThreadExitInv ==
    ASSUME Inv, NEW t \in Threads, ThreadExit(t)
    PROVE  Inv'
<1> USE PoolAssumption
<1>1. TypeOK'
    BY ZenonT(120) DEF Inv, TypeOK, ThreadExit, MainTerminates, pool_vars, thread_vars, caller_vars, stop_vars
<1>2. ThreadsInv'
    BY SMTT(120) DEF Inv, TypeOK, ThreadsInv, Working, m_stop, ThreadExit, MainTerminates, pool_vars, thread_vars, caller_vars, stop_vars
<1>3. CountInv'
    BY ZenonT(120) DEF Inv, TypeOK, CountInv, Created, Deleted, ThreadExit, MainTerminates, pool_vars, thread_vars, caller_vars, stop_vars
<1>4. QueuedHasWorker'
    BY SMTT(120) DEF Inv, TypeOK, ThreadsInv, QueuedHasWorker, Working, m_stop, ThreadExit, MainTerminates, pool_vars, thread_vars, caller_vars, stop_vars
<1>5. StopLeavesNoThread'
    BY ZenonT(120) DEF Inv, TypeOK, ThreadsInv, StopLeavesNoThread, m_stop, ThreadExit, MainTerminates, pool_vars, thread_vars, caller_vars, stop_vars
<1> QED
    BY <1>1, <1>2, <1>3, <1>4, <1>5, ZenonT(120) DEF Inv

(* The end of a task keeps the invariant.                                  *)
LEMMA TaskDoneInv ==
    ASSUME Inv, NEW t \in Threads, TaskDone(t)
    PROVE  Inv'
<1> USE PoolAssumption
<1>1. TypeOK'
  <2>1. t_job[t] \in Tasks
    BY SMTT(120) DEF Inv, TypeOK, ThreadsInv, TaskDone
  <2>2. executed' \in [Tasks -> Nat]
    BY <2>1, SMTT(120) DEF Inv, TypeOK, TaskDone
  <2> QED
    BY <2>1, <2>2, ZenonT(120) DEF Inv, TypeOK, TaskDone, pool_vars, thread_vars, caller_vars, stop_vars
<1>2. ThreadsInv'
    BY SMTT(120) DEF Inv, TypeOK, ThreadsInv, Working, m_stop, TaskDone, pool_vars, thread_vars, caller_vars, stop_vars
<1>3. CountInv'
    BY ZenonT(120) DEF Inv, TypeOK, CountInv, Created, Deleted, TaskDone, pool_vars, thread_vars, caller_vars, stop_vars
<1>4. QueuedHasWorker'
    BY SMTT(120) DEF Inv, TypeOK, ThreadsInv, QueuedHasWorker, Working, m_stop, TaskDone, pool_vars, thread_vars, caller_vars, stop_vars
<1>5. StopLeavesNoThread'
    BY ZenonT(120) DEF Inv, TypeOK, ThreadsInv, StopLeavesNoThread, m_stop, TaskDone, pool_vars, thread_vars, caller_vars, stop_vars
<1> QED
    BY <1>1, <1>2, <1>3, <1>4, <1>5, ZenonT(120) DEF Inv

(* A thread that looks for a queued task keeps the invariant.              *)
LEMMA ThreadNextInv ==
    ASSUME Inv, NEW t \in Threads, ThreadNext(t)
    PROVE  Inv'
<1> USE PoolAssumption
<1>1. TypeOK'
  <2>1. m_tasks # <<>> => Head(m_tasks) \in Tasks /\ Tail(m_tasks) \in Seq(Tasks)
    BY HeadTail, ZenonT(120) DEF Inv, TypeOK
  <2>2. m_tasks' \in Seq(Tasks) /\ m_idle_threads' \subseteq Threads
    BY <2>1, ZenonT(120) DEF Inv, TypeOK, ThreadNext
  <2>3. t_job' \in [Threads -> Tasks \cup {NoTask}]
    BY <2>1, ZenonT(120) DEF Inv, TypeOK, ThreadNext
  <2>4. t_pc' \in [Threads -> {"none", "wait", "run", "next", "notify", "exited", "deleted"}]
    BY ZenonT(120) DEF Inv, TypeOK, ThreadNext
  <2> QED
    BY <2>2, <2>3, <2>4, ZenonT(120) DEF Inv, TypeOK, ThreadNext, pool_vars, thread_vars, caller_vars, stop_vars
<1>2. ThreadsInv'
  <2>1. CASE m_tasks # <<>>
    <3>1. Head(m_tasks) \in Tasks
        BY <2>1, HeadTail, ZenonT(120) DEF Inv, TypeOK
    <3>2. t_job' = [t_job EXCEPT ![t] = Head(m_tasks)] /\ t_pc' = [t_pc EXCEPT ![t] = "run"] /\ m_idle_threads' = m_idle_threads
        BY <2>1, ZenonT(120) DEF ThreadNext
    <3> QED
        BY <3>1, <3>2, SMTT(120) DEF Inv, TypeOK, ThreadsInv, Working, m_stop, ThreadNext, pool_vars, thread_vars, caller_vars, stop_vars
  <2>2. CASE m_tasks = <<>>
    <3>1. t_job' = t_job /\ t_pc' = [t_pc EXCEPT ![t] = "notify"] /\ m_idle_threads' = m_idle_threads \cup {t}
        BY <2>2, ZenonT(120) DEF ThreadNext
    <3> QED
        BY <3>1, SMTT(120) DEF Inv, TypeOK, ThreadsInv, Working, m_stop, ThreadNext, pool_vars, thread_vars, caller_vars, stop_vars
  <2> QED
    BY <2>1, <2>2, ZenonT(120)
<1>3. CountInv'
    BY ZenonT(120) DEF Inv, TypeOK, CountInv, Created, Deleted, ThreadNext, IdleThreadsMutexFree, pool_vars, thread_vars, caller_vars, stop_vars
<1>4. QueuedHasWorker'
  <2>1. CASE m_tasks # <<>>
    <3>1. t_pc' = [t_pc EXCEPT ![t] = "run"] /\ m_idle_threads' = m_idle_threads /\ m_nThreads' = m_nThreads
        BY <2>1, ZenonT(120) DEF ThreadNext
    <3>2. t_tasks' = t_tasks /\ c_thread' = c_thread
        BY ZenonT(120) DEF ThreadNext, caller_vars
    <3> QED
        BY <2>1, <3>1, <3>2, ZenonT(120) DEF Inv, TypeOK, QueuedHasWorker, Working
  <2>2. CASE m_tasks = <<>>
    BY <2>2, ZenonT(120) DEF QueuedHasWorker, ThreadNext
  <2> QED
    BY <2>1, <2>2, ZenonT(120)
<1>5. StopLeavesNoThread'
    BY ZenonT(120) DEF Inv, TypeOK, ThreadsInv, StopLeavesNoThread, m_stop, ThreadNext, IdleThreadsMutexFree, pool_vars, thread_vars, caller_vars, stop_vars
<1> QED
    BY <1>1, <1>2, <1>3, <1>4, <1>5, ZenonT(120) DEF Inv

(* The notification of stop() keeps the invariant.                         *)
LEMMA ThreadNotifyInv ==
    ASSUME Inv, NEW t \in Threads, ThreadNotify(t)
    PROVE  Inv'
<1> USE PoolAssumption
<1>1. TypeOK'
    BY ZenonT(120) DEF Inv, TypeOK, ThreadNotify, pool_vars, thread_vars, caller_vars, stop_vars
<1>2. ThreadsInv'
    BY SMTT(120) DEF Inv, TypeOK, ThreadsInv, Working, m_stop, ThreadNotify, pool_vars, thread_vars, caller_vars, stop_vars
<1>3. CountInv'
    BY ZenonT(120) DEF Inv, TypeOK, CountInv, Created, Deleted, ThreadNotify, pool_vars, thread_vars, caller_vars, stop_vars
<1>4. QueuedHasWorker'
    BY SMTT(120) DEF Inv, TypeOK, ThreadsInv, QueuedHasWorker, Working, m_stop, ThreadNotify, pool_vars, thread_vars, caller_vars, stop_vars
<1>5. StopLeavesNoThread'
    BY ZenonT(120) DEF Inv, TypeOK, ThreadsInv, StopLeavesNoThread, m_stop, ThreadNotify, pool_vars, thread_vars, caller_vars, stop_vars
<1> QED
    BY <1>1, <1>2, <1>3, <1>4, <1>5, ZenonT(120) DEF Inv

(* The call of stop() keeps the invariant.                                 *)
LEMMA StopBeginInv ==
    ASSUME Inv, StopBegin
    PROVE  Inv'
<1> USE PoolAssumption
<1>1. TypeOK'
    BY ZenonT(120) DEF Inv, TypeOK, StopBegin, pool_vars, thread_vars, caller_vars, stop_vars
<1>2. ThreadsInv'
    BY SMTT(120) DEF Inv, TypeOK, ThreadsInv, Working, m_stop, StopBegin, pool_vars, thread_vars, caller_vars, stop_vars
<1>3. CountInv'
    BY ZenonT(120) DEF Inv, TypeOK, CountInv, Created, Deleted, StopBegin, pool_vars, thread_vars, caller_vars, stop_vars
<1>4. QueuedHasWorker'
    BY ZenonT(120) DEF Inv, TypeOK, ThreadsInv, QueuedHasWorker, Working, m_stop, StopBegin, pool_vars, thread_vars, caller_vars, stop_vars
<1>5. StopLeavesNoThread'
    BY ZenonT(120) DEF Inv, TypeOK, ThreadsInv, StopLeavesNoThread, m_stop, StopBegin, pool_vars, thread_vars, caller_vars, stop_vars
<1> QED
    BY <1>1, <1>2, <1>3, <1>4, <1>5, ZenonT(120) DEF Inv

(* The lock in stop() keeps the invariant.                                 *)
LEMMA StopLockInv ==
    ASSUME Inv, StopLock
    PROVE  Inv'
<1> USE PoolAssumption
<1>1. TypeOK'
    BY ZenonT(120) DEF Inv, TypeOK, StopLock, pool_vars, thread_vars, caller_vars, stop_vars
<1>2. ThreadsInv'
    BY SMTT(120) DEF Inv, TypeOK, ThreadsInv, Working, m_stop, StopLock, pool_vars, thread_vars, caller_vars, stop_vars
<1>3. CountInv'
    BY ZenonT(120) DEF Inv, TypeOK, CountInv, Created, Deleted, StopLock, pool_vars, thread_vars, caller_vars, stop_vars
<1>4. QueuedHasWorker'
    BY ZenonT(120) DEF Inv, TypeOK, ThreadsInv, QueuedHasWorker, Working, m_stop, StopLock, pool_vars, thread_vars, caller_vars, stop_vars
<1>5. StopLeavesNoThread'
    BY ZenonT(120) DEF Inv, TypeOK, ThreadsInv, StopLeavesNoThread, m_stop, StopLock, pool_vars, thread_vars, caller_vars, stop_vars
<1> QED
    BY <1>1, <1>2, <1>3, <1>4, <1>5, ZenonT(120) DEF Inv

(* Thread::stop() of an idle thread keeps the invariant.                   *)
LEMMA StopThreadInv ==
    ASSUME Inv, NEW t \in Threads, StopThread(t)
    PROVE  Inv'
<1> USE PoolAssumption
<1>1. TypeOK'
    BY ZenonT(120) DEF Inv, TypeOK, StopThread, pool_vars, thread_vars, caller_vars, stop_vars
<1>2. ThreadsInv'
    BY SMTT(120) DEF Inv, TypeOK, ThreadsInv, Working, m_stop, StopThread, pool_vars, thread_vars, caller_vars, stop_vars
<1>3. CountInv'
    BY ZenonT(120) DEF Inv, TypeOK, CountInv, Created, Deleted, StopThread, pool_vars, thread_vars, caller_vars, stop_vars
<1>4. QueuedHasWorker'
    BY ZenonT(120) DEF Inv, TypeOK, ThreadsInv, QueuedHasWorker, Working, m_stop, StopThread, pool_vars, thread_vars, caller_vars, stop_vars
<1>5. StopLeavesNoThread'
    BY ZenonT(120) DEF Inv, TypeOK, ThreadsInv, StopLeavesNoThread, m_stop, StopThread, pool_vars, thread_vars, caller_vars, stop_vars
<1> QED
    BY <1>1, <1>2, <1>3, <1>4, <1>5, ZenonT(120) DEF Inv

(* The join of a thread keeps the invariant.                               *)
LEMMA StopJoinInv ==
    ASSUME Inv, StopJoin
    PROVE  Inv'
<1> USE PoolAssumption
<1>1. TypeOK'
  <2>1. s_cur \in Threads /\ t_pc[s_cur] = "exited"
    BY ZenonT(120) DEF Inv, TypeOK, ThreadsInv, StopJoin
  <2>2. Deleted \subseteq Created /\ Deleted # Created /\ IsFiniteSet(Created)
    BY <2>1, CountFinite, ZenonT(120) DEF Inv, Created, Deleted
  <2>3. Cardinality(Deleted) < Cardinality(Created)
    BY <2>2, FS_Subset, FS_CardinalityType, SMTT(120)
  <2>4. s_n' \in 0 .. nMax_threads
    BY <2>3, SMTT(120) DEF Inv, TypeOK, CountInv, StopJoin
  <2> QED
    BY <2>1, <2>4, ZenonT(120) DEF Inv, TypeOK, StopJoin, pool_vars, thread_vars, caller_vars, stop_vars
<1>2. ThreadsInv'
    BY SMTT(120) DEF Inv, TypeOK, ThreadsInv, Working, m_stop, StopJoin, pool_vars, thread_vars, caller_vars, stop_vars
<1>3. CountInv'
  <2>1. s_cur \in Threads
    BY ZenonT(120) DEF Inv, TypeOK, ThreadsInv, StopJoin
  <2>2. Created' = Created /\ Deleted' = Deleted \cup {s_cur} /\ s_cur \notin Deleted
    BY <2>1, SMTT(120) DEF Inv, TypeOK, ThreadsInv, Created, Deleted, StopJoin
  <2>3. Cardinality(Deleted') = Cardinality(Deleted) + 1
    BY <2>2, CountFinite, FS_AddElement, ZenonT(120) DEF Inv
  <2> QED
    BY <2>2, <2>3, ZenonT(120) DEF Inv, CountInv, StopJoin, pool_vars
<1>4. QueuedHasWorker'
    BY ZenonT(120) DEF Inv, TypeOK, ThreadsInv, QueuedHasWorker, Working, m_stop, StopJoin, pool_vars, thread_vars, caller_vars, stop_vars
<1>5. StopLeavesNoThread'
    BY ZenonT(120) DEF Inv, TypeOK, ThreadsInv, StopLeavesNoThread, m_stop, StopJoin, pool_vars, thread_vars, caller_vars, stop_vars
<1> QED
    BY <1>1, <1>2, <1>3, <1>4, <1>5, ZenonT(120) DEF Inv

(* The end of the loop of stop() keeps the invariant.                      *)
LEMMA StopLoopEndInv ==
    ASSUME Inv, StopLoopEnd
    PROVE  Inv'
<1> USE PoolAssumption
<1>1. TypeOK'
    BY ZenonT(120) DEF Inv, TypeOK, StopLoopEnd, pool_vars, thread_vars, caller_vars, stop_vars
<1>2. ThreadsInv'
    BY SMTT(120) DEF Inv, TypeOK, ThreadsInv, Working, m_stop, StopLoopEnd, pool_vars, thread_vars, caller_vars, stop_vars
<1>3. CountInv'
    BY ZenonT(120) DEF Inv, TypeOK, CountInv, Created, Deleted, StopLoopEnd, pool_vars, thread_vars, caller_vars, stop_vars
<1>4. QueuedHasWorker'
    BY ZenonT(120) DEF Inv, TypeOK, ThreadsInv, QueuedHasWorker, Working, m_stop, StopLoopEnd, pool_vars, thread_vars, caller_vars, stop_vars
<1>5. StopLeavesNoThread'
  <2> SUFFICES ASSUME s_pc' = "done", s_pc # "done"
             PROVE  StopLeavesNoThread'
    BY ZenonT(120) DEF Inv, StopLeavesNoThread, StopLoopEnd, pool_vars, thread_vars, caller_vars, stop_vars
  <2>1. Cardinality(Deleted) = Cardinality(Created)
    BY ZenonT(120) DEF Inv, CountInv, StopLoopEnd
  <2>2. Deleted = Created
    BY <2>1, CountFinite, FS_Subset, FS_CardinalityType, ZenonT(120) DEF Inv
  <2>3. \A t \in Threads : t_pc[t] \in {"none", "deleted"}
    BY <2>2, ZenonT(120) DEF Created, Deleted
  <2>4. ASSUME NEW c \in Callers, c_task[c] # NoTask
        PROVE  FALSE
    <3>1. c_thread[c] # NoThread /\ c_thread[c] \in Threads
        BY <2>4, SMTT(120) DEF Inv, TypeOK, ThreadsInv
    <3>2. t_pc[c_thread[c]] \in {"notify", "wait"}
        BY <3>1, ZenonT(120) DEF Inv, ThreadsInv
    <3> QED
        BY <2>3, <3>1, <3>2, ZenonT(120)
  <2> QED
    BY <2>3, <2>4, ZenonT(120) DEF StopLeavesNoThread, StopLoopEnd, thread_vars, caller_vars
<1> QED
    BY <1>1, <1>2, <1>3, <1>4, <1>5, ZenonT(120) DEF Inv

(* The wakeup of stop() keeps the invariant.                               *)
LEMMA StopWakeInv ==
    ASSUME Inv, StopWake
    PROVE  Inv'
<1> USE PoolAssumption
<1>1. TypeOK'
    BY ZenonT(120) DEF Inv, TypeOK, StopWake, pool_vars, thread_vars, caller_vars, stop_vars
<1>2. ThreadsInv'
    BY SMTT(120) DEF Inv, TypeOK, ThreadsInv, Working, m_stop, StopWake, pool_vars, thread_vars, caller_vars, stop_vars
<1>3. CountInv'
    BY ZenonT(120) DEF Inv, TypeOK, CountInv, Created, Deleted, StopWake, pool_vars, thread_vars, caller_vars, stop_vars
<1>4. QueuedHasWorker'
    BY ZenonT(120) DEF Inv, TypeOK, ThreadsInv, QueuedHasWorker, Working, m_stop, StopWake, pool_vars, thread_vars, caller_vars, stop_vars
<1>5. StopLeavesNoThread'
    BY ZenonT(120) DEF Inv, TypeOK, ThreadsInv, StopLeavesNoThread, m_stop, StopWake, pool_vars, thread_vars, caller_vars, stop_vars
<1> QED
    BY <1>1, <1>2, <1>3, <1>4, <1>5, ZenonT(120) DEF Inv

(* Every step of the pool keeps the invariant.                             *)
THEOREM NextInv == Inv /\ [Next]_vars => Inv'
<1> SUFFICES ASSUME Inv, [Next]_vars PROVE Inv'
    BY ZenonT(120)
<1>1. CASE UNCHANGED vars
  <2>1. UNCHANGED <<m_nThreads, m_idle_threads, m_tasks, t_pc, t_tasks, t_stop, t_job, c_task, c_thread,
                    s_pc, s_n, s_cur, m_abandon_tasks, submitted, executed>>
    BY <1>1, ZenonT(120) DEF vars, pool_vars, thread_vars, caller_vars, stop_vars
  <2>2. TypeOK' /\ StopLeavesNoThread'
    BY <2>1, ZenonT(120) DEF Inv, TypeOK, StopLeavesNoThread
  <2>3. ThreadsInv' /\ QueuedHasWorker'
    BY <2>1, SMTT(120) DEF Inv, ThreadsInv, QueuedHasWorker, Working, m_stop
  <2>4. CountInv'
    BY <2>1, ZenonT(120) DEF Inv, CountInv, Created, Deleted
  <2> QED
    BY <2>2, <2>3, <2>4, ZenonT(120) DEF Inv
<1>2. ASSUME NEW c \in Callers, NEW k \in Tasks, Execute(c, k)
      PROVE  Inv'
    BY <1>2, ExecuteOnThreadInv, ExecuteQueuedInv, ZenonT(120) DEF Execute
<1>3. ASSUME NEW t \in Threads, Main(t)
      PROVE  Inv'
    BY <1>3, ThreadTakeInv, ThreadExitInv, TaskDoneInv, ThreadNextInv, ThreadNotifyInv, ZenonT(120) DEF Main
<1>4. CASE Stop
    BY <1>4, StopLockInv, StopThreadInv, StopJoinInv, StopLoopEndInv, StopWakeInv, ZenonT(120) DEF Stop
<1> QED
    BY <1>1, <1>2, <1>3, <1>4, HandInv, StopBeginInv, ZenonT(120) DEF Next

(* In every pool the state keeps its type, execute() never leaves a task   *)
(* queued beside an idle thread, and no thread is left when stop() returns.*)
THEOREM PoolSafe == Safety => [](TypeOK /\ QueuedHasWorker /\ StopLeavesNoThread)
<1>1. Inv => TypeOK /\ QueuedHasWorker /\ StopLeavesNoThread
    BY ZenonT(120) DEF Inv
<1> QED
    BY <1>1, InitInv, NextInv, PTL DEF Safety

-------------------------------------------------------------------------------
(***************************************************************************)
(* The tasks of the pool                                                   *)
(***************************************************************************)

(* The places of ThreadPool's refinement mapping as sets.                  *)
Queued == {k \in Tasks : \E i \in DOMAIN m_tasks : m_tasks[i] = k}
Handed == {k \in Tasks : \E c \in Callers : c_task[c] = k}
Given == {k \in Tasks : \E t \in Threads : \E i \in DOMAIN t_tasks[t] : t_tasks[t][i] = k}

(* No task is twice in the same kind of place.                             *)
Unique ==
    /\ \A i, j \in DOMAIN m_tasks : m_tasks[i] = m_tasks[j] => i = j
    /\ \A c, d \in Callers : c_task[c] = c_task[d] /\ c_task[c] # NoTask => c = d
    /\ \A t, u \in Threads : /\ t_tasks[t] # <<>>
                             /\ t_tasks[u] # <<>>
                             /\ Head(t_tasks[t]) = Head(t_tasks[u])
                             => t = u
    /\ \A t, u \in Threads : t_job[t] = t_job[u] /\ t_job[t] # NoTask => t = u
    /\ \A k \in Tasks : executed[k] <= 1

(* The places are disjoint and hold the submitted tasks.                   *)
Disjoint ==
    /\ submitted = Queued \cup Handed \cup Given \cup Running \cup Finished
    /\ Queued \cap (Handed \cup Given \cup Running \cup Finished) = {}
    /\ Handed \cap (Given \cup Running \cup Finished) = {}
    /\ Given \cap (Running \cup Finished) = {}
    /\ Running \cap Finished = {}

TInv == Inv /\ Unique /\ Disjoint

(* Queues of at most one task hold their first one.                        *)
LEMMA GivenHead ==
    ASSUME NEW f \in [Threads -> Seq(Tasks)], \A t \in Threads : f[t] # <<>> => Len(f[t]) = 1
    PROVE  {k \in Tasks : \E t \in Threads : \E i \in DOMAIN f[t] : f[t][i] = k}
           = {k \in Tasks : \E t \in Threads : f[t] # <<>> /\ Head(f[t]) = k}
<1>1. ASSUME NEW t \in Threads, f[t] # <<>>
      PROVE  DOMAIN f[t] = {1} /\ Head(f[t]) = f[t][1]
  <2>1. f[t] \in Seq(Tasks) /\ Len(f[t]) = 1
    BY <1>1, ZenonT(120)
  <2> QED
    BY <2>1, SMTT(120)
<1>2. \A t \in Threads : f[t] = <<>> => DOMAIN f[t] = {}
    BY SMTT(120)
<1> QED
    BY <1>1, <1>2, SMTT(120)

(* A pending task is queued, being handed over or given to a thread.       *)
LEMMA PendingSplit == Pending = Queued \cup Handed \cup Given
    BY ZenonT(120) DEF Pending, Queued, Handed, Given

(* What Append and Tail do to the elements of a queue without duplicates.  *)
LEMMA AppendElements ==
    ASSUME NEW S, NEW q \in Seq(S), NEW e \in S, \A i \in DOMAIN q : q[i] # e,
           \A i, j \in DOMAIN q : q[i] = q[j] => i = j
    PROVE  LET r == Append(q, e)
           IN /\ \A k : (\E i \in DOMAIN r : r[i] = k) <=> (k = e \/ \E i \in DOMAIN q : q[i] = k)
              /\ \A i, j \in DOMAIN r : r[i] = r[j] => i = j
<1> DEFINE r == Append(q, e)
<1>1. DOMAIN q = 1 .. Len(q) /\ DOMAIN r = 1 .. Len(q) + 1 /\ Len(q) \in Nat
    BY SMTT(120)
<1>2. r[Len(q) + 1] = e /\ \A i \in 1 .. Len(q) : r[i] = q[i]
    BY SMTT(120)
<1> HIDE DEF r
<1>3. \A k : (\E i \in DOMAIN r : r[i] = k) <=> (k = e \/ \E i \in DOMAIN q : q[i] = k)
    BY <1>1, <1>2, SMTT(120)
<1>4. \A i, j \in DOMAIN r : r[i] = r[j] => i = j
    BY <1>1, <1>2, SMTT(120)
<1> QED
    BY <1>3, <1>4, ZenonT(120) DEF r

(* The same for the tail.                                                  *)
LEMMA TailElements ==
    ASSUME NEW S, NEW q \in Seq(S), q # <<>>, \A i, j \in DOMAIN q : q[i] = q[j] => i = j
    PROVE  LET r == Tail(q)
           IN /\ \A k : (\E i \in DOMAIN r : r[i] = k) <=> (k # Head(q) /\ \E i \in DOMAIN q : q[i] = k)
              /\ \A i, j \in DOMAIN r : r[i] = r[j] => i = j
              /\ \E i \in DOMAIN q : q[i] = Head(q)
<1> DEFINE r == Tail(q)
<1>1. DOMAIN q = 1 .. Len(q) /\ DOMAIN r = 1 .. Len(q) - 1 /\ Len(q) \in Nat /\ Len(q) >= 1
    BY SMTT(120)
<1>2. Head(q) = q[1] /\ \A i \in 1 .. Len(q) - 1 : r[i] = q[i + 1]
    BY SMTT(120)
<1> HIDE DEF r
<1>3. \A k : (\E i \in DOMAIN r : r[i] = k) => (k # Head(q) /\ \E i \in DOMAIN q : q[i] = k)
    BY <1>1, <1>2, SMTT(120)
<1>4. ASSUME NEW k, NEW i \in DOMAIN q, q[i] = k, k # Head(q)
      PROVE  \E j \in DOMAIN r : r[j] = k
  <2>1. i - 1 \in DOMAIN r /\ r[i - 1] = q[i]
    BY <1>1, <1>2, <1>4, SMTT(120)
  <2> QED
    BY <2>1, <1>4, ZenonT(120)
<1>5. ASSUME NEW i \in DOMAIN r, NEW j \in DOMAIN r, r[i] = r[j]
      PROVE  i = j
  <2>1. i + 1 \in DOMAIN q /\ j + 1 \in DOMAIN q
    BY <1>1, SMTT(120)
  <2>2. q[i + 1] = q[j + 1]
    BY <1>1, <1>2, <1>5, ZenonT(120)
  <2>3. i + 1 = j + 1
    BY <2>1, <2>2, ZenonT(120)
  <2> QED
    BY <1>1, <2>3, SMTT(120)
<1> QED
    BY <1>1, <1>2, <1>3, <1>4, <1>5, SMTT(120) DEF r

(* Where each operation moves a task.                                      *)
LEMMA ExecuteOnThreadMove ==
    ASSUME TInv, NEW c \in Callers, NEW k \in Tasks, NEW t \in Threads, Execute(c, k), ExecuteOnThread(c, k, t)
    PROVE  /\ Unique'
           /\ Handed' = Handed \cup {k}
           /\ k \notin submitted /\ submitted' = submitted \cup {k}
           /\ UNCHANGED <<Queued, Given, Running, Finished, s_pc>>
<1> USE PoolAssumption
<1>1. c_task \in [Callers -> Tasks \cup {NoTask}] /\ c_task[c] = NoTask /\ c_task' = [c_task EXCEPT ![c] = k]
    BY ZenonT(120) DEF TInv, Inv, TypeOK, Execute, ExecuteOnThread
<1>2. k \notin submitted /\ submitted' = submitted \cup {k}
    BY ZenonT(120) DEF Execute
<1>3. k \notin Handed
    BY <1>2, ZenonT(120) DEF TInv, Disjoint
<1>4. Handed' = Handed \cup {k}
    BY <1>1, ZenonT(120) DEF Handed
<1>5. UNCHANGED <<m_tasks, t_tasks, t_job, executed, s_pc>>
    BY ZenonT(120) DEF ExecuteOnThread, stop_vars
<1>6. UNCHANGED <<Queued, Given, Running, Finished>>
    BY <1>5, ZenonT(120) DEF Queued, Given, Running, Finished
<1>7. \A d, e \in Callers : c_task'[d] = c_task'[e] /\ c_task'[d] # NoTask => d = e
    BY <1>1, <1>3, ZenonT(120) DEF Handed, TInv, Unique
<1>8. Unique'
    BY <1>5, <1>7, ZenonT(120) DEF TInv, Unique
<1> QED
    BY <1>2, <1>4, <1>5, <1>6, <1>8, ZenonT(120)

(* execute() puts a new task into the queue.                               *)
LEMMA ExecuteQueuedMove ==
    ASSUME TInv, NEW c \in Callers, NEW k \in Tasks, Execute(c, k), ExecuteQueued(k)
    PROVE  /\ Unique'
           /\ Queued' = Queued \cup {k}
           /\ k \notin submitted /\ submitted' = submitted \cup {k}
           /\ UNCHANGED <<Handed, Given, Running, Finished, s_pc>>
<1>1. m_tasks \in Seq(Tasks) /\ m_tasks' = Append(m_tasks, k)
    BY ZenonT(120) DEF TInv, Inv, TypeOK, ExecuteQueued
<1>2. k \notin submitted /\ submitted' = submitted \cup {k}
    BY ZenonT(120) DEF Execute
<1>3. \A i \in DOMAIN m_tasks : m_tasks[i] # k
    BY <1>2, ZenonT(120) DEF TInv, Disjoint, Queued
<1>4. /\ \A j : (\E i \in DOMAIN m_tasks' : m_tasks'[i] = j) <=> (j = k \/ \E i \in DOMAIN m_tasks : m_tasks[i] = j)
      /\ \A i, j \in DOMAIN m_tasks' : m_tasks'[i] = m_tasks'[j] => i = j
    BY <1>1, <1>3, AppendElements, SMTT(120) DEF TInv, Unique
<1>5. Queued' = Queued \cup {k}
    BY <1>4, ZenonT(120) DEF Queued
<1>6. UNCHANGED <<t_tasks, t_job, c_task, executed, s_pc>>
    BY ZenonT(120) DEF ExecuteQueued, thread_vars, caller_vars, stop_vars
<1>7. UNCHANGED <<Handed, Given, Running, Finished>>
    BY <1>6, ZenonT(120) DEF Handed, Given, Running, Finished
<1>8. Unique'
    BY <1>4, <1>6, ZenonT(120) DEF TInv, Unique
<1> QED
    BY <1>2, <1>5, <1>6, <1>7, <1>8, ZenonT(120)

(* Thread::execute() moves the task of the caller to the thread.           *)
LEMMA HandMove ==
    ASSUME TInv, NEW c \in Callers, Hand(c)
    PROVE  /\ Unique'
           /\ c_task[c] \in Handed
           /\ Handed' = Handed \ {c_task[c]}
           /\ Given' = Given \cup {c_task[c]}
           /\ UNCHANGED <<Queued, Running, Finished, submitted, s_pc>>
<1> USE PoolAssumption
<1> DEFINE u == c_thread[c]
           k == c_task[c]
<1>1. /\ u \in Threads /\ k \in Tasks /\ t_tasks[u] = <<>>
      /\ c_task \in [Callers -> Tasks \cup {NoTask}]
      /\ t_tasks \in [Threads -> Seq(Tasks)]
    BY SMTT(120) DEF TInv, Inv, TypeOK, ThreadsInv, Hand
<1>2. c_task' = [c_task EXCEPT ![c] = NoTask] /\ t_tasks' = [t_tasks EXCEPT ![u] = Append(@, k)]
    BY ZenonT(120) DEF Hand
<1>3. t_tasks'[u] # <<>> /\ Head(t_tasks'[u]) = k
    BY <1>1, <1>2, SMTT(120)
<1>4. \A v \in Threads \ {u} : t_tasks'[v] = t_tasks[v]
    BY <1>1, <1>2, ZenonT(120)
<1>5. Given = {j \in Tasks : \E t \in Threads : t_tasks[t] # <<>> /\ Head(t_tasks[t]) = j}
    BY GivenHead, SMTT(120) DEF TInv, Inv, TypeOK, ThreadsInv, Given
<1>6. Given' = {j \in Tasks : \E t \in Threads : t_tasks'[t] # <<>> /\ Head(t_tasks'[t]) = j}
  <2>1. t_tasks' \in [Threads -> Seq(Tasks)] /\ \A t \in Threads : t_tasks'[t] # <<>> => Len(t_tasks'[t]) = 1
    BY HandInv, ZenonT(120) DEF TInv, Inv, TypeOK, ThreadsInv
  <2> QED
    BY <2>1, GivenHead, ZenonT(120) DEF Given
<1>7. k \in Handed /\ k \notin Given
    BY <1>1, ZenonT(120) DEF Handed, TInv, Disjoint
<1> HIDE DEF u, k
<1>8. Given' = Given \cup {k}
    BY <1>1, <1>3, <1>4, <1>5, <1>6, ZenonT(120)
<1>9. Handed' = Handed \ {k}
  <2>1. \A d \in Callers : c_task[d] = k => d = c
    BY <1>1, ZenonT(120) DEF TInv, Unique, k
  <2> QED
    BY <1>1, <1>2, <2>1, ZenonT(120) DEF Handed, k
<1>10. UNCHANGED <<m_tasks, t_job, executed, submitted, s_pc>>
    BY ZenonT(120) DEF Hand, pool_vars, stop_vars
<1>11. UNCHANGED <<Queued, Running, Finished>>
    BY <1>10, ZenonT(120) DEF Queued, Running, Finished
<1>12. Unique'
  <2>1. \A t, v \in Threads : t_tasks'[t] # <<>> /\ t_tasks'[v] # <<>> /\ Head(t_tasks'[t]) = Head(t_tasks'[v]) => t = v
    BY <1>1, <1>3, <1>4, <1>5, <1>7, SMTT(120) DEF TInv, Unique
  <2>2. \A d, e \in Callers : c_task'[d] = c_task'[e] /\ c_task'[d] # NoTask => d = e
    BY <1>1, <1>2, ZenonT(120) DEF TInv, Unique
  <2> QED
    BY <1>10, <2>1, <2>2, ZenonT(120) DEF TInv, Unique
<1> QED
    BY <1>7, <1>8, <1>9, <1>10, <1>11, <1>12, ZenonT(120) DEF k

(* The thread starts the task it was given.                                *)
LEMMA ThreadTakeMove ==
    ASSUME TInv, NEW t \in Threads, ThreadTake(t)
    PROVE  /\ Unique'
           /\ Head(t_tasks[t]) \in Given
           /\ Given' = Given \ {Head(t_tasks[t])}
           /\ Running' = Running \cup {Head(t_tasks[t])}
           /\ UNCHANGED <<Queued, Handed, Finished, submitted, s_pc>>
<1> USE PoolAssumption
<1> DEFINE k == Head(t_tasks[t])
<1>1. /\ t_tasks \in [Threads -> Seq(Tasks)] /\ t_tasks[t] # <<>> /\ Len(t_tasks[t]) = 1
      /\ t_job \in [Threads -> Tasks \cup {NoTask}] /\ t_job[t] = NoTask
    BY ZenonT(120) DEF TInv, Inv, TypeOK, ThreadsInv, ThreadTake, MainTerminates
<1>2. k \in Tasks /\ Tail(t_tasks[t]) = <<>>
    BY <1>1, HeadTail, ZenonT(120)
<1>3. t_tasks' = [t_tasks EXCEPT ![t] = <<>>] /\ t_job' = [t_job EXCEPT ![t] = k]
    BY <1>1, <1>2, ZenonT(120) DEF ThreadTake
<1>4. Given = {j \in Tasks : \E v \in Threads : t_tasks[v] # <<>> /\ Head(t_tasks[v]) = j}
    BY GivenHead, ZenonT(120) DEF TInv, Inv, TypeOK, ThreadsInv, Given
<1>5. Given' = {j \in Tasks : \E v \in Threads : t_tasks'[v] # <<>> /\ Head(t_tasks'[v]) = j}
  <2>1. t_tasks' \in [Threads -> Seq(Tasks)] /\ \A v \in Threads : t_tasks'[v] # <<>> => Len(t_tasks'[v]) = 1
    BY ThreadTakeInv, ZenonT(120) DEF TInv, Inv, TypeOK, ThreadsInv
  <2> QED
    BY <2>1, GivenHead, ZenonT(120) DEF Given
<1>6. k \in Given /\ k \notin Running
    BY <1>1, <1>2, <1>4, ZenonT(120) DEF TInv, Disjoint
<1>7. \A v \in Threads : t_tasks[v] # <<>> /\ Head(t_tasks[v]) = k => v = t
    BY <1>1, ZenonT(120) DEF TInv, Unique
<1> HIDE DEF k
<1>8. t_tasks'[t] = <<>> /\ \A v \in Threads \ {t} : t_tasks'[v] = t_tasks[v]
    BY <1>1, <1>3, ZenonT(120)
<1>9. Given' = Given \ {k}
    BY <1>4, <1>5, <1>7, <1>8, ZenonT(120) DEF k
<1>10. Running' = Running \cup {k}
    BY <1>1, <1>2, <1>3, ZenonT(120) DEF Running
<1>11. UNCHANGED <<m_tasks, c_task, executed, submitted, s_pc>>
    BY ZenonT(120) DEF ThreadTake, pool_vars, caller_vars, stop_vars
<1>12. UNCHANGED <<Queued, Handed, Finished>>
    BY <1>11, ZenonT(120) DEF Queued, Handed, Finished
<1>13. Unique'
  <2>1. \A v, w \in Threads : t_tasks'[v] # <<>> /\ t_tasks'[w] # <<>> /\ Head(t_tasks'[v]) = Head(t_tasks'[w]) => v = w
    BY <1>8, ZenonT(120) DEF TInv, Unique
  <2>2. \A v, w \in Threads : t_job'[v] = t_job'[w] /\ t_job'[v] # NoTask => v = w
    BY <1>1, <1>3, <1>6, <1>2, ZenonT(120) DEF TInv, Unique, Running
  <2> QED
    BY <1>11, <2>1, <2>2, ZenonT(120) DEF TInv, Unique
<1> QED
    BY <1>6, <1>9, <1>10, <1>11, <1>12, <1>13, ZenonT(120) DEF k

(* The task that ends was running and is finished.                         *)
LEMMA TaskDoneMove ==
    ASSUME TInv, NEW t \in Threads, TaskDone(t)
    PROVE  /\ Unique'
           /\ t_job[t] \in Running
           /\ Running' = Running \ {t_job[t]}
           /\ Finished' = Finished \cup {t_job[t]}
           /\ UNCHANGED <<Queued, Handed, Given, submitted, s_pc>>
<1> USE PoolAssumption
<1> DEFINE k == t_job[t]
<1>1. /\ k \in Tasks /\ t_job \in [Threads -> Tasks \cup {NoTask}]
      /\ executed \in [Tasks -> Nat]
    BY ZenonT(120) DEF TInv, Inv, TypeOK, ThreadsInv, TaskDone
<1>2. k \in Running /\ k \notin Finished
    BY <1>1, ZenonT(120) DEF Running, TInv, Disjoint
<1>3. executed[k] = 0
    BY <1>1, <1>2, ZenonT(120) DEF Finished
<1>4. t_job' = [t_job EXCEPT ![t] = NoTask] /\ executed' = [executed EXCEPT ![k] = @ + 1]
    BY ZenonT(120) DEF TaskDone
<1>5. \A v \in Threads : t_job[v] = k => v = t
    BY <1>1, ZenonT(120) DEF TInv, Unique
<1> HIDE DEF k
<1>6. Running' = Running \ {k}
    BY <1>1, <1>4, <1>5, ZenonT(120) DEF Running, k
<1>7. Finished' = Finished \cup {k}
    BY <1>1, <1>3, <1>4, SMTT(120) DEF Finished
<1>8. UNCHANGED <<m_tasks, t_tasks, c_task, submitted, s_pc>>
    BY ZenonT(120) DEF TaskDone, pool_vars, caller_vars, stop_vars
<1>9. UNCHANGED <<Queued, Handed, Given>>
    BY <1>8, ZenonT(120) DEF Queued, Handed, Given
<1>10. Unique'
  <2>1. \A v, w \in Threads : t_job'[v] = t_job'[w] /\ t_job'[v] # NoTask => v = w
    BY <1>1, <1>4, ZenonT(120) DEF TInv, Unique
  <2>2. \A j \in Tasks : executed'[j] <= 1
    BY <1>1, <1>3, <1>4, SMTT(120) DEF TInv, Unique
  <2> QED
    BY <1>8, <2>1, <2>2, ZenonT(120) DEF TInv, Unique
<1> QED
    BY <1>2, <1>6, <1>7, <1>8, <1>9, <1>10, ZenonT(120) DEF k

(* A thread starts the first queued task.                                  *)
LEMMA ThreadNextMove ==
    ASSUME TInv, NEW t \in Threads, ThreadNext(t), m_tasks # <<>>
    PROVE  /\ Unique'
           /\ Head(m_tasks) \in Queued
           /\ Queued' = Queued \ {Head(m_tasks)}
           /\ Running' = Running \cup {Head(m_tasks)}
           /\ UNCHANGED <<Handed, Given, Finished, submitted, s_pc>>
<1> USE PoolAssumption
<1> DEFINE k == Head(m_tasks)
<1>1. /\ m_tasks \in Seq(Tasks)
      /\ t_job \in [Threads -> Tasks \cup {NoTask}] /\ t_job[t] = NoTask
    BY ZenonT(120) DEF TInv, Inv, TypeOK, ThreadsInv, ThreadNext
<1>2. k \in Tasks
    BY <1>1, HeadTail, ZenonT(120)
<1>3. m_tasks' = Tail(m_tasks) /\ t_job' = [t_job EXCEPT ![t] = k]
    BY ZenonT(120) DEF ThreadNext
<1>4. /\ \A j : (\E i \in DOMAIN m_tasks' : m_tasks'[i] = j) <=> (j # k /\ \E i \in DOMAIN m_tasks : m_tasks[i] = j)
      /\ \A i, j \in DOMAIN m_tasks' : m_tasks'[i] = m_tasks'[j] => i = j
      /\ \E i \in DOMAIN m_tasks : m_tasks[i] = k
    BY <1>1, <1>3, TailElements, SMTT(120) DEF TInv, Unique
<1> HIDE DEF k
<1>5. k \in Queued /\ Queued' = Queued \ {k}
    BY <1>2, <1>4, SMTT(120) DEF Queued
<1>6. k \notin Running
    BY <1>5, ZenonT(120) DEF TInv, Disjoint
<1>7. Running' = Running \cup {k}
    BY <1>1, <1>2, <1>3, ZenonT(120) DEF Running
<1>8. UNCHANGED <<t_tasks, c_task, executed, submitted, s_pc>>
    BY ZenonT(120) DEF ThreadNext, caller_vars, stop_vars
<1>9. UNCHANGED <<Handed, Given, Finished>>
    BY <1>8, ZenonT(120) DEF Handed, Given, Finished
<1>10. Unique'
  <2>1. \A v, w \in Threads : t_job'[v] = t_job'[w] /\ t_job'[v] # NoTask => v = w
    BY <1>1, <1>2, <1>3, <1>6, ZenonT(120) DEF TInv, Unique, Running
  <2> QED
    BY <1>4, <1>8, <2>1, ZenonT(120) DEF TInv, Unique
<1> QED
    BY <1>5, <1>7, <1>8, <1>9, <1>10, ZenonT(120) DEF k

(* The steps that move no task.                                            *)
Still == UNCHANGED <<m_tasks, t_tasks, t_job, c_task, submitted, executed>>

(* They keep the places as they are.                                       *)
LEMMA StillMove ==
    ASSUME TInv, Still
    PROVE  Unique' /\ UNCHANGED <<Queued, Handed, Given, Running, Finished, submitted>>
<1>1. Unique'
    BY ZenonT(120) DEF TInv, Unique, Still
<1> QED
    BY <1>1, ZenonT(120) DEF Still, Queued, Handed, Given, Running, Finished

(* When stop() is about to return, no task is left.                        *)
LEMMA StopLeavesNoTask ==
    ASSUME TInv, StopLoopEnd, s_n = m_nThreads
    PROVE  Pending = {} /\ Running = {}
<1> USE PoolAssumption
<1>1. s_pc' = "done" /\ UNCHANGED <<t_pc, c_task>>
    BY ZenonT(120) DEF StopLoopEnd, thread_vars, caller_vars
<1>2. \A t \in Threads : t_pc[t] \in {"none", "deleted"}
    BY <1>1, StopLoopEndInv, ZenonT(120) DEF TInv, Inv, StopLeavesNoThread
<1>3. \A c \in Callers : c_task[c] = NoTask
    BY <1>1, StopLoopEndInv, ZenonT(120) DEF TInv, Inv, StopLeavesNoThread
<1>4. Handed = {} /\ Running = {} /\ Given = {}
  <2>1. \A t \in Threads : t_job[t] = NoTask /\ t_tasks[t] = <<>>
    BY <1>2, ZenonT(120) DEF TInv, Inv, ThreadsInv
  <2> QED
    BY <1>3, <2>1, SMTT(120) DEF Handed, Running, Given
<1>5. m_tasks = <<>>
  <2> SUFFICES ASSUME m_tasks # <<>> PROVE FALSE
    BY ZenonT(120)
  <2>1. Cardinality(Created) = nMax_threads
    BY ZenonT(120) DEF TInv, Inv, QueuedHasWorker, CountInv
  <2>2. Created # {}
    BY <2>1, FS_EmptySet, ZenonT(120)
  <2>3. PICK t \in Threads : t_pc[t] # "none"
    BY <2>2, ZenonT(120) DEF Created
  <2>4. Working(t)
    BY <2>3, ZenonT(120) DEF TInv, Inv, QueuedHasWorker
  <2> QED
    BY <1>2, <2>4, ZenonT(120) DEF Working
<1>6. Queued = {}
    BY <1>5, SMTT(120) DEF Queued
<1> QED
    BY <1>4, <1>6, PendingSplit, ZenonT(120)

(* A step keeps the places of the tasks apart, and is a step of TaskPool   *)
(* or leaves its state alone.                                              *)
LEMMA TNext == ASSUME TInv, [Next]_vars PROVE TInv' /\ [Abstract!Next]_(Abstract!vars)
<1>1. Inv'
    BY NextInv, ZenonT(120) DEF TInv
<1>2. Pending = Queued \cup Handed \cup Given /\ Pending' = Queued' \cup Handed' \cup Given'
    BY ZenonT(120) DEF Pending, Queued, Handed, Given
<1>3. ASSUME NEW c \in Callers, NEW k \in Tasks, Execute(c, k)
      PROVE  TInv' /\ Abstract!Submit(k)
  <2>1. s_pc = "no"
    BY <1>3, ZenonT(120) DEF Execute, m_stop
  <2>2. CASE ExecuteQueued(k)
    <3>1. Unique' /\ Queued' = Queued \cup {k} /\ k \notin submitted /\ submitted' = submitted \cup {k}
        BY <1>3, <2>2, ExecuteQueuedMove, ZenonT(120)
    <3>2. UNCHANGED <<Handed, Given, Running, Finished, s_pc>>
        BY <1>3, <2>2, ExecuteQueuedMove, ZenonT(120)
    <3>3. Disjoint'
        BY <3>1, <3>2, SMTT(120) DEF TInv, Disjoint
    <3>4. Abstract!Submit(k)
        BY <1>2, <2>1, <3>1, <3>2, ZenonT(120) DEF Abstract!Submit, Phase, TInv, Disjoint
    <3> QED
        BY <1>1, <3>1, <3>3, <3>4, ZenonT(120) DEF TInv
  <2>3. ASSUME NEW t \in Threads, ExecuteOnThread(c, k, t)
        PROVE  TInv' /\ Abstract!Submit(k)
    <3>1. Unique' /\ Handed' = Handed \cup {k} /\ k \notin submitted /\ submitted' = submitted \cup {k}
        BY <1>3, <2>3, ExecuteOnThreadMove, ZenonT(120)
    <3>2. UNCHANGED <<Queued, Given, Running, Finished, s_pc>>
        BY <1>3, <2>3, ExecuteOnThreadMove, ZenonT(120)
    <3>3. Disjoint'
        BY <3>1, <3>2, SMTT(120) DEF TInv, Disjoint
    <3>4. Abstract!Submit(k)
        BY <1>2, <2>1, <3>1, <3>2, ZenonT(120) DEF Abstract!Submit, Phase, TInv, Disjoint
    <3> QED
        BY <1>1, <3>1, <3>3, <3>4, ZenonT(120) DEF TInv
  <2> QED
    BY <1>3, <2>2, <2>3, ZenonT(120) DEF Execute
<1>4. ASSUME NEW c \in Callers, Hand(c)
      PROVE  TInv' /\ UNCHANGED Abstract!vars
  <2>1. /\ Unique' /\ c_task[c] \in Handed /\ Handed' = Handed \ {c_task[c]} /\ Given' = Given \cup {c_task[c]}
        /\ UNCHANGED <<Queued, Running, Finished, submitted, s_pc>>
    BY <1>4, HandMove, ZenonT(120)
  <2>2. Disjoint'
    BY <2>1, SMTT(120) DEF TInv, Disjoint
  <2>3. UNCHANGED <<Pending, Running, Finished, Phase>>
    BY <1>2, <2>1, ZenonT(120) DEF Phase
  <2> QED
    BY <1>1, <2>1, <2>2, <2>3, ZenonT(120) DEF TInv, Abstract!vars
<1>5. ASSUME NEW t \in Threads, ThreadTake(t)
      PROVE  TInv' /\ \E k \in Tasks : Abstract!Start(k)
  <2> DEFINE k == Head(t_tasks[t])
  <2>1. /\ Unique' /\ k \in Given /\ Given' = Given \ {k} /\ Running' = Running \cup {k}
        /\ UNCHANGED <<Queued, Handed, Finished, submitted, s_pc>>
    BY <1>5, ThreadTakeMove, ZenonT(120)
  <2> HIDE DEF k
  <2>2. Disjoint'
    BY <2>1, SMTT(120) DEF TInv, Disjoint
  <2>3. k \in Tasks /\ Abstract!Start(k)
    BY <1>2, <2>1, SMTT(120) DEF TInv, Disjoint, Abstract!Start, Phase, Given
  <2> QED
    BY <1>1, <2>1, <2>2, <2>3, ZenonT(120) DEF TInv
<1>6. ASSUME NEW t \in Threads, TaskDone(t)
      PROVE  TInv' /\ \E k \in Tasks : Abstract!Finish(k)
  <2> DEFINE k == t_job[t]
  <2>1. /\ Unique' /\ k \in Running /\ Running' = Running \ {k} /\ Finished' = Finished \cup {k}
        /\ UNCHANGED <<Queued, Handed, Given, submitted, s_pc>>
    BY <1>6, TaskDoneMove, ZenonT(120)
  <2> HIDE DEF k
  <2>2. Disjoint'
    BY <2>1, ZenonT(120) DEF TInv, Disjoint
  <2>3. k \in Tasks /\ Abstract!Finish(k)
    BY <1>2, <2>1, ZenonT(120) DEF Abstract!Finish, Phase, Running
  <2> QED
    BY <1>1, <2>1, <2>2, <2>3, ZenonT(120) DEF TInv
<1>7. ASSUME NEW t \in Threads, ThreadNext(t), m_tasks # <<>>
      PROVE  TInv' /\ \E k \in Tasks : Abstract!Start(k)
  <2> DEFINE k == Head(m_tasks)
  <2>1. /\ Unique' /\ k \in Queued /\ Queued' = Queued \ {k} /\ Running' = Running \cup {k}
        /\ UNCHANGED <<Handed, Given, Finished, submitted, s_pc>>
    BY <1>7, ThreadNextMove, ZenonT(120)
  <2> HIDE DEF k
  <2>2. Disjoint'
    BY <2>1, ZenonT(120) DEF TInv, Disjoint
  <2>3. k \in Tasks /\ Abstract!Start(k)
    BY <1>2, <2>1, ZenonT(120) DEF TInv, Disjoint, Abstract!Start, Phase, Queued
  <2> QED
    BY <1>1, <2>1, <2>2, <2>3, ZenonT(120) DEF TInv
<1>8. ASSUME Still
      PROVE  TInv' /\ UNCHANGED <<Pending, Running, Finished>>
  <2>1. Unique' /\ UNCHANGED <<Queued, Handed, Given, Running, Finished, submitted>>
    BY <1>8, StillMove, ZenonT(120)
  <2>2. Disjoint'
    BY <2>1, ZenonT(120) DEF TInv, Disjoint
  <2> QED
    BY <1>1, <1>2, <2>1, <2>2, ZenonT(120) DEF TInv
<1>9. ASSUME NEW t \in Threads, ThreadExit(t) \/ ThreadNotify(t) \/ (ThreadNext(t) /\ m_tasks = <<>>)
      PROVE  TInv' /\ UNCHANGED Abstract!vars
  <2>1. Still
    BY <1>9, ZenonT(120) DEF Still, ThreadExit, ThreadNotify, ThreadNext, pool_vars, caller_vars
  <2>2. UNCHANGED Phase
    BY <1>9, ZenonT(120) DEF Phase, ThreadExit, ThreadNotify, ThreadNext, stop_vars
  <2> QED
    BY <1>8, <2>1, <2>2, ZenonT(120) DEF Abstract!vars
<1>10. CASE StopBegin
  <2>1. Still /\ Phase = "open" /\ Phase' = "stopping"
    BY <1>10, ZenonT(120) DEF Still, StopBegin, m_stop, Phase, pool_vars, thread_vars, caller_vars
  <2>2. Abstract!Stop
    BY <1>8, <2>1, ZenonT(120) DEF Abstract!Stop
  <2> QED
    BY <1>8, <2>1, <2>2, ZenonT(120) DEF Abstract!Next
<1>11. CASE StopLoopEnd /\ s_n = m_nThreads
  <2>1. Still /\ Phase = "stopping" /\ Phase' = "stopped"
    BY <1>11, ZenonT(120) DEF Still, StopLoopEnd, Phase, pool_vars, thread_vars, caller_vars
  <2>2. Abstract!Stopped
    BY <1>8, <1>11, <2>1, StopLeavesNoTask, ZenonT(120) DEF Abstract!Stopped
  <2> QED
    BY <1>8, <2>1, <2>2, ZenonT(120) DEF Abstract!Next
<1>12. ASSUME StopLock \/ (\E t \in Threads : StopThread(t)) \/ StopJoin \/ (StopLoopEnd /\ s_n # m_nThreads) \/ StopWake
       PROVE  TInv' /\ UNCHANGED Abstract!vars
  <2>1. Still
    BY <1>12, ZenonT(120) DEF Still, StopLock, StopThread, StopJoin, StopLoopEnd, StopWake, pool_vars, thread_vars, caller_vars
  <2>2. UNCHANGED Phase
    BY <1>12, ZenonT(120) DEF Phase, StopLock, StopThread, StopJoin, StopLoopEnd, StopWake
  <2> QED
    BY <1>8, <2>1, <2>2, ZenonT(120) DEF Abstract!vars
<1>13. ASSUME UNCHANGED vars
       PROVE  TInv' /\ UNCHANGED Abstract!vars
  <2>1. Still /\ UNCHANGED s_pc
    BY <1>13, ZenonT(120) DEF Still, vars, pool_vars, thread_vars, caller_vars, stop_vars
  <2> QED
    BY <1>8, <2>1, ZenonT(120) DEF Abstract!vars, Phase
<1>14. ASSUME NEW t \in Threads, Main(t)
       PROVE  TInv' /\ [Abstract!Next]_(Abstract!vars)
    BY <1>5, <1>6, <1>7, <1>9, <1>14, ZenonT(120) DEF Main, Abstract!Next
<1>15. CASE Stop
    BY <1>11, <1>12, <1>15, ZenonT(120) DEF Stop, Abstract!Next
<1> QED
    BY <1>3, <1>4, <1>10, <1>13, <1>14, <1>15, ZenonT(120) DEF Next, Abstract!Next

(* A new pool is an open TaskPool without tasks.                           *)
LEMMA TInit == Init => TInv /\ Abstract!Init
<1> SUFFICES ASSUME Init PROVE TInv /\ Abstract!Init
    BY ZenonT(120)
<1> USE PoolAssumption
<1>1. Queued = {} /\ Handed = {} /\ Given = {} /\ Running = {} /\ Finished = {}
    BY SMTT(120) DEF Init, Queued, Handed, Given, Running, Finished
<1>2. Unique
    BY SMTT(120) DEF Init, Unique
<1>3. Disjoint
    BY <1>1, ZenonT(120) DEF Init, Disjoint
<1>4. Abstract!Init
    BY <1>1, PendingSplit, ZenonT(120) DEF Init, Abstract!Init, Phase
<1> QED
    BY <1>2, <1>3, <1>4, InitInv, ZenonT(120) DEF TInv

(* The thread pool implements TaskPool: a task given to execute() is       *)
(* pending until a thread starts it, once, and stop() returns when every   *)
(* task is done.                                                           *)
THEOREM PoolImplements == Safety => ImplementsTaskPool
<1>1. Init => TInv /\ Abstract!Init
    BY TInit, ZenonT(120)
<1>2. TInv /\ [Next]_vars => TInv' /\ [Abstract!Next]_(Abstract!vars)
    BY TNext, ZenonT(120)
<1> QED
    BY <1>1, <1>2, PTL DEF Safety, ImplementsTaskPool, Abstract!Spec

(* The cardinality of a set of one place.                                  *)
LEMMA Singleton == ASSUME NEW x PROVE Cardinality({x}) = 1
    BY FS_Singleton, ZenonT(120)

(* A submitted task is in one place: the sets are disjoint, and none holds *)
(* it twice.                                                               *)
LEMMA OnePlace == TInv => NoTaskLost
<1> SUFFICES ASSUME TInv, NEW k \in submitted
             PROVE  Cardinality(Places(k)) + executed[k] = 1
    BY ZenonT(120) DEF NoTaskLost
<1> USE PoolAssumption
<1>1. k \in Tasks /\ executed[k] \in Nat /\ executed[k] <= 1
    BY ZenonT(120) DEF TInv, Inv, TypeOK, Unique
<1>2. Places(k) = PlacesQueued(k) \cup PlacesHanded(k) \cup PlacesGiven(k) \cup PlacesRunning(k)
    BY ZenonT(120) DEF Places
<1>3. k \notin Queued => PlacesQueued(k) = {}
    BY <1>1, ZenonT(120) DEF Queued, PlacesQueued
<1>4. k \notin Handed => PlacesHanded(k) = {}
    BY <1>1, ZenonT(120) DEF Handed, PlacesHanded
<1>5. k \notin Given => PlacesGiven(k) = {}
    BY <1>1, ZenonT(120) DEF Given, PlacesGiven
<1>6. k \notin Running => PlacesRunning(k) = {}
    BY <1>1, ZenonT(120) DEF Running, PlacesRunning
<1>7. k \notin Finished <=> executed[k] = 0
    BY <1>1, ZenonT(120) DEF Finished
<1>8. CASE k \in Queued
  <2>1. PICK i \in DOMAIN m_tasks : m_tasks[i] = k
    BY <1>8, ZenonT(120) DEF Queued
  <2>2. PlacesQueued(k) = {<<"queued", i>>}
    BY <2>1, SMTT(120) DEF TInv, Unique, PlacesQueued
  <2>3. k \notin Handed \cup Given \cup Running \cup Finished
    BY <1>8, ZenonT(120) DEF TInv, Disjoint
  <2>4. Places(k) = {<<"queued", i>>} /\ executed[k] = 0
    BY <1>2, <1>4, <1>5, <1>6, <1>7, <2>2, <2>3, ZenonT(120)
  <2>5. Cardinality(Places(k)) = 1
    BY <2>4, Singleton, ZenonT(120)
  <2> QED
    BY <2>4, <2>5, SMTT(120)
<1>9. CASE k \in Handed
  <2>1. PICK c \in Callers : c_task[c] = k
    BY <1>9, ZenonT(120) DEF Handed
  <2>2. PlacesHanded(k) = {<<"handed", c>>}
    BY <1>1, <2>1, SMTT(120) DEF TInv, Unique, PlacesHanded
  <2>3. k \notin Queued \cup Given \cup Running \cup Finished
    BY <1>9, ZenonT(120) DEF TInv, Disjoint
  <2>4. Places(k) = {<<"handed", c>>} /\ executed[k] = 0
    BY <1>2, <1>3, <1>5, <1>6, <1>7, <2>2, <2>3, ZenonT(120)
  <2>5. Cardinality(Places(k)) = 1
    BY <2>4, Singleton, ZenonT(120)
  <2> QED
    BY <2>4, <2>5, SMTT(120)
<1>10. CASE k \in Given
  <2>1. PICK t \in Threads : \E i \in DOMAIN t_tasks[t] : t_tasks[t][i] = k
    BY <1>10, ZenonT(120) DEF Given
  <2>2. \A u \in Threads : t_tasks[u] # <<>> => DOMAIN t_tasks[u] = {1} /\ Head(t_tasks[u]) = t_tasks[u][1]
    <3> SUFFICES ASSUME NEW u \in Threads, t_tasks[u] # <<>>
                 PROVE  DOMAIN t_tasks[u] = {1} /\ Head(t_tasks[u]) = t_tasks[u][1]
        BY ZenonT(120)
    <3>1. t_tasks[u] \in Seq(Tasks) /\ Len(t_tasks[u]) = 1
        BY ZenonT(120) DEF TInv, Inv, TypeOK, ThreadsInv
    <3> QED
        BY <3>1, SMTT(120)
  <2>3. \A u \in Threads : t_tasks[u] = <<>> => DOMAIN t_tasks[u] = {}
    BY EmptyDomain, ZenonT(120)
  <2>4. t_tasks[t] # <<>> /\ DOMAIN t_tasks[t] = {1} /\ t_tasks[t][1] = k
    BY <2>1, <2>2, <2>3, ZenonT(120)
  <2>5. ASSUME NEW u \in Threads, NEW i \in DOMAIN t_tasks[u], t_tasks[u][i] = k
        PROVE  u = t /\ i = 1
    <3>1. t_tasks[u] # <<>>
      BY <2>3, <2>5, ZenonT(120)
    <3>2. i = 1 /\ Head(t_tasks[u]) = k
      BY <2>2, <2>5, <3>1, ZenonT(120)
    <3>3. Head(t_tasks[t]) = k
      BY <2>2, <2>4, ZenonT(120)
    <3> QED
      BY <2>4, <3>1, <3>2, <3>3, ZenonT(120) DEF TInv, Unique
  <2>6. PlacesGiven(k) = {<<"given", t, 1>>}
    BY <2>4, <2>5, SMTT(120) DEF PlacesGiven
  <2>7. k \notin Queued \cup Handed \cup Running \cup Finished
    BY <1>10, ZenonT(120) DEF TInv, Disjoint
  <2>8. Places(k) = {<<"given", t, 1>>} /\ executed[k] = 0
    BY <1>2, <1>3, <1>4, <1>6, <1>7, <2>6, <2>7, ZenonT(120)
  <2>9. Cardinality(Places(k)) = 1
    BY <2>8, Singleton, ZenonT(120)
  <2> QED
    BY <2>8, <2>9, SMTT(120)
<1>11. CASE k \in Running
  <2>1. PICK t \in Threads : t_job[t] = k
    BY <1>11, ZenonT(120) DEF Running
  <2>2. PlacesRunning(k) = {<<"running", t>>}
    BY <1>1, <2>1, SMTT(120) DEF TInv, Unique, PlacesRunning
  <2>3. k \notin Queued \cup Handed \cup Given \cup Finished
    BY <1>11, ZenonT(120) DEF TInv, Disjoint
  <2>4. Places(k) = {<<"running", t>>} /\ executed[k] = 0
    BY <1>2, <1>3, <1>4, <1>5, <1>7, <2>2, <2>3, ZenonT(120)
  <2>5. Cardinality(Places(k)) = 1
    BY <2>4, Singleton, ZenonT(120)
  <2> QED
    BY <2>4, <2>5, SMTT(120)
<1>12. CASE k \in Finished
  <2>1. k \notin Queued \cup Handed \cup Given \cup Running
    BY <1>12, ZenonT(120) DEF TInv, Disjoint
  <2>2. Places(k) = {} /\ executed[k] = 1
    BY <1>1, <1>2, <1>3, <1>4, <1>5, <1>6, <1>7, <1>12, <2>1, SMTT(120)
  <2> QED
    BY <2>2, FS_EmptySet, SMTT(120)
<1> QED
    BY <1>8, <1>9, <1>10, <1>11, <1>12, ZenonT(120) DEF TInv, Disjoint

(* No task given to execute() is lost or executed twice.                   *)
THEOREM PoolLosesNoTask == Safety => []NoTaskLost
<1>1. Init => TInv
    BY TInit, ZenonT(120)
<1>2. TInv /\ [Next]_vars => TInv'
    BY TNext, ZenonT(120)
<1> QED
    BY <1>1, <1>2, OnePlace, PTL DEF Safety
===============================================================================
