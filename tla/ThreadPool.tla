------------------------------ MODULE ThreadPool ------------------------------
(***************************************************************************)
(* The thread pool of maxbase (maxutils/maxbase/src/threadpool.cc): the    *)
(* monitors, the REST API and the account managers execute their blocking  *)
(* work on it.                                                             *)
(*                                                                         *)
(* Any thread calls ThreadPool::execute(), one thread calls stop().  Every *)
(* section of the code under m_idle_threads_mx or a Thread's m_tasks_mx is *)
(* one step, except the loop of stop(), which keeps m_idle_threads_mx      *)
(* while it joins a thread.  The stack of idle threads is a set: which of  *)
(* them gets a task makes no difference to what is stated here.            *)
(***************************************************************************)
EXTENDS Integers, Sequences, FiniteSets

CONSTANTS Threads,        \* identities of the Thread objects a pool can create
          Callers,        \* the threads that call execute()
          Tasks,          \* every element is submitted at most once
          NoTask,         \* the caller or the thread has no task in hand
          NoThread,       \* no Thread object
          nMax_threads    \* constructor argument

ASSUME PoolAssumption ==
    /\ IsFiniteSet(Threads)
    /\ nMax_threads \in Nat \ {0}
    /\ nMax_threads <= Cardinality(Threads)
    /\ NoTask \notin Tasks
    /\ NoThread \notin Threads

VARIABLES m_nThreads,      \* threads created
          m_idle_threads,  \* Thread objects that wait for a task
          m_tasks,         \* tasks no thread was available for
          t_pc,            \* Thread -> where its main() is
          t_tasks,         \* Thread -> Thread::m_tasks
          t_stop,          \* Thread -> Thread::m_stop
          t_job,           \* Thread -> the task it executes
          c_task,          \* Caller -> the task it is handing over, after m_idle_threads_mx was released
          c_thread,        \* Caller -> the thread it hands the task to
          s_pc,            \* where stop() is
          s_n,             \* stop(): the local n
          s_cur,           \* stop(): the thread being joined
          m_abandon_tasks, \* the argument of stop()
          submitted,       \* tasks given to execute()
          executed         \* Task -> how many times it was executed

pool_vars == <<m_nThreads, m_idle_threads, m_tasks>>
thread_vars == <<t_pc, t_tasks, t_stop, t_job>>
caller_vars == <<c_task, c_thread>>
stop_vars == <<s_pc, s_n, s_cur, m_abandon_tasks>>
vars == <<pool_vars, thread_vars, caller_vars, stop_vars, submitted, executed>>

Init ==
    /\ m_nThreads = 0
    /\ m_idle_threads = {}
    /\ m_tasks = <<>>
    /\ t_pc = [t \in Threads |-> "none"]
    /\ t_tasks = [t \in Threads |-> <<>>]
    /\ t_stop = [t \in Threads |-> FALSE]
    /\ t_job = [t \in Threads |-> NoTask]
    /\ c_task = [c \in Callers |-> NoTask]
    /\ c_thread = [c \in Callers |-> NoThread]
    /\ s_pc = "no"
    /\ s_n = 0
    /\ s_cur = NoThread
    /\ m_abandon_tasks = FALSE
    /\ submitted = {}
    /\ executed = [k \in Tasks |-> 0]

(* m_stop: set by the first statement of stop() and never cleared.         *)
m_stop == s_pc # "no"

(* m_idle_threads_mx is kept across steps only by the loop of stop().      *)
IdleThreadsMutexFree == s_pc \notin {"loop", "join"}
-----------------------------------------------------------------------------
(* ThreadPool::execute(), the part under m_idle_threads_mx.                *)

(* A thread is taken from the stack, or created.                           *)
ExecuteOnThread(c, k, t) ==
    /\ \/ /\ t \in m_idle_threads
          /\ m_idle_threads' = m_idle_threads \ {t}
          /\ UNCHANGED <<m_nThreads, t_pc>>
       \/ /\ m_idle_threads = {}
          /\ m_nThreads < nMax_threads
          /\ t_pc[t] = "none"
          /\ m_nThreads' = m_nThreads + 1
          /\ t_pc' = [t_pc EXCEPT ![t] = "wait"]
          /\ UNCHANGED m_idle_threads
    /\ c_task' = [c_task EXCEPT ![c] = k]
    /\ c_thread' = [c_thread EXCEPT ![c] = t]
    /\ UNCHANGED <<m_tasks, t_tasks, t_stop, t_job, stop_vars, executed>>

(* All threads exist and none is idle: the task is queued, and the mutex   *)
(* of the idle threads is kept until it is.                                *)
ExecuteQueued(k) ==
    /\ m_idle_threads = {}
    /\ ~(m_nThreads < nMax_threads)
    /\ m_tasks' = Append(m_tasks, k)
    /\ UNCHANGED <<m_nThreads, m_idle_threads, thread_vars, caller_vars, stop_vars, executed>>

Execute(c, k) ==
    /\ ~m_stop
    /\ IdleThreadsMutexFree
    /\ c_task[c] = NoTask
    /\ k \notin submitted
    /\ submitted' = submitted \cup {k}
    /\ \/ \E t \in Threads : ExecuteOnThread(c, k, t)
       \/ ExecuteQueued(k)

(* Thread::execute(), called without m_idle_threads_mx.                    *)
Hand(c) ==
    /\ c_task[c] # NoTask
    /\ t_tasks' = [t_tasks EXCEPT ![c_thread[c]] = Append(@, c_task[c])]
    /\ c_task' = [c_task EXCEPT ![c] = NoTask]
    /\ c_thread' = [c_thread EXCEPT ![c] = NoThread]
    /\ UNCHANGED <<pool_vars, t_pc, t_stop, t_job, stop_vars, submitted, executed>>
-----------------------------------------------------------------------------
(* Thread::main() and the function ThreadPool::execute() gives it.         *)

MainTerminates(t) == t_stop[t] /\ (t_tasks[t] = <<>> \/ m_abandon_tasks)

(* Mutant of ThreadTake: the task is not removed from the queue            *)
ThreadTakeCopy(t) ==
    /\ t_pc[t] = "wait"
    /\ t_stop[t] \/ t_tasks[t] # <<>>
    /\ ~MainTerminates(t)
    /\ t_job' = [t_job EXCEPT ![t] = Head(t_tasks[t])]
    /\ t_pc' = [t_pc EXCEPT ![t] = "run"]
    /\ UNCHANGED <<pool_vars, t_tasks, t_stop, caller_vars, stop_vars, submitted, executed>>

(* The wait of main() ends with a task.                                    *)
ThreadTake(t) ==
    /\ t_pc[t] = "wait"
    /\ t_stop[t] \/ t_tasks[t] # <<>>
    /\ ~MainTerminates(t)
    /\ t_job' = [t_job EXCEPT ![t] = Head(t_tasks[t])]
    /\ t_tasks' = [t_tasks EXCEPT ![t] = Tail(@)]
    /\ t_pc' = [t_pc EXCEPT ![t] = "run"]
    /\ UNCHANGED <<pool_vars, t_stop, caller_vars, stop_vars, submitted, executed>>

ThreadExit(t) ==
    /\ t_pc[t] = "wait"
    /\ MainTerminates(t)
    /\ t_pc' = [t_pc EXCEPT ![t] = "exited"]
    /\ UNCHANGED <<pool_vars, t_tasks, t_stop, t_job, caller_vars, stop_vars, submitted, executed>>

(* task() returns.                                                         *)
TaskDone(t) ==
    /\ t_pc[t] = "run"
    /\ executed' = [executed EXCEPT ![t_job[t]] = @ + 1]
    /\ t_job' = [t_job EXCEPT ![t] = NoTask]
    /\ t_pc' = [t_pc EXCEPT ![t] = "next"]
    /\ UNCHANGED <<pool_vars, t_tasks, t_stop, caller_vars, stop_vars, submitted>>

(* Mutant of ThreadNext: one task per function, the queue is not looked at *)
ThreadNextIdle(t) ==
    /\ t_pc[t] = "next"
    /\ IdleThreadsMutexFree
    /\ m_idle_threads' = m_idle_threads \cup {t}
    /\ t_pc' = [t_pc EXCEPT ![t] = "notify"]
    /\ UNCHANGED <<m_nThreads, m_tasks, t_tasks, t_stop, t_job, caller_vars, stop_vars, submitted, executed>>

(* The do-while loop: under both mutexes, take a queued task or become     *)
(* idle.                                                                   *)
ThreadNext(t) ==
    /\ t_pc[t] = "next"
    /\ IdleThreadsMutexFree
    /\ \/ /\ m_tasks # <<>>
          /\ t_job' = [t_job EXCEPT ![t] = Head(m_tasks)]
          /\ m_tasks' = Tail(m_tasks)
          /\ t_pc' = [t_pc EXCEPT ![t] = "run"]
          /\ UNCHANGED m_idle_threads
       \/ /\ m_tasks = <<>>
          /\ m_idle_threads' = m_idle_threads \cup {t}
          /\ t_pc' = [t_pc EXCEPT ![t] = "notify"]
          /\ UNCHANGED <<t_job, m_tasks>>
    /\ UNCHANGED <<m_nThreads, t_tasks, t_stop, caller_vars, stop_vars, submitted, executed>>

(* Mutant of ThreadNotify: stop() is not notified                          *)
ThreadNotifyNone(t) ==
    /\ t_pc[t] = "notify"
    /\ t_pc' = [t_pc EXCEPT ![t] = "wait"]
    /\ UNCHANGED <<pool_vars, t_tasks, t_stop, t_job, caller_vars, stop_vars, submitted, executed>>

(* m_idle_threads_cv.notify_one(), after which main() waits again.         *)
ThreadNotify(t) ==
    /\ t_pc[t] = "notify"
    /\ s_pc' = IF s_pc = "blocked" THEN "woken" ELSE s_pc
    /\ t_pc' = [t_pc EXCEPT ![t] = "wait"]
    /\ UNCHANGED <<pool_vars, t_tasks, t_stop, t_job, caller_vars, s_n, s_cur, m_abandon_tasks, submitted, executed>>
-----------------------------------------------------------------------------
(* ThreadPool::stop(), called at most once.                                *)

StopBegin ==
    /\ ~m_stop
    /\ s_pc' = "lock"
    /\ m_abandon_tasks' \in BOOLEAN
    /\ UNCHANGED <<pool_vars, thread_vars, caller_vars, s_n, s_cur, submitted, executed>>

StopLock ==
    /\ s_pc = "lock"
    /\ s_pc' = "loop"
    /\ UNCHANGED <<pool_vars, thread_vars, caller_vars, s_n, s_cur, m_abandon_tasks, submitted, executed>>

(* An idle thread is told to stop and is then joined by its destructor.    *)
StopThread(t) ==
    /\ s_pc = "loop"
    /\ t \in m_idle_threads
    /\ m_idle_threads' = m_idle_threads \ {t}
    /\ t_stop' = [t_stop EXCEPT ![t] = TRUE]
    /\ s_cur' = t
    /\ s_pc' = "join"
    /\ UNCHANGED <<m_nThreads, m_tasks, t_pc, t_tasks, t_job, caller_vars, s_n, m_abandon_tasks, submitted, executed>>

StopJoin ==
    /\ s_pc = "join"
    /\ t_pc[s_cur] = "exited"
    /\ t_pc' = [t_pc EXCEPT ![s_cur] = "deleted"]
    /\ s_n' = s_n + 1
    /\ s_cur' = NoThread
    /\ s_pc' = "loop"
    /\ UNCHANGED <<pool_vars, t_tasks, t_stop, t_job, caller_vars, m_abandon_tasks, submitted, executed>>

(* Mutant of StopLoopEnd: only the threads that are idle are waited for    *)
StopLoopEndIdle ==
    /\ s_pc = "loop"
    /\ m_idle_threads = {}
    /\ s_pc' = "done"
    /\ UNCHANGED <<pool_vars, thread_vars, caller_vars, s_n, s_cur, m_abandon_tasks, submitted, executed>>

(* No thread is idle: all are joined, or the condition variable is waited  *)
(* for and the mutex released.                                             *)
StopLoopEnd ==
    /\ s_pc = "loop"
    /\ m_idle_threads = {}
    /\ s_pc' = IF s_n # m_nThreads THEN "blocked" ELSE "done"
    /\ UNCHANGED <<pool_vars, thread_vars, caller_vars, s_n, s_cur, m_abandon_tasks, submitted, executed>>

(* The wait checks its predicate with the mutex taken again.               *)
StopWake ==
    /\ s_pc = "woken"
    /\ s_pc' = IF m_idle_threads # {} THEN "loop" ELSE "blocked"
    /\ UNCHANGED <<pool_vars, thread_vars, caller_vars, s_n, s_cur, m_abandon_tasks, submitted, executed>>
-----------------------------------------------------------------------------
Stop == StopLock \/ (\E t \in Threads : StopThread(t)) \/ StopJoin \/ StopLoopEnd \/ StopWake

Main(t) == ThreadTake(t) \/ ThreadExit(t) \/ TaskDone(t) \/ ThreadNext(t) \/ ThreadNotify(t)

Next == \/ \E c \in Callers : Hand(c) \/ \E k \in Tasks : Execute(c, k)
        \/ \E t \in Threads : Main(t)
        \/ StopBegin
        \/ Stop

(* Every thread runs when it can, tasks end, and a call of execute() or    *)
(* stop() that has begun goes on.  Nobody has to call either.              *)
Fairness == /\ \A c \in Callers : WF_vars(Hand(c))
            /\ \A t \in Threads : WF_vars(Main(t))
            /\ WF_vars(Stop)

Safety == Init /\ [][Next]_vars

Spec == Safety /\ Fairness
-----------------------------------------------------------------------------
(* Properties                                                              *)

(* Type invariant: the values the members of ThreadPool and Thread, the    *)
(* locals of execute() and stop() and the positions in the code can have.  *)
(* The number of threads stays within the constructor's limit.             *)
TypeOK ==
    /\ m_nThreads \in 0 .. nMax_threads
    /\ m_idle_threads \subseteq Threads
    /\ m_tasks \in Seq(Tasks)
    /\ t_pc \in [Threads -> {"none", "wait", "run", "next", "notify", "exited", "deleted"}]
    /\ t_tasks \in [Threads -> Seq(Tasks)]
    /\ t_stop \in [Threads -> BOOLEAN]
    /\ t_job \in [Threads -> Tasks \cup {NoTask}]
    /\ c_task \in [Callers -> Tasks \cup {NoTask}]
    /\ c_thread \in [Callers -> Threads \cup {NoThread}]
    /\ s_pc \in {"no", "lock", "loop", "join", "blocked", "woken", "done"}
    /\ s_n \in 0 .. nMax_threads
    /\ s_cur \in Threads \cup {NoThread}
    /\ m_abandon_tasks \in BOOLEAN
    /\ submitted \subseteq Tasks
    /\ executed \in [Tasks -> Nat]

(* A thread that has a task, is about to get one, or will look for one.    *)
Working(t) == \/ t_pc[t] \in {"run", "next"}
              \/ t_pc[t] \in {"notify", "wait"} /\ (t_tasks[t] # <<>> \/ \E c \in Callers : c_thread[c] = t)

(* execute() queues a task only when every thread the pool may have is at  *)
(* work, and no thread becomes idle while a task is queued: a queued task  *)
(* never waits beside an idle thread, and it is never left behind by       *)
(* stop(), which only ends idle threads.                                   *)
QueuedHasWorker ==
    m_tasks # <<>> =>
        /\ m_idle_threads = {}
        /\ m_nThreads = nMax_threads
        /\ \A t \in Threads : t_pc[t] # "none" => Working(t)

(* The places a task can be in.  They are named, so that a task that is    *)
(* twice in a queue or in two places counts twice.                         *)
PlacesQueued(k) == {<<"queued", i>> : i \in {j \in DOMAIN m_tasks : m_tasks[j] = k}}
PlacesHanded(k) == {<<"handed", c>> : c \in {d \in Callers : c_task[d] = k}}
PlacesGiven(k) ==
    UNION {{<<"given", t, i>> : i \in {j \in DOMAIN t_tasks[t] : t_tasks[t][j] = k}} : t \in Threads}
PlacesRunning(k) == {<<"running", t>> : t \in {u \in Threads : t_job[u] = k}}
Places(k) == PlacesQueued(k) \cup PlacesHanded(k) \cup PlacesGiven(k) \cup PlacesRunning(k)

(* Every task given to execute() is in exactly one queue, hand-over or     *)
(* thread until it was executed exactly once, whatever stop() does in      *)
(* between and whether it abandons tasks or not.                           *)
NoTaskLost == \A k \in submitted : Cardinality(Places(k)) + executed[k] = 1

(* When stop() has returned, no Thread object is left and nobody is about  *)
(* to hand a task to one: the function every thread executes refers to the *)
(* members of the pool until its last statement, and the pool is destroyed *)
(* next.                                                                   *)
StopLeavesNoThread ==
    s_pc = "done" =>
        /\ \A t \in Threads : t_pc[t] \in {"none", "deleted"}
        /\ \A c \in Callers : c_task[c] = NoTask

(* The refinement mapping to TaskPool.                                     *)
Pending == {k \in Tasks :
               \/ \E i \in DOMAIN m_tasks : m_tasks[i] = k
               \/ \E c \in Callers : c_task[c] = k
               \/ \E t \in Threads : \E i \in DOMAIN t_tasks[t] : t_tasks[t][i] = k}
Running == {k \in Tasks : \E t \in Threads : t_job[t] = k}
Finished == {k \in Tasks : executed[k] # 0}
Phase == IF s_pc = "no" THEN "open" ELSE IF s_pc = "done" THEN "stopped" ELSE "stopping"

Abstract == INSTANCE TaskPool WITH pending <- Pending, running <- Running,
                                   finished <- Finished, phase <- Phase

(* The pool of execute(), stop() and the threads implements TaskPool: a    *)
(* task starts once and ends once, and stop() returns only when no task is *)
(* pending or running.                                                     *)
ImplementsTaskPool == Abstract!Spec

(* Every task given to execute() is executed, also when stop() is called   *)
(* meanwhile.                                                              *)
EveryTaskExecuted == \A k \in Tasks : k \in submitted ~> executed[k] = 1

(* stop() returns wherever the threads and the callers of execute() are    *)
(* when it is called: the wakeup of its condition variable is not lost,    *)
(* and no thread it joins needs the mutex it holds.                        *)
PoolStops == m_stop ~> s_pc = "done"
===============================================================================
