----------------------------- MODULE GCUpdater -----------------------------
(***************************************************************************)
(* SharedData and GCUpdater (maxutils/maxbase): worker threads read a      *)
(* shared object without copying it and post updates to a queue of their   *)
(* own; one updater thread drains the queues, copies the newest instance,  *)
(* applies the updates to the copy, publishes it and deletes the instances *)
(* that no worker can reach any more.                                      *)
(*                                                                         *)
(* Threads: the workers (an index in Clients), the updater (GCUpdater::run)*)
(* and the main thread, which starts and stops the updater.  A step is a   *)
(* critical section, or a stretch of code that touches no shared state.    *)
(* An update is its timestamp.  A data instance is the set of the          *)
(* timestamps that have been applied to it.                                *)
(***************************************************************************)
EXTENDS Integers, FiniteSets

CONSTANTS
    MaxClients,     \* bound: how many worker threads can exist
    NumClients,     \* num_clients of the constructor; 0 = workers come and go
    QueueMax,       \* queue_max: capacity of one SharedData queue
    CapCopies,      \* cap_copies; 0 = no cap
    OrderUpdates,   \* order_updates
    UpdatesOnly,    \* updates_only
    GcTries,        \* the "count" of the opportunistic gc loop, 5 in run()
    DestroyInUse,   \* may stop() be called while workers are attached
    Ptr,            \* addresses of data instances
    Null,           \* the null pointer
    MaxUpdates      \* bound: how many updates the workers send

ASSUME SizesAssumption ==
    /\ MaxClients \in Nat \ {0}
    /\ NumClients \in 0..MaxClients
    /\ QueueMax \in Nat \ {0}
    /\ CapCopies \in Nat \ {1}
    /\ GcTries \in Nat \ {0}
    /\ MaxUpdates \in Nat

ASSUME FlagsAssumption == {OrderUpdates, UpdatesOnly, DestroyInUse} \subseteq BOOLEAN

ASSUME PtrAssumption == Null \notin Ptr /\ Ptr # {}

Clients == 0..MaxClients - 1

\* What the updater thread is about to do.
UpdaterPcs ==
    {"unstarted", "startup", "head", "condwait", "read1", "idle", "tloop", "tcheck",
     "tclear", "prewait", "wait", "gap", "blocked", "clear", "read2", "sort", "cap",
     "update", "publish", "gc", "reset", "done"}

WorkerPcs == {"out", "joining", "idle", "stamped", "full", "leaving", "retry"}

VARIABLES
    \* SharedData, one per worker
    pCurrent,       \* m_pCurrent
    pNew,           \* m_pNew
    queue,          \* m_queue
    swapped,        \* m_data_swapped_out
    \* the workers
    wpc,            \* what the thread is about to do
    stamp,          \* the timestamp send_update took, while it is being queued
    \* GCUpdater
    n,              \* m_shared_data.size()
    running,        \* m_running
    pending,        \* m_pending_client_change
    noBlocking,     \* m_no_blocking
    dataRdy,        \* m_data_rdy
    nextStamp,      \* m_timestamp_generator
    latest,         \* m_pLatest_data
    allPtrs,        \* m_all_ptrs
    localQueue,     \* m_local_queue
    leftover,       \* m_leftover_queue
    \* locals of run() and gc()
    upc,            \* what the updater thread is about to do
    todo,           \* the clients the current loop has still to visit
    gcCount,        \* gc_ptr_count
    tries,          \* count
    haveData,       \* have_data
    inUse,          \* in_use_ptrs
    gcRet,          \* where gc() returns to
    \* the main thread in stop(), and the memory
    stopPc,
    stopTodo,
    heap,           \* the instances that are allocated
    data            \* what has been applied to each of them

sharedVars == <<pCurrent, pNew, queue, swapped>>
workerVars == <<wpc, stamp>>
clientVars == <<n, pending, noBlocking>>
runVars == <<todo, gcCount, tries, haveData, inUse, gcRet>>
batchVars == <<localQueue, leftover>>
memVars == <<latest, allPtrs, heap, data>>
stopVars == <<stopPc, stopTodo>>
vars == <<sharedVars, workerVars, clientVars, running, dataRdy, nextStamp,
          memVars, batchVars, upc, runVars, stopVars>>

InitialPtr == CHOOSE p \in Ptr : TRUE

Attached == 0..n - 1

Init ==
    /\ n = NumClients
    /\ pCurrent = [w \in Clients |-> IF w < NumClients THEN InitialPtr ELSE Null]
    /\ pNew = [w \in Clients |-> IF w < NumClients THEN InitialPtr ELSE Null]
    /\ queue = [w \in Clients |-> {}]
    /\ swapped = [w \in Clients |-> FALSE]
    /\ wpc = [w \in Clients |-> IF w < NumClients THEN "idle" ELSE "out"]
    /\ stamp = [w \in Clients |-> 0]
    /\ running = FALSE
    /\ pending = FALSE
    /\ noBlocking = FALSE
    /\ dataRdy = FALSE
    /\ nextStamp = 0
    /\ latest = InitialPtr
    /\ allPtrs = {InitialPtr}
    /\ localQueue = {}
    /\ leftover = {}
    /\ upc = "unstarted"
    /\ todo = {}
    /\ gcCount = 0
    /\ tries = 0
    /\ haveData = FALSE
    /\ inUse = {}
    /\ gcRet = "head"
    /\ stopPc = "running"
    /\ stopTodo = {}
    /\ heap = {InitialPtr}
    /\ data = [p \in Ptr |-> {}]

(***************************************************************************)
(* Locks.  The updater holds m_client_count_mutex except while it waits    *)
(* for the first client or in m_client_cond.  In wait_for_updates it holds *)
(* m_update_mutex of client 0, and of client 0 only, from the evaluation   *)
(* of the predicate until it sleeps in, or returns from, the wait.         *)
(***************************************************************************)
ClientLockFree == upc \in {"unstarted", "startup", "condwait", "done"}

UpdateLockFree(w) == w = 0 => upc \notin {"gap", "clear", "tclear"}

\* m_updater_wakeup.notify_one(): lost unless the updater is asleep
Notified(u) == IF u = "blocked" THEN "wait" ELSE u

(***************************************************************************)
(* Worker threads                                                          *)
(***************************************************************************)

\* No other thread is in init_for/finish_for: s_datas_lock is held there
Alone == \A w \in Clients : wpc[w] \notin {"joining", "leaving", "retry"}

\* increase_client_count up to the lock: flags raised, updater notified
IncreaseBegin(w) ==
    /\ NumClients = 0
    /\ w = n /\ wpc[w] = "out" /\ Alone
    /\ stopPc = "running"
    /\ running \/ upc = "unstarted"
    /\ pending' = TRUE
    /\ noBlocking' = TRUE
    /\ upc' = Notified(upc)
    /\ wpc' = [wpc EXCEPT ![w] = "joining"]
    /\ UNCHANGED <<sharedVars, stamp, n, running, dataRdy, nextStamp,
                   memVars, batchVars, runVars, stopVars>>

\* increase_client_count under m_client_count_mutex
IncreaseEnd(w) ==
    /\ wpc[w] = "joining"
    /\ ClientLockFree
    /\ n' = n + 1
    /\ pCurrent' = [pCurrent EXCEPT ![w] = latest]
    /\ pNew' = [pNew EXCEPT ![w] = latest]
    /\ queue' = [queue EXCEPT ![w] = {}]
    /\ swapped' = [swapped EXCEPT ![w] = FALSE]
    /\ pending' = FALSE
    /\ noBlocking' = FALSE
    /\ wpc' = [wpc EXCEPT ![w] = "idle"]
    /\ UNCHANGED <<stamp, running, dataRdy, nextStamp, memVars, batchVars,
                   upc, runVars, stopVars>>

\* decrease_client_count up to the lock
DecreaseBegin(w) ==
    /\ NumClients = 0
    /\ w + 1 = n /\ wpc[w] = "idle" /\ Alone
    /\ stopPc = "running"
    /\ pending' = TRUE
    /\ noBlocking' = TRUE
    /\ upc' = Notified(upc)
    /\ wpc' = [wpc EXCEPT ![w] = "leaving"]
    /\ UNCHANGED <<sharedVars, stamp, n, running, dataRdy, nextStamp,
                   memVars, batchVars, runVars, stopVars>>

\* The queue still has data: let the updater run, and try again later
DecreaseYield(w) ==
    /\ wpc[w] = "leaving"
    /\ ClientLockFree
    /\ queue[w] # {}
    /\ pending' = FALSE
    /\ wpc' = [wpc EXCEPT ![w] = "retry"]
    /\ UNCHANGED <<sharedVars, stamp, n, noBlocking, running, dataRdy, nextStamp,
                   memVars, batchVars, upc, runVars, stopVars>>

\* After the sleep of 1ms
DecreaseRetry(w) ==
    /\ wpc[w] = "retry"
    /\ pending' = TRUE
    /\ wpc' = [wpc EXCEPT ![w] = "leaving"]
    /\ UNCHANGED <<sharedVars, stamp, n, noBlocking, running, dataRdy, nextStamp,
                   memVars, batchVars, upc, runVars, stopVars>>

\* The queue is empty: drop the SharedData; the last one stops the updater
DecreaseEnd(w) ==
    /\ wpc[w] = "leaving"
    /\ ClientLockFree
    /\ queue[w] = {}
    /\ pending' = FALSE
    /\ noBlocking' = FALSE
    /\ n' = n - 1
    /\ running' = (running /\ w # 0)
    /\ pCurrent' = [pCurrent EXCEPT ![w] = Null]
    /\ pNew' = [pNew EXCEPT ![w] = Null]
    /\ wpc' = [wpc EXCEPT ![w] = "out"]
    /\ UNCHANGED <<queue, swapped, stamp, dataRdy, nextStamp, memVars, batchVars,
                   upc, runVars, stopVars>>

\* reader_ready, called at the top and the bottom of the worker's loop
ReaderReady(w) ==
    /\ w < n /\ wpc[w] = "idle"
    /\ stopPc # "stopped"
    /\ pCurrent' = [pCurrent EXCEPT ![w] = pNew[w]]
    /\ UNCHANGED <<pNew, queue, swapped, workerVars, clientVars, running, dataRdy,
                   nextStamp, memVars, batchVars, upc, runVars, stopVars>>

\* send_update takes its timestamp before it takes the lock
SendStamp(w) ==
    /\ w < n /\ wpc[w] = "idle"
    /\ stopPc = "running"
    /\ nextStamp < MaxUpdates
    /\ stamp' = [stamp EXCEPT ![w] = nextStamp]
    /\ nextStamp' = nextStamp + 1
    /\ wpc' = [wpc EXCEPT ![w] = "stamped"]
    /\ UNCHANGED <<sharedVars, clientVars, running, dataRdy, memVars, batchVars,
                   upc, runVars, stopVars>>

\* Mutant of SendPush: the updater is not notified
SendPushSilent(w) ==
    /\ wpc[w] = "stamped"
    /\ UpdateLockFree(w)
    /\ Cardinality(queue[w]) < QueueMax
    /\ queue' = [queue EXCEPT ![w] = @ \union {stamp[w]}]
    /\ dataRdy' = TRUE
    /\ wpc' = [wpc EXCEPT ![w] = "idle"]
    /\ UNCHANGED <<pCurrent, pNew, swapped, stamp, clientVars, running, nextStamp,
                   memVars, batchVars, upc, runVars, stopVars>>

\* send_update: the queue has room
SendPush(w) ==
    /\ wpc[w] = "stamped"
    /\ UpdateLockFree(w)
    /\ Cardinality(queue[w]) < QueueMax
    /\ queue' = [queue EXCEPT ![w] = @ \union {stamp[w]}]
    /\ dataRdy' = TRUE
    /\ upc' = Notified(upc)
    /\ wpc' = [wpc EXCEPT ![w] = "idle"]
    /\ UNCHANGED <<pCurrent, pNew, swapped, stamp, clientVars, running, nextStamp,
                   memVars, batchVars, runVars, stopVars>>

\* The queue is full: sleep in m_worker_wakeup
SendFull(w) ==
    /\ wpc[w] = "stamped"
    /\ UpdateLockFree(w)
    /\ Cardinality(queue[w]) >= QueueMax
    /\ swapped' = [swapped EXCEPT ![w] = FALSE]
    /\ wpc' = [wpc EXCEPT ![w] = "full"]
    /\ UNCHANGED <<pCurrent, pNew, queue, stamp, clientVars, running, dataRdy, nextStamp,
                   memVars, batchVars, upc, runVars, stopVars>>

SendWake(w) ==
    /\ wpc[w] = "full"
    /\ swapped[w]
    /\ wpc' = [wpc EXCEPT ![w] = "stamped"]
    /\ UNCHANGED <<sharedVars, stamp, clientVars, running, dataRdy, nextStamp,
                   memVars, batchVars, upc, runVars, stopVars>>

(***************************************************************************)
(* The updater thread: GCUpdater::run                                      *)
(***************************************************************************)

\* Enter gc(), to continue at ret
CallGc(ret) ==
    /\ upc' = "gc"
    /\ todo' = Attached
    /\ inUse' = {}
    /\ gcRet' = ret

\* Continue at pc, with no gc() in between
GoTo(pc) ==
    /\ upc' = pc
    /\ UNCHANGED <<todo, inUse, gcRet>>

\* read_clients is about to visit every client
StartReading(pc) ==
    /\ upc' = pc
    /\ todo' = Attached
    /\ UNCHANGED <<inUse, gcRet>>

\* w is the client the loop over m_shared_data has come to
IsNext(w, S) == w \in S /\ \A v \in S : w <= v

\* Before the first worker thread has attached itself
Startup ==
    /\ upc = "startup"
    /\ ~running \/ n > 0
    /\ GoTo("head")
    /\ UNCHANGED <<sharedVars, workerVars, clientVars, running, dataRdy, nextStamp,
                   memVars, batchVars, gcCount, tries, haveData, stopVars>>

\* What follows the wait in m_client_cond: the batch starts as the leftover
TakeLeftover ==
    /\ localQueue' = IF OrderUpdates THEN leftover ELSE {}
    /\ leftover' = IF OrderUpdates THEN {} ELSE leftover
    /\ StartReading("read1")

\* The loop condition, and the predicate of the wait for a client change
Head ==
    /\ upc = "head"
    /\ \/ /\ running /\ ~pending
          /\ TakeLeftover
       \/ /\ running /\ pending
          /\ GoTo("condwait")
          /\ UNCHANGED batchVars
       \/ /\ ~running
          /\ StartReading("reset")
          /\ UNCHANGED batchVars
    /\ UNCHANGED <<sharedVars, workerVars, clientVars, running, dataRdy, nextStamp,
                   memVars, gcCount, tries, haveData, stopVars>>

CondWake ==
    /\ upc = "condwait"
    /\ ~pending
    /\ TakeLeftover
    /\ UNCHANGED <<sharedVars, workerVars, clientVars, running, dataRdy, nextStamp,
                   memVars, gcCount, tries, haveData, stopVars>>

\* Mutant of ReadClient: the queue is copied and not swapped out
ReadClientCopy(w) ==
    /\ upc \in {"read1", "read2"}
    /\ w \in todo
    /\ localQueue' = localQueue \union queue[w]
    /\ swapped' = [swapped EXCEPT ![w] = TRUE]
    /\ todo' = todo \ {w}
    /\ UNCHANGED <<pCurrent, pNew, queue, workerVars, clientVars, running, dataRdy, nextStamp,
                   memVars, leftover, upc, gcCount, tries, haveData, inUse, gcRet, stopVars>>

\* get_updates on one client; a client whose lock is taken is visited later
ReadClient(w) ==
    /\ upc \in {"read1", "read2"}
    /\ w \in todo
    /\ localQueue' = localQueue \union queue[w]
    /\ queue' = [queue EXCEPT ![w] = {}]
    /\ swapped' = [swapped EXCEPT ![w] = TRUE]
    /\ todo' = todo \ {w}
    /\ UNCHANGED <<pCurrent, pNew, workerVars, clientVars, running, dataRdy, nextStamp,
                   memVars, leftover, upc, gcCount, tries, haveData, inUse, gcRet, stopVars>>

\* All clients have been read
ReadDone ==
    /\ upc \in {"read1", "read2"}
    /\ todo = {}
    /\ GoTo(IF localQueue # {} THEN "sort" ELSE IF upc = "read1" THEN "idle" ELSE "head")
    /\ UNCHANGED <<sharedVars, workerVars, clientVars, running, dataRdy, nextStamp,
                   memVars, batchVars, gcCount, tries, haveData, stopVars>>

\* Nothing to do: collect garbage, if there is any, before waiting
Idle ==
    /\ upc = "idle"
    /\ tries' = GcTries
    /\ haveData' = FALSE
    /\ IF gcCount > 0 THEN CallGc("tloop") ELSE GoTo("prewait")
    /\ UNCHANGED <<sharedVars, workerVars, clientVars, running, dataRdy, nextStamp,
                   memVars, batchVars, gcCount, stopVars>>

\* The condition of the loop that waits, with a timeout, for more garbage
TimedLoop ==
    /\ upc = "tloop"
    /\ IF gcCount > 0
          THEN /\ tries' = tries - 1
               /\ GoTo(IF tries - 1 # 0 THEN "tcheck" ELSE "prewait")
          ELSE /\ GoTo("prewait")
               /\ UNCHANGED tries
    /\ UNCHANGED <<sharedVars, workerVars, clientVars, running, dataRdy, nextStamp,
                   memVars, batchVars, gcCount, haveData, stopVars>>

\* The predicate of wait_for_updates
HaveUpdates == dataRdy \/ noBlocking

\* wait_for_updates with a timeout returns what the predicate is at the end
TimedWait ==
    /\ upc = "tcheck"
    /\ haveData' = HaveUpdates
    /\ GoTo("tclear")
    /\ UNCHANGED <<sharedVars, workerVars, clientVars, running, dataRdy, nextStamp,
                   memVars, batchVars, gcCount, tries, stopVars>>

TimedClear ==
    /\ upc = "tclear"
    /\ dataRdy' = FALSE
    /\ IF haveData THEN StartReading("read2") ELSE CallGc("tloop")
    /\ UNCHANGED <<sharedVars, workerVars, clientVars, running, nextStamp,
                   memVars, batchVars, gcCount, tries, haveData, stopVars>>

PreWait ==
    /\ upc = "prewait"
    /\ IF running THEN GoTo("wait") ELSE StartReading("read2")
    /\ UNCHANGED <<sharedVars, workerVars, clientVars, running, dataRdy, nextStamp,
                   memVars, batchVars, gcCount, tries, haveData, stopVars>>

\* wait_for_updates without a timeout: the predicate is evaluated, ...
Wait ==
    /\ upc = "wait"
    /\ GoTo(IF HaveUpdates THEN "clear" ELSE "gap")
    /\ UNCHANGED <<sharedVars, workerVars, clientVars, running, dataRdy, nextStamp,
                   memVars, batchVars, gcCount, tries, haveData, stopVars>>

\* ... and only then does the thread fall asleep and release the lock
Block ==
    /\ upc = "gap"
    /\ GoTo("blocked")
    /\ UNCHANGED <<sharedVars, workerVars, clientVars, running, dataRdy, nextStamp,
                   memVars, batchVars, gcCount, tries, haveData, stopVars>>

WaitClear ==
    /\ upc = "clear"
    /\ dataRdy' = FALSE
    /\ StartReading("read2")
    /\ UNCHANGED <<sharedVars, workerVars, clientVars, running, nextStamp,
                   memVars, batchVars, gcCount, tries, haveData, stopVars>>

\* The updates up to the first missing timestamp
ContiguousPrefix(S) == {t \in S : \A u \in S : u..t \subseteq S}

\* Sort the batch and put what follows a missing timestamp aside
Sort ==
    /\ upc = "sort"
    /\ IF OrderUpdates
          THEN /\ localQueue' = ContiguousPrefix(localQueue)
               /\ leftover' = leftover \union (localQueue \ ContiguousPrefix(localQueue))
          ELSE UNCHANGED batchVars
    /\ GoTo("cap")
    /\ UNCHANGED <<sharedVars, workerVars, clientVars, running, dataRdy, nextStamp,
                   memVars, gcCount, tries, haveData, stopVars>>

\* Mutant of Cap: the comparison is off by one
CapLate ==
    /\ upc = "cap"
    /\ IF CapCopies > 0 /\ gcCount > CapCopies /\ running
          THEN CallGc("cap")
          ELSE GoTo("update")
    /\ UNCHANGED <<sharedVars, workerVars, clientVars, running, dataRdy, nextStamp,
                   memVars, batchVars, gcCount, tries, haveData, stopVars>>

\* Wait for the workers to release an instance when there are too many
Cap ==
    /\ upc = "cap"
    /\ IF CapCopies > 0 /\ gcCount >= CapCopies /\ running
          THEN CallGc("cap")
          ELSE GoTo("update")
    /\ UNCHANGED <<sharedVars, workerVars, clientVars, running, dataRdy, nextStamp,
                   memVars, batchVars, gcCount, tries, haveData, stopVars>>

\* Reading an instance that has been deleted yields anything
Contents(p) == IF p \in heap THEN {data[p]} ELSE SUBSET (0..nextStamp - 1)

\* create_new_copy and make_updates
Update ==
    /\ upc = "update"
    /\ \E old \in Contents(latest) :
          IF UpdatesOnly
            THEN /\ data' = [data EXCEPT ![latest] = old \union localQueue]
                 /\ UNCHANGED <<latest, allPtrs, heap, gcCount>>
                 /\ IF gcCount > 1 THEN CallGc("head") ELSE GoTo("head")
            ELSE \E p \in Ptr \ heap :
                   /\ heap' = heap \union {p}
                   /\ data' = [data EXCEPT ![p] = old \union localQueue]
                   /\ latest' = p
                   /\ allPtrs' = allPtrs \union {p}
                   /\ gcCount' = gcCount + 1
                   /\ StartReading("publish")
    /\ UNCHANGED <<sharedVars, workerVars, clientVars, running, dataRdy, nextStamp,
                   batchVars, tries, haveData, stopVars>>

\* set_new_data on one client after the other
Publish(w) ==
    /\ upc = "publish"
    /\ IsNext(w, todo)
    /\ pNew' = [pNew EXCEPT ![w] = latest]
    /\ todo' = todo \ {w}
    /\ UNCHANGED <<pCurrent, queue, swapped, workerVars, clientVars, running, dataRdy,
                   nextStamp, memVars, batchVars, upc, gcCount, tries, haveData, inUse, gcRet,
                   stopVars>>

\* All clients have the new instance: collect what it has superseded
PublishDone ==
    /\ upc = "publish"
    /\ todo = {}
    /\ IF gcCount > 1 THEN CallGc("head") ELSE GoTo("head")
    /\ UNCHANGED <<sharedVars, workerVars, clientVars, running, dataRdy, nextStamp,
                   memVars, batchVars, gcCount, tries, haveData, stopVars>>

\* Mutant of GcScan: only the instance being read counts as in use
GcScanCurrent(w) ==
    /\ upc = "gc"
    /\ w \in todo
    /\ inUse' = inUse \union {pCurrent[w]}
    /\ todo' = todo \ {w}
    /\ UNCHANGED <<sharedVars, workerVars, clientVars, running, dataRdy, nextStamp,
                   memVars, batchVars, upc, gcCount, tries, haveData, gcRet, stopVars>>

\* Mutant of GcScan: only the instance to be read next counts as in use
GcScanNew(w) ==
    /\ upc = "gc"
    /\ w \in todo
    /\ inUse' = inUse \union {pNew[w]}
    /\ todo' = todo \ {w}
    /\ UNCHANGED <<sharedVars, workerVars, clientVars, running, dataRdy, nextStamp,
                   memVars, batchVars, upc, gcCount, tries, haveData, gcRet, stopVars>>

\* get_in_use_ptrs: the two pointers of one client are read under its lock
GcScan(w) ==
    /\ upc = "gc"
    /\ w \in todo
    /\ inUse' = inUse \union {pCurrent[w], pNew[w]}
    /\ todo' = todo \ {w}
    /\ UNCHANGED <<sharedVars, workerVars, clientVars, running, dataRdy, nextStamp,
                   memVars, batchVars, upc, gcCount, tries, haveData, gcRet, stopVars>>

\* The rest of gc(): what is not in use is deleted
GcDelete ==
    /\ upc = "gc"
    /\ todo = {}
    /\ heap' = heap \ (allPtrs \ inUse)
    /\ allPtrs' = inUse
    /\ gcCount' = IF inUse = {} THEN 0 ELSE Cardinality(inUse) - 1
    /\ inUse' = {}
    /\ upc' = gcRet
    /\ UNCHANGED <<sharedVars, workerVars, clientVars, running, dataRdy, nextStamp,
                   latest, data, batchVars, todo, tries, haveData, gcRet, stopVars>>

\* The end of run(): the pointers are reset and everything is collected
Reset(w) ==
    /\ upc = "reset"
    /\ IsNext(w, todo)
    /\ pCurrent' = [pCurrent EXCEPT ![w] = Null]
    /\ pNew' = [pNew EXCEPT ![w] = Null]
    /\ todo' = todo \ {w}
    /\ UNCHANGED <<queue, swapped, workerVars, clientVars, running, dataRdy, nextStamp,
                   memVars, batchVars, upc, gcCount, tries, haveData, inUse, gcRet, stopVars>>

ResetDone ==
    /\ upc = "reset"
    /\ todo = {}
    /\ CallGc("done")
    /\ UNCHANGED <<sharedVars, workerVars, clientVars, running, dataRdy, nextStamp,
                   memVars, batchVars, gcCount, tries, haveData, stopVars>>

(***************************************************************************)
(* The main thread: start() and stop()                                     *)
(***************************************************************************)
Start ==
    /\ upc = "unstarted"
    /\ running' = TRUE
    /\ upc' = "startup"
    /\ UNCHANGED <<sharedVars, workerVars, clientVars, dataRdy, nextStamp,
                   memVars, batchVars, runVars, stopVars>>

\* stop() is called when no session uses the object any more
StopBegin ==
    /\ stopPc = "running"
    /\ upc # "unstarted"
    /\ \A w \in Clients : wpc[w] \in {"idle", "out"}
    /\ n = 0 \/ DestroyInUse
    /\ running' = FALSE
    /\ stopPc' = "reset"
    /\ stopTodo' = Attached
    /\ UNCHANGED <<sharedVars, workerVars, clientVars, dataRdy, nextStamp,
                   memVars, batchVars, upc, runVars>>

\* reset_ptrs on one client after the other
StopReset(w) ==
    /\ stopPc = "reset"
    /\ IsNext(w, stopTodo)
    /\ pCurrent' = [pCurrent EXCEPT ![w] = Null]
    /\ pNew' = [pNew EXCEPT ![w] = Null]
    /\ stopTodo' = stopTodo \ {w}
    /\ UNCHANGED <<queue, swapped, workerVars, clientVars, running, dataRdy, nextStamp,
                   memVars, batchVars, upc, runVars, stopPc>>

StopResetDone ==
    /\ stopPc = "reset"
    /\ stopTodo = {}
    /\ stopPc' = IF n > 0 THEN "signal" ELSE "join"
    /\ UNCHANGED <<sharedVars, workerVars, clientVars, running, dataRdy, nextStamp,
                   memVars, batchVars, upc, runVars, stopTodo>>

\* Mutant of StopSignal: the updater is not woken up
StopSignalNone ==
    /\ stopPc = "signal"
    /\ stopPc' = "join"
    /\ UNCHANGED <<sharedVars, workerVars, clientVars, running, dataRdy, nextStamp,
                   memVars, batchVars, upc, runVars, stopTodo>>

\* SharedData::shutdown on client 0
StopSignal ==
    /\ stopPc = "signal"
    /\ UpdateLockFree(0)
    /\ dataRdy' = TRUE
    /\ upc' = Notified(upc)
    /\ stopPc' = "join"
    /\ UNCHANGED <<sharedVars, workerVars, clientVars, running, nextStamp,
                   memVars, batchVars, runVars, stopTodo>>

StopJoin ==
    /\ stopPc = "join"
    /\ upc = "done"
    /\ stopPc' = "stopped"
    /\ UNCHANGED <<sharedVars, workerVars, clientVars, running, dataRdy, nextStamp,
                   memVars, batchVars, upc, runVars, stopTodo>>

Changing(w) ==
    \/ IncreaseEnd(w)
    \/ DecreaseYield(w)
    \/ DecreaseRetry(w)
    \/ DecreaseEnd(w)

Sending(w) ==
    \/ SendPush(w)
    \/ SendFull(w)
    \/ SendWake(w)

Worker(w) ==
    \/ IncreaseBegin(w)
    \/ DecreaseBegin(w)
    \/ Changing(w)
    \/ ReaderReady(w)
    \/ SendStamp(w)
    \/ Sending(w)

Updater ==
    \/ Startup \/ Head \/ CondWake \/ ReadDone
    \/ Idle \/ TimedLoop \/ TimedWait \/ TimedClear
    \/ PreWait \/ Wait \/ Block \/ WaitClear
    \/ Sort \/ Cap \/ Update \/ PublishDone \/ GcDelete \/ ResetDone
    \/ \E w \in Clients : ReadClient(w) \/ Publish(w) \/ GcScan(w) \/ Reset(w)

Stopping == (\E w \in Clients : StopReset(w)) \/ StopResetDone \/ StopSignal \/ StopJoin

Main == Start \/ StopBegin \/ Stopping

Next == Main \/ Updater \/ \E w \in Clients : Worker(w)

Spec == Init /\ [][Next]_vars

(***************************************************************************)
(* Every thread that can run is scheduled; a worker that has started to    *)
(* attach, to leave or to post an update goes on with it, and its epoll    *)
(* loop calls reader_ready on every tick.  Nothing makes a worker send an  *)
(* update, attach or leave, and nothing makes the main thread stop.        *)
(***************************************************************************)
Fairness ==
    /\ WF_vars(Updater)
    /\ WF_vars(Start) /\ WF_vars(Stopping)
    /\ \A w \in Clients : WF_vars(Changing(w)) /\ WF_vars(Sending(w)) /\ WF_vars(ReaderReady(w))

LiveSpec == Spec /\ Fairness

-----------------------------------------------------------------------------
(***************************************************************************)
(* Properties                                                              *)
(***************************************************************************)
PtrOrNull == Ptr \union {Null}

FlagTypes ==
    /\ running \in BOOLEAN
    /\ pending \in BOOLEAN
    /\ noBlocking \in BOOLEAN
    /\ dataRdy \in BOOLEAN
    /\ haveData \in BOOLEAN
    /\ swapped \in [Clients -> BOOLEAN]

ClientTypes ==
    /\ n \in 0..MaxClients
    /\ pCurrent \in [Clients -> PtrOrNull]
    /\ pNew \in [Clients -> PtrOrNull]
    /\ queue \in [Clients -> SUBSET Nat]
    /\ wpc \in [Clients -> WorkerPcs]
    /\ stamp \in [Clients -> Nat]
    /\ nextStamp \in Nat

RunTypes ==
    /\ upc \in UpdaterPcs
    /\ todo \in SUBSET Clients
    /\ inUse \in SUBSET PtrOrNull
    /\ gcRet \in {"head", "tloop", "cap", "done"}
    /\ gcCount \in Nat
    /\ tries \in Int
    /\ localQueue \in SUBSET Nat
    /\ leftover \in SUBSET Nat
    /\ stopPc \in {"running", "reset", "signal", "join", "stopped"}
    /\ stopTodo \in SUBSET Clients

MemTypes ==
    /\ latest \in Ptr
    /\ allPtrs \in SUBSET PtrOrNull
    /\ heap \in SUBSET Ptr
    /\ data \in [Ptr -> SUBSET Nat]

\* Type invariant: the values the members of SharedData and GCUpdater, the
\* threads' positions and the locals of run() can have.
TypeOK == FlagTypes /\ ClientTypes /\ RunTypes /\ MemTypes

\* The instance a worker reads, and the one reader_ready will hand to it next,
\* have not been deleted by gc(), although gc() looks at the workers one by one
\* while they switch instances.
NoDanglingReader ==
    \A w \in Attached : {pCurrent[w], pNew[w]} \subseteq heap \union {Null}

\* What the updater has read and not yet applied
Batch ==
    IF \/ upc \in {"unstarted", "startup", "head", "condwait", "publish", "reset", "done"}
       \/ upc = "gc" /\ gcRet \in {"head", "done"}
      THEN {}
      ELSE localQueue

InFlight == {stamp[w] : w \in {v \in Clients : wpc[v] \in {"stamped", "full"}}}

Queued == UNION {queue[w] : w \in Clients}

\* Every update that was given a timestamp is in exactly one place until it is
\* applied, and is applied exactly once: no batch is lost, and none applied
\* twice, whatever workers do while the updater swaps their queues.
NoUpdateLost ==
    /\ 0..nextStamp - 1 = InFlight \union Queued \union Batch \union leftover \union data[latest]
    /\ Cardinality(InFlight) + Cardinality(Queued) + Cardinality(Batch)
          + Cardinality(leftover) + Cardinality(data[latest]) = nextStamp

\* cap_copies, the "maximum number of simultaneous copies", counts the superseded
\* instances: while the updater runs there is never more than one above it.
CopiesBounded == CapCopies > 0 /\ running => Cardinality(heap) <= CapCopies + 1

\* A worker never goes back to an older instance, and the instance it holds does
\* not change under it: an address is not handed out again while a worker has it.
ReaderMovesForward ==
    [][\A w \in Attached \cap 0..n' - 1 :
         {pCurrent[w], pCurrent'[w]} \subseteq Ptr =>
            /\ data[pCurrent[w]] \subseteq data'[pCurrent'[w]]
            /\ ~UpdatesOnly => data'[pCurrent[w]] = data[pCurrent[w]]]_vars

\* send_update: "The actual update will happen at some later time", unless
\* stop() is called first.
EveryUpdateApplied ==
    \A t \in 0..MaxUpdates - 1 :
        t < nextStamp ~> t \in data[latest] \/ stopPc # "running"

\* stop() returns: the updater thread ends and is joined, wherever it was.
StopReturns == stopPc = "reset" ~> stopPc = "stopped"

=============================================================================
