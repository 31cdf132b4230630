-------------------------- MODULE GCUpdaterProofs --------------------------
(***************************************************************************)
(* What is proved about GCUpdater for any number of workers, queue size,   *)
(* cap and bound: gc() never deletes an instance that a worker can reach;  *)
(* the instances are bounded by cap_copies; a worker never goes back to an *)
(* older instance; and no update is lost or applied twice.                 *)
(***************************************************************************)
EXTENDS GCUpdater, FiniteSetTheorems, TLAPS

\* At most one thread is in init_for/finish_for, and its index is the next
\* one to attach or the last one attached.
ChangeInv ==
    /\ \A w \in Clients : wpc[w] = "joining" => w = n
    /\ \A w \in Clients : wpc[w] \in {"leaving", "retry"} => w + 1 = n
    /\ \A v, w \in Clients :
         /\ wpc[v] \in {"joining", "leaving", "retry"}
         /\ wpc[w] \in {"joining", "leaving", "retry"}
         => v = w

\* When m_running is down, and that no thread attaches then.
RunInv ==
    /\ upc \in {"unstarted", "reset", "done"} => ~running
    /\ upc = "gc" /\ gcRet = "done" => ~running
    /\ n = 0 /\ upc \notin {"unstarted", "startup"} => ~running
    /\ stopPc # "running" => ~running /\ upc # "unstarted"
    /\ \A w \in Clients :
         wpc[w] = "joining" => stopPc = "running" /\ (running \/ upc = "unstarted")

\* The updater has not begun to shut down
InService == stopPc = "running" /\ (running \/ upc = "unstarted")

\* While the updater is in service the newest instance is allocated, and every
\* worker has it as its next one, except those set_new_data has still to visit.
LatestInv ==
    /\ InService \/ upc = "publish" => latest \in heap
    /\ InService => \A w \in Attached : pNew[w] = latest \/ (upc = "publish" /\ w \in todo)

\* What gc() has seen of a worker covers what the worker can reach from there.
GcInv ==
    /\ IsFiniteSet(inUse)
    /\ upc = "gc" => \A w \in Attached \ todo : {pCurrent[w], pNew[w]} \subseteq inUse \union {Null}

\* The inductive invariant.
IInv == TypeOK /\ ChangeInv /\ RunInv /\ LatestInv /\ GcInv /\ NoDanglingReader

\* The initial states, a SharedData container built by the GCUpdater
\* constructor, satisfy the inductive invariant.
LEMMA InitIInv == Init => IInv
<1> SUFFICES ASSUME Init PROVE IInv
  BY ZenonT(120)
<1> USE SizesAssumption, PtrAssumption
<1>1. InitialPtr \in Ptr
  BY ZenonT(120) DEF InitialPtr
<1>2. TypeOK
  <2>1. n \in 0..MaxClients
    BY ZenonT(120) DEF Init
  <2>2. pCurrent \in [Clients -> PtrOrNull] /\ pNew \in [Clients -> PtrOrNull]
    BY <1>1, ZenonT(120) DEF Init, PtrOrNull
  <2>3. wpc \in [Clients -> WorkerPcs]
    BY ZenonT(120) DEF Init, WorkerPcs
  <2>4. queue \in [Clients -> SUBSET Nat] /\ swapped \in [Clients -> BOOLEAN] /\ stamp \in [Clients -> Nat]
    BY ZenonT(120) DEF Init
  <2>5. upc \in UpdaterPcs /\ data \in [Ptr -> SUBSET Nat]
    BY ZenonT(120) DEF Init, UpdaterPcs
  <2>6. allPtrs \in SUBSET PtrOrNull /\ heap \in SUBSET Ptr /\ latest \in Ptr
    BY <1>1, ZenonT(120) DEF Init, PtrOrNull
  <2>7. running \in BOOLEAN /\ pending \in BOOLEAN /\ noBlocking \in BOOLEAN /\ dataRdy \in BOOLEAN /\ haveData \in BOOLEAN
    BY ZenonT(120) DEF Init
  <2>8. nextStamp \in Nat /\ gcCount \in Nat /\ tries \in Int
    BY SMTT(120) DEF Init
  <2>9. /\ localQueue \in SUBSET Nat /\ leftover \in SUBSET Nat /\ todo \in SUBSET Clients /\ stopTodo \in SUBSET Clients
        /\ inUse \in SUBSET PtrOrNull
    BY ZenonT(120) DEF Init
  <2>10. gcRet \in {"head", "tloop", "cap", "done"} /\ stopPc \in {"running", "reset", "signal", "join", "stopped"}
    BY ZenonT(120) DEF Init
  <2> QED
    BY <2>1, <2>2, <2>3, <2>4, <2>5, <2>6, <2>7, <2>8, <2>9, <2>10, ZenonT(120) DEF TypeOK, FlagTypes, ClientTypes, RunTypes, MemTypes
<1>3. ChangeInv /\ RunInv /\ LatestInv
  BY <1>1, SMTT(120) DEF Init, ChangeInv, RunInv, LatestInv, InService, Attached, Clients
<1>4. GcInv
  BY FS_EmptySet, ZenonT(120) DEF Init, GcInv
<1>5. NoDanglingReader
  BY <1>1, SMTT(120) DEF Init, NoDanglingReader, Attached, Clients
<1> QED
  BY <1>2, <1>3, <1>4, <1>5, ZenonT(120) DEF IInv

\* Every step of a worker, the updater or the main thread keeps the types.
LEMMA TypeStep ==
  ASSUME TypeOK, ChangeInv, IsFiniteSet(inUse), Next
  PROVE  TypeOK'
<1> USE DEF TypeOK, sharedVars, workerVars, clientVars, runVars, batchVars, memVars, stopVars, Notified, CallGc, GoTo, StartReading, TakeLeftover
<1>0. Attached \subseteq Clients
  BY SizesAssumption, SMTT(120) DEF ClientTypes, Attached, Clients
<1>1. ASSUME NEW w \in Clients, IncreaseBegin(w) PROVE TypeOK'
  BY <1>0, <1>1, ZenonT(120) DEF IncreaseBegin, FlagTypes, ClientTypes, RunTypes, MemTypes, UpdaterPcs, WorkerPcs, PtrOrNull, HaveUpdates, ContiguousPrefix
<1>2. ASSUME NEW w \in Clients, IncreaseEnd(w) PROVE TypeOK'
  <2>1. FlagTypes'
    BY ZenonT(120), <1>0, <1>2 DEF IncreaseEnd, FlagTypes, HaveUpdates
  <2>2. ClientTypes'
    BY <1>0, <1>2, SizesAssumption, SMTT(120) DEF IncreaseEnd, ClientTypes, WorkerPcs, PtrOrNull, ChangeInv, Clients, MemTypes
  <2>3. RunTypes'
    BY <1>0, <1>2, ZenonT(120) DEF IncreaseEnd, RunTypes, UpdaterPcs, PtrOrNull, ContiguousPrefix
  <2>4. MemTypes'
    BY <1>0, <1>2, ZenonT(120) DEF IncreaseEnd, MemTypes, PtrOrNull
  <2> QED
    BY <2>1, <2>2, <2>3, <2>4, ZenonT(120)
<1>3. ASSUME NEW w \in Clients, DecreaseBegin(w) PROVE TypeOK'
  BY <1>0, <1>3, ZenonT(120) DEF DecreaseBegin, FlagTypes, ClientTypes, RunTypes, MemTypes, UpdaterPcs, WorkerPcs, PtrOrNull, HaveUpdates, ContiguousPrefix
<1>4. ASSUME NEW w \in Clients, DecreaseYield(w) PROVE TypeOK'
  <2>1. FlagTypes'
    BY ZenonT(120), <1>0, <1>4 DEF DecreaseYield, FlagTypes, HaveUpdates
  <2>2. ClientTypes'
    BY <1>0, <1>4, SizesAssumption, ZenonT(120) DEF DecreaseYield, ClientTypes, WorkerPcs, PtrOrNull, ChangeInv, Clients
  <2>3. RunTypes'
    BY <1>0, <1>4, ZenonT(120) DEF DecreaseYield, RunTypes, UpdaterPcs, PtrOrNull, ContiguousPrefix
  <2>4. MemTypes'
    BY <1>0, <1>4, ZenonT(120) DEF DecreaseYield, MemTypes, PtrOrNull
  <2> QED
    BY <2>1, <2>2, <2>3, <2>4, ZenonT(120)
<1>5. ASSUME NEW w \in Clients, DecreaseRetry(w) PROVE TypeOK'
  BY <1>0, <1>5, SMTT(120) DEF DecreaseRetry, FlagTypes, ClientTypes, RunTypes, MemTypes, UpdaterPcs, WorkerPcs, PtrOrNull, HaveUpdates, ContiguousPrefix
<1>6. ASSUME NEW w \in Clients, DecreaseEnd(w) PROVE TypeOK'
  <2>1. FlagTypes'
    BY ZenonT(120), <1>0, <1>6 DEF DecreaseEnd, FlagTypes, HaveUpdates
  <2>2. ClientTypes'
    BY <1>0, <1>6, SizesAssumption, SMTT(120) DEF DecreaseEnd, ClientTypes, WorkerPcs, PtrOrNull, ChangeInv, Clients
  <2>3. RunTypes'
    BY <1>0, <1>6, ZenonT(120) DEF DecreaseEnd, RunTypes, UpdaterPcs, PtrOrNull, ContiguousPrefix
  <2>4. MemTypes'
    BY <1>0, <1>6, ZenonT(120) DEF DecreaseEnd, MemTypes, PtrOrNull
  <2> QED
    BY <2>1, <2>2, <2>3, <2>4, ZenonT(120)
<1>7. ASSUME NEW w \in Clients, ReaderReady(w) PROVE TypeOK'
  BY <1>0, <1>7, SMTT(120) DEF ReaderReady, FlagTypes, ClientTypes, RunTypes, MemTypes, UpdaterPcs, WorkerPcs, PtrOrNull, HaveUpdates, ContiguousPrefix
<1>8. ASSUME NEW w \in Clients, SendStamp(w) PROVE TypeOK'
  BY <1>0, <1>8, SMTT(120) DEF SendStamp, FlagTypes, ClientTypes, RunTypes, MemTypes, UpdaterPcs, WorkerPcs, PtrOrNull, HaveUpdates, ContiguousPrefix
<1>9. ASSUME NEW w \in Clients, SendPush(w) PROVE TypeOK'
  BY <1>0, <1>9, SMTT(120) DEF SendPush, FlagTypes, ClientTypes, RunTypes, MemTypes, UpdaterPcs, WorkerPcs, PtrOrNull, HaveUpdates, ContiguousPrefix
<1>10. ASSUME NEW w \in Clients, SendFull(w) PROVE TypeOK'
  BY <1>0, <1>10, SMTT(120) DEF SendFull, FlagTypes, ClientTypes, RunTypes, MemTypes, UpdaterPcs, WorkerPcs, PtrOrNull, HaveUpdates, ContiguousPrefix
<1>11. ASSUME NEW w \in Clients, SendWake(w) PROVE TypeOK'
  BY <1>0, <1>11, SMTT(120) DEF SendWake, FlagTypes, ClientTypes, RunTypes, MemTypes, UpdaterPcs, WorkerPcs, PtrOrNull, HaveUpdates, ContiguousPrefix
<1>12. ASSUME NEW w \in Clients, ReadClient(w) PROVE TypeOK'
  <2>1. FlagTypes'
    BY <1>0, <1>12, ZenonT(120) DEF ReadClient, FlagTypes, HaveUpdates
  <2>2. ClientTypes'
    BY <1>0, <1>12, SizesAssumption, ZenonT(120) DEF ReadClient, ClientTypes, WorkerPcs, PtrOrNull, ChangeInv, Clients
  <2>3. RunTypes'
    BY ZenonT(120), <1>0, <1>12 DEF ReadClient, RunTypes, UpdaterPcs, PtrOrNull, ContiguousPrefix, ClientTypes
  <2>4. MemTypes'
    BY <1>0, <1>12, ZenonT(120) DEF ReadClient, MemTypes, PtrOrNull
  <2> QED
    BY <2>1, <2>2, <2>3, <2>4, ZenonT(120)
<1>13. ASSUME NEW w \in Clients, Publish(w) PROVE TypeOK'
  BY <1>0, <1>13, SMTT(120) DEF Publish, FlagTypes, ClientTypes, RunTypes, MemTypes, UpdaterPcs, WorkerPcs, PtrOrNull, HaveUpdates, ContiguousPrefix
<1>14. ASSUME NEW w \in Clients, GcScan(w) PROVE TypeOK'
  BY <1>0, <1>14, SMTT(120) DEF GcScan, FlagTypes, ClientTypes, RunTypes, MemTypes, UpdaterPcs, WorkerPcs, PtrOrNull, HaveUpdates, ContiguousPrefix
<1>15. ASSUME NEW w \in Clients, Reset(w) PROVE TypeOK'
  BY <1>0, <1>15, SMTT(120) DEF Reset, FlagTypes, ClientTypes, RunTypes, MemTypes, UpdaterPcs, WorkerPcs, PtrOrNull, HaveUpdates, ContiguousPrefix
<1>16. ASSUME NEW w \in Clients, StopReset(w) PROVE TypeOK'
  BY <1>0, <1>16, SMTT(120) DEF StopReset, FlagTypes, ClientTypes, RunTypes, MemTypes, UpdaterPcs, WorkerPcs, PtrOrNull, HaveUpdates, ContiguousPrefix
<1>17. CASE Startup
  BY <1>0, <1>17, SMTT(120) DEF Startup, FlagTypes, ClientTypes, RunTypes, MemTypes, UpdaterPcs, WorkerPcs, PtrOrNull, HaveUpdates, ContiguousPrefix
<1>18. CASE Head
  <2>1. FlagTypes'
    BY <1>0, <1>18, ZenonT(120) DEF Head, FlagTypes, HaveUpdates
  <2>2. ClientTypes'
    BY <1>0, <1>18, SizesAssumption, ZenonT(120) DEF Head, ClientTypes, WorkerPcs, PtrOrNull, ChangeInv, Clients
  <2>3. RunTypes'
    BY ZenonT(120), <1>0, <1>18 DEF Head, RunTypes, UpdaterPcs, PtrOrNull, ContiguousPrefix
  <2>4. MemTypes'
    BY <1>0, <1>18, ZenonT(120) DEF Head, MemTypes, PtrOrNull
  <2> QED
    BY <2>1, <2>2, <2>3, <2>4, ZenonT(120)
<1>19. CASE CondWake
  BY <1>0, <1>19, ZenonT(120) DEF CondWake, FlagTypes, ClientTypes, RunTypes, MemTypes, UpdaterPcs, WorkerPcs, PtrOrNull, HaveUpdates, ContiguousPrefix
<1>20. CASE ReadDone
  BY <1>0, <1>20, SMTT(120) DEF ReadDone, FlagTypes, ClientTypes, RunTypes, MemTypes, UpdaterPcs, WorkerPcs, PtrOrNull, HaveUpdates, ContiguousPrefix
<1>21. CASE Idle
  <2>1. FlagTypes'
    BY ZenonT(120), <1>0, <1>21 DEF Idle, FlagTypes, HaveUpdates
  <2>2. ClientTypes'
    BY <1>0, <1>21, SizesAssumption, ZenonT(120) DEF Idle, ClientTypes, WorkerPcs, PtrOrNull, ChangeInv, Clients
  <2>3. RunTypes'
    BY <1>0, <1>21, SizesAssumption, SMTT(120) DEF Idle, RunTypes, UpdaterPcs, PtrOrNull, ContiguousPrefix
  <2>4. MemTypes'
    BY <1>0, <1>21, ZenonT(120) DEF Idle, MemTypes, PtrOrNull
  <2> QED
    BY <2>1, <2>2, <2>3, <2>4, ZenonT(120)
<1>22. CASE TimedLoop
  <2>1. FlagTypes'
    BY <1>0, <1>22, ZenonT(120) DEF TimedLoop, FlagTypes, HaveUpdates
  <2>2. ClientTypes'
    BY <1>0, <1>22, SizesAssumption, ZenonT(120) DEF TimedLoop, ClientTypes, WorkerPcs, PtrOrNull, ChangeInv, Clients
  <2>3. RunTypes'
    BY <1>0, <1>22, SMTT(120) DEF TimedLoop, RunTypes, UpdaterPcs, PtrOrNull, ContiguousPrefix
  <2>4. MemTypes'
    BY <1>0, <1>22, ZenonT(120) DEF TimedLoop, MemTypes, PtrOrNull
  <2> QED
    BY <2>1, <2>2, <2>3, <2>4, ZenonT(120)
<1>23. CASE TimedWait
  BY <1>0, <1>23, ZenonT(120) DEF TimedWait, FlagTypes, ClientTypes, RunTypes, MemTypes, UpdaterPcs, WorkerPcs, PtrOrNull, HaveUpdates, ContiguousPrefix
<1>24. CASE TimedClear
  <2>1. FlagTypes'
    BY ZenonT(120), <1>0, <1>24 DEF TimedClear, FlagTypes, HaveUpdates
  <2>2. ClientTypes'
    BY <1>0, <1>24, SizesAssumption, ZenonT(120) DEF TimedClear, ClientTypes, WorkerPcs, PtrOrNull, ChangeInv, Clients
  <2>3. RunTypes'
    BY <1>0, <1>24, ZenonT(120) DEF TimedClear, RunTypes, UpdaterPcs, PtrOrNull, ContiguousPrefix
  <2>4. MemTypes'
    BY <1>0, <1>24, ZenonT(120) DEF TimedClear, MemTypes, PtrOrNull
  <2> QED
    BY <2>1, <2>2, <2>3, <2>4, ZenonT(120)
<1>25. CASE PreWait
  <2>1. FlagTypes'
    BY <1>0, <1>25, ZenonT(120) DEF PreWait, FlagTypes, HaveUpdates
  <2>2. ClientTypes'
    BY <1>0, <1>25, SizesAssumption, ZenonT(120) DEF PreWait, ClientTypes, WorkerPcs, PtrOrNull, ChangeInv, Clients
  <2>3. RunTypes'
    BY <1>0, <1>25, ZenonT(120) DEF PreWait, RunTypes, UpdaterPcs, PtrOrNull, ContiguousPrefix
  <2>4. MemTypes'
    BY <1>0, <1>25, ZenonT(120) DEF PreWait, MemTypes, PtrOrNull
  <2> QED
    BY <2>1, <2>2, <2>3, <2>4, ZenonT(120)
<1>26. CASE Wait
  BY <1>0, <1>26, SMTT(120) DEF Wait, FlagTypes, ClientTypes, RunTypes, MemTypes, UpdaterPcs, WorkerPcs, PtrOrNull, HaveUpdates, ContiguousPrefix
<1>27. CASE Block
  BY <1>0, <1>27, SMTT(120) DEF Block, FlagTypes, ClientTypes, RunTypes, MemTypes, UpdaterPcs, WorkerPcs, PtrOrNull, HaveUpdates, ContiguousPrefix
<1>28. CASE WaitClear
  <2>1. FlagTypes'
    BY ZenonT(120), <1>0, <1>28 DEF WaitClear, FlagTypes, HaveUpdates
  <2>2. ClientTypes'
    BY <1>0, <1>28, SizesAssumption, ZenonT(120) DEF WaitClear, ClientTypes, WorkerPcs, PtrOrNull, ChangeInv, Clients
  <2>3. RunTypes'
    BY <1>0, <1>28, ZenonT(120) DEF WaitClear, RunTypes, UpdaterPcs, PtrOrNull, ContiguousPrefix
  <2>4. MemTypes'
    BY <1>0, <1>28, ZenonT(120) DEF WaitClear, MemTypes, PtrOrNull
  <2> QED
    BY <2>1, <2>2, <2>3, <2>4, ZenonT(120)
<1>29. CASE Sort
  <2>1. localQueue' \in SUBSET Nat /\ leftover' \in SUBSET Nat /\ upc' = "cap"
    BY ZenonT(120), <1>29 DEF Sort, RunTypes, ContiguousPrefix
  <2>2. FlagTypes' /\ ClientTypes' /\ MemTypes'
    BY <1>29, ZenonT(120) DEF Sort, FlagTypes, ClientTypes, MemTypes
  <2>3. RunTypes'
    BY <1>29, <2>1, ZenonT(120) DEF Sort, RunTypes, UpdaterPcs
  <2> QED
    BY <2>2, <2>3, ZenonT(120)
<1>30. CASE Cap
  <2>1. FlagTypes'
    BY <1>0, <1>30, ZenonT(120) DEF Cap, FlagTypes, HaveUpdates
  <2>2. ClientTypes'
    BY <1>0, <1>30, SizesAssumption, ZenonT(120) DEF Cap, ClientTypes, WorkerPcs, PtrOrNull, ChangeInv, Clients
  <2>3. RunTypes'
    BY <1>0, <1>30, ZenonT(120) DEF Cap, RunTypes, UpdaterPcs, PtrOrNull, ContiguousPrefix
  <2>4. MemTypes'
    BY <1>0, <1>30, ZenonT(120) DEF Cap, MemTypes, PtrOrNull
  <2> QED
    BY <2>1, <2>2, <2>3, <2>4, ZenonT(120)
<1>31. CASE Update
  <2>1. FlagTypes'
    BY <1>0, <1>31, ZenonT(120) DEF Update, FlagTypes, HaveUpdates
  <2>2. ClientTypes'
    BY <1>0, <1>31, SizesAssumption, ZenonT(120) DEF Update, ClientTypes, WorkerPcs, PtrOrNull, ChangeInv, Clients
  <2>3. RunTypes'
    BY <1>0, <1>31, SMTT(120) DEF Update, RunTypes, UpdaterPcs, PtrOrNull, ContiguousPrefix
  <2>4. MemTypes'
    <3>1. PICK old \in Contents(latest) :
             IF UpdatesOnly
               THEN data' = [data EXCEPT ![latest] = old \union localQueue] /\ UNCHANGED <<latest, allPtrs, heap>>
               ELSE \E p \in Ptr \ heap :
                      /\ heap' = heap \union {p}
                      /\ data' = [data EXCEPT ![p] = old \union localQueue]
                      /\ latest' = p
                      /\ allPtrs' = allPtrs \union {p}
      BY <1>31, ZenonT(120) DEF Update
    <3>2. old \in SUBSET Nat
      BY SMTT(120) DEF Contents, MemTypes, ClientTypes
    <3> QED
      BY ZenonT(120), <3>1, <3>2 DEF MemTypes, RunTypes, PtrOrNull
  <2> QED
    BY <2>1, <2>2, <2>3, <2>4, ZenonT(120)
<1>32. CASE PublishDone
  BY <1>0, <1>32, SMTT(120) DEF PublishDone, FlagTypes, ClientTypes, RunTypes, MemTypes, UpdaterPcs, WorkerPcs, PtrOrNull, HaveUpdates, ContiguousPrefix
<1>33. CASE GcDelete
  <2>1. FlagTypes'
    BY <1>0, <1>33, ZenonT(120) DEF GcDelete, FlagTypes, HaveUpdates
  <2>2. ClientTypes'
    BY <1>0, <1>33, SizesAssumption, ZenonT(120) DEF GcDelete, ClientTypes, WorkerPcs, PtrOrNull, ChangeInv, Clients
  <2>3. RunTypes'
    <3>1. inUse # {} => Cardinality(inUse) \in Nat /\ Cardinality(inUse) # 0
      BY FS_CardinalityType, FS_EmptySet, ZenonT(120)
    <3>2. gcCount' \in Nat
      BY <1>33, <3>1, SMTT(120) DEF GcDelete
    <3> QED
      BY <1>33, <3>2, ZenonT(120) DEF GcDelete, RunTypes, UpdaterPcs
  <2>4. MemTypes'
    BY <1>0, <1>33, ZenonT(120) DEF GcDelete, MemTypes, PtrOrNull, RunTypes
  <2> QED
    BY <2>1, <2>2, <2>3, <2>4, ZenonT(120)
<1>34. CASE ResetDone
  BY <1>0, <1>34, ZenonT(120) DEF ResetDone, FlagTypes, ClientTypes, RunTypes, MemTypes, UpdaterPcs, WorkerPcs, PtrOrNull, HaveUpdates, ContiguousPrefix
<1>35. CASE Start
  BY <1>0, <1>35, ZenonT(120) DEF Start, FlagTypes, ClientTypes, RunTypes, MemTypes, UpdaterPcs, WorkerPcs, PtrOrNull, HaveUpdates, ContiguousPrefix
<1>36. CASE StopBegin
  <2>1. FlagTypes'
    BY ZenonT(120), <1>0, <1>36 DEF StopBegin, FlagTypes, HaveUpdates
  <2>2. ClientTypes'
    BY <1>0, <1>36, SizesAssumption, ZenonT(120) DEF StopBegin, ClientTypes, WorkerPcs, PtrOrNull, ChangeInv, Clients
  <2>3. RunTypes'
    BY <1>0, <1>36, ZenonT(120) DEF StopBegin, RunTypes, UpdaterPcs, PtrOrNull, ContiguousPrefix
  <2>4. MemTypes'
    BY <1>0, <1>36, ZenonT(120) DEF StopBegin, MemTypes, PtrOrNull
  <2> QED
    BY <2>1, <2>2, <2>3, <2>4, ZenonT(120)
<1>37. CASE StopResetDone
  BY <1>0, <1>37, SMTT(120) DEF StopResetDone, FlagTypes, ClientTypes, RunTypes, MemTypes, UpdaterPcs, WorkerPcs, PtrOrNull, HaveUpdates, ContiguousPrefix
<1>38. CASE StopSignal
  BY <1>0, <1>38, ZenonT(120) DEF StopSignal, FlagTypes, ClientTypes, RunTypes, MemTypes, UpdaterPcs, WorkerPcs, PtrOrNull, HaveUpdates, ContiguousPrefix
<1>39. CASE StopJoin
  BY <1>0, <1>39, ZenonT(120) DEF StopJoin, FlagTypes, ClientTypes, RunTypes, MemTypes, UpdaterPcs, WorkerPcs, PtrOrNull, HaveUpdates, ContiguousPrefix
<1> QED
  BY <1>1, <1>2, <1>3, <1>4, <1>5, <1>6, <1>7, <1>8, <1>9, <1>10, <1>11, <1>12, <1>13, <1>14, <1>15, <1>16, <1>17, <1>18, <1>19, <1>20, <1>21, <1>22, <1>23, <1>24, <1>25, <1>26, <1>27, <1>28, <1>29, <1>30, <1>31, <1>32, <1>33, <1>34, <1>35, <1>36, <1>37, <1>38, <1>39, ZenonT(120) DEF Next, Main, Stopping, Updater, Worker, Changing, Sending

\* The updater thread changes no worker and no stop flag; start() and stop()
\* change no worker.
LEMMA ThreadsKeep ==
  /\ Updater => UNCHANGED <<wpc, n, running, stopPc>>
  /\ Main => UNCHANGED <<wpc, n>>
<1>1. Updater => UNCHANGED <<wpc, n, running, stopPc>>
  BY ZenonT(120) DEF Updater, Startup, Head, CondWake, ReadDone, Idle, TimedLoop, TimedWait, TimedClear, PreWait, Wait, Block, WaitClear, Sort, Cap, Update, PublishDone, GcDelete, ResetDone, ReadClient, Publish, GcScan, Reset, sharedVars, workerVars, clientVars, runVars, batchVars, memVars, stopVars
<1>2. Main => UNCHANGED <<wpc, n>>
  BY ZenonT(120) DEF Main, Stopping, Start, StopBegin, StopReset, StopResetDone, StopSignal, StopJoin, sharedVars, workerVars, clientVars, runVars, batchVars, memVars, stopVars
<1> QED
  BY <1>1, <1>2, ZenonT(120)

\* init_for and finish_for run one at a time, for the last index only.
LEMMA ChangeStep ==
  ASSUME TypeOK, ChangeInv, Next
  PROVE  ChangeInv'
<1> USE DEF ChangeInv
<1>1. CASE Updater \/ Main
  BY <1>1, ThreadsKeep, ZenonT(120)
<1>2. ASSUME NEW w \in Clients, Worker(w) PROVE ChangeInv'
  <2> wpc \in [Clients -> WorkerPcs] /\ n \in Nat
    BY SizesAssumption, SMTT(120) DEF TypeOK, ClientTypes
  <2> USE DEF Clients, workerVars, clientVars
  <2>1. CASE IncreaseBegin(w) \/ DecreaseBegin(w)
    BY <2>1, SizesAssumption, ZenonT(120) DEF IncreaseBegin, DecreaseBegin, Alone
  <2>2. CASE IncreaseEnd(w) \/ DecreaseEnd(w)
    BY <2>2, SizesAssumption, SMTT(120) DEF IncreaseEnd, DecreaseEnd
  <2>3. CASE DecreaseYield(w) \/ DecreaseRetry(w)
    BY ZenonT(120), <2>3, SizesAssumption DEF DecreaseYield, DecreaseRetry
  <2>4. CASE SendStamp(w) \/ Sending(w) \/ ReaderReady(w)
    BY <2>4, SizesAssumption, ZenonT(120) DEF SendStamp, Sending, SendPush, SendFull, SendWake, ReaderReady
  <2> QED
    BY <1>2, <2>1, <2>2, <2>3, <2>4, ZenonT(120) DEF Worker, Changing
<1> QED
  BY <1>1, <1>2, ZenonT(120) DEF Next

\* m_running goes down before the updater and the pointers are torn down.
LEMMA RunStep ==
  ASSUME TypeOK, ChangeInv, RunInv, Next
  PROVE  RunInv'
<1> USE DEF RunInv, sharedVars, workerVars, clientVars, runVars, batchVars, memVars, stopVars, CallGc, GoTo, StartReading, TakeLeftover
<1> wpc \in [Clients -> WorkerPcs] /\ n \in Nat /\ running \in BOOLEAN
  BY SizesAssumption, SMTT(120) DEF TypeOK, ClientTypes, FlagTypes
<1>1. CASE Updater
  <2>1. UNCHANGED <<wpc, n, running, stopPc>>
    BY <1>1, ThreadsKeep, ZenonT(120)
  <2>2. upc # "unstarted" /\ upc' # "unstarted"
    BY ZenonT(120), <1>1 DEF Updater, Startup, Head, CondWake, ReadDone, Idle, TimedLoop, TimedWait, TimedClear, PreWait, Wait, Block, WaitClear, Sort, Cap, Update, PublishDone, GcDelete, ResetDone, ReadClient, Publish, GcScan, Reset, TypeOK, RunTypes
  <2>3. upc' \in {"reset", "done"} \/ (upc' = "gc" /\ gcRet' = "done") => ~running
    BY ZenonT(120), <1>1 DEF Updater, Startup, Head, CondWake, ReadDone, Idle, TimedLoop, TimedWait, TimedClear, PreWait, Wait, Block, WaitClear, Sort, Cap, Update, PublishDone, GcDelete, ResetDone, ReadClient, Publish, GcScan, Reset, TypeOK, RunTypes
  <2>4. n = 0 /\ upc' # "startup" => ~running
    <3>1. CASE upc = "startup"
      <4>1. Startup
        BY ZenonT(120), <1>1, <3>1 DEF Updater, Head, CondWake, ReadDone, Idle, TimedLoop, TimedWait, TimedClear, PreWait, Wait, Block, WaitClear, Sort, Cap, Update, PublishDone, GcDelete, ResetDone, ReadClient, Publish, GcScan, Reset
      <4> QED
        BY <4>1, SMTT(120) DEF Startup
    <3> QED
      BY <2>2, <3>1, ZenonT(120)
  <2> QED
    BY <2>1, <2>2, <2>3, <2>4, ZenonT(120)
<1>2. CASE Main
  <2>1. CASE Start
    BY <2>1, ZenonT(120) DEF Start
  <2>2. CASE StopBegin
    BY <2>2, ZenonT(120) DEF StopBegin
  <2>3. CASE Stopping
    BY <2>3, SMTT(120) DEF Stopping, Start, StopBegin, StopReset, StopResetDone, StopSignal, StopJoin, Notified
  <2> QED
    BY <1>2, <2>1, <2>2, <2>3, ZenonT(120) DEF Main
<1>3. ASSUME NEW w \in Clients, Worker(w) PROVE RunInv'
  <2> USE DEF Clients, Notified
  <2>1. CASE IncreaseBegin(w)
    BY <2>1, SizesAssumption, ZenonT(120) DEF IncreaseBegin
  <2>2. CASE IncreaseEnd(w)
    BY <2>2, SizesAssumption, SMTT(120) DEF IncreaseEnd, ClientLockFree
  <2>3. CASE DecreaseBegin(w)
    BY <2>3, SizesAssumption, ZenonT(120) DEF DecreaseBegin
  <2>4. CASE DecreaseEnd(w)
    <3>1. \A v \in Clients : wpc'[v] # "joining"
      BY <2>4, ZenonT(120) DEF DecreaseEnd, ChangeInv
    <3>2. (n' = 0 => w = 0) /\ UNCHANGED <<upc, gcRet, stopPc>>
      BY <2>4, SMTT(120) DEF DecreaseEnd, ChangeInv
    <3>4. (running' => running) /\ (w = 0 => ~running')
      BY <2>4, ZenonT(120) DEF DecreaseEnd
    <3>3. n = 0 => FALSE
      BY <2>4, SMTT(120) DEF DecreaseEnd, ChangeInv
    <3> QED
      BY <3>1, <3>2, <3>3, <3>4, ZenonT(120)
  <2>5. CASE DecreaseYield(w) \/ DecreaseRetry(w)
    <3>1. /\ UNCHANGED <<n, running, stopPc, upc, gcRet>>
          /\ \A v \in Clients : wpc'[v] = "joining" => wpc[v] = "joining"
      BY ZenonT(120), <2>5 DEF DecreaseYield, DecreaseRetry
    <3> QED
      BY <3>1, ZenonT(120)
  <2>6. CASE SendStamp(w) \/ Sending(w) \/ ReaderReady(w)
    <3>1. /\ UNCHANGED <<n, running, stopPc, gcRet>>
          /\ \A pc \in {"unstarted", "startup", "reset", "done", "gc"} : upc' = pc <=> upc = pc
      BY <2>6, ZenonT(120) DEF SendStamp, Sending, SendPush, SendFull, SendWake, ReaderReady
    <3>2. \A v \in Clients : wpc'[v] = "joining" => wpc[v] = "joining"
      BY ZenonT(120), <2>6 DEF SendStamp, Sending, SendPush, SendFull, SendWake, ReaderReady
    <3> QED
      BY <3>1, <3>2, ZenonT(120)
  <2> QED
    BY <1>3, <2>1, <2>2, <2>3, <2>4, <2>5, <2>6, ZenonT(120) DEF Worker, Changing
<1> QED
  BY <1>1, <1>2, <1>3, ZenonT(120) DEF Next

\* The steps of the updater that touch no instance and no worker pointer.
Quiet ==
    \/ Startup \/ Head \/ CondWake \/ ReadDone
    \/ Idle \/ TimedLoop \/ TimedWait \/ TimedClear
    \/ PreWait \/ Wait \/ Block \/ WaitClear
    \/ Sort \/ Cap
    \/ \E w \in Clients : ReadClient(w)

\* A quiet step leaves the instances and the pointers to them alone.
LEMMA QuietKeeps ==
  ASSUME RunTypes, Quiet
  PROVE  /\ UNCHANGED <<n, pCurrent, pNew, latest, heap, wpc, running, stopPc>>
         /\ upc \notin {"publish", "gc", "unstarted"} /\ upc' \notin {"publish", "unstarted"}
         /\ upc' = "gc" => todo' = Attached
         /\ inUse' = inUse \/ inUse' = {}
BY ZenonT(120) DEF Quiet, Startup, Head, CondWake, ReadDone, Idle, TimedLoop, TimedWait, TimedClear, PreWait, Wait, Block, WaitClear, Sort, Cap, ReadClient, CallGc, GoTo, StartReading, TakeLeftover, sharedVars, workerVars, clientVars, runVars, batchVars, memVars, stopVars, RunTypes

\* Every step of the updater is quiet or one of the steps of publishing,
\* collecting and resetting.
LEMMA UpdaterSplit ==
  Updater => \/ Quiet \/ Update \/ PublishDone \/ GcDelete \/ ResetDone
             \/ \E w \in Clients : Publish(w) \/ GcScan(w) \/ Reset(w)
BY ZenonT(120) DEF Updater, Quiet

\* The newest instance survives gc() while the updater is in service: every
\* attached worker holds it.
LEMMA LatestStep ==
  ASSUME IInv, Next
  PROVE  LatestInv'
<1> USE DEF LatestInv, InService, sharedVars, workerVars, clientVars, runVars, batchVars, memVars, stopVars
<1> /\ n \in Nat /\ pNew \in [Clients -> PtrOrNull] /\ Attached \subseteq Clients
    /\ latest \in Ptr /\ Null \notin Ptr
  BY SizesAssumption, PtrAssumption, SMTT(120) DEF IInv, TypeOK, ClientTypes, MemTypes, Attached, Clients
<1> TypeOK /\ RunInv /\ LatestInv /\ GcInv
  BY ZenonT(120) DEF IInv
<1>1. CASE Quiet
  BY <1>1, QuietKeeps, SMTT(120) DEF TypeOK, Attached
<1>2. CASE Update
  <2>1. CASE UpdatesOnly
    BY <1>2, <2>1, SMTT(120) DEF Update, CallGc, GoTo, Attached
  <2>2. CASE ~UpdatesOnly
    <3>1. latest' \in heap' /\ todo' = Attached /\ upc' = "publish" /\ n' = n
      BY <1>2, <2>2, ZenonT(120) DEF Update, StartReading
    <3> QED
      BY <3>1, ZenonT(120) DEF Attached
  <2> QED
    BY <2>1, <2>2, ZenonT(120)
<1>3. CASE PublishDone \/ ResetDone
  BY <1>3, SMTT(120) DEF PublishDone, ResetDone, CallGc, GoTo, Attached
<1>4. CASE GcDelete
  <2>1. ASSUME InService PROVE latest \in inUse
    <3>1. n # 0 /\ 0 \in Attached /\ 0 \notin todo
      BY <1>4, <2>1, SMTT(120) DEF GcDelete, RunInv, Attached
    <3>2. pNew[0] = latest
      BY <1>4, <2>1, <3>1, ZenonT(120) DEF GcDelete
    <3> QED
      BY ZenonT(120), <1>4, <3>1, <3>2 DEF GcDelete, GcInv
  <2>2. UNCHANGED <<n, pNew, latest, running, stopPc>> /\ heap' = heap \ (allPtrs \ inUse)
    BY <1>4, ZenonT(120) DEF GcDelete
  <2>3. upc = "gc" /\ upc' \notin {"publish", "unstarted"}
    BY <1>4, ZenonT(120) DEF GcDelete, TypeOK, RunTypes
  <2> QED
    BY <2>1, <2>2, <2>3, ZenonT(120) DEF Attached
<1>5. ASSUME NEW w \in Clients, Publish(w) \/ GcScan(w) \/ Reset(w) PROVE LatestInv'
  <2>1. CASE Publish(w)
    BY <1>5, <2>1, ZenonT(120) DEF Publish, Attached
  <2>2. CASE GcScan(w)
    BY <1>5, <2>2, ZenonT(120) DEF GcScan, Attached
  <2>3. CASE Reset(w)
    BY ZenonT(120), <1>5, <2>3 DEF Reset, RunInv
  <2> QED
    BY <1>5, <2>1, <2>2, <2>3, ZenonT(120)
<1>6. CASE Main
  BY ZenonT(120), <1>6 DEF Main, Stopping, Start, StopBegin, StopReset, StopResetDone, StopSignal, StopJoin, Notified, Attached
<1>7. ASSUME NEW w \in Clients, Worker(w) PROVE LatestInv'
  <2>1. CASE IncreaseEnd(w)
    <3>1. /\ upc # "publish" /\ n' = n + 1 /\ pNew' = [pNew EXCEPT ![w] = latest]
          /\ UNCHANGED <<upc, running, stopPc, latest, heap, todo>>
      BY <2>1, ZenonT(120) DEF IncreaseEnd, ClientLockFree
    <3>2. w = n
      BY <2>1, ZenonT(120) DEF IncreaseEnd, IInv, ChangeInv
    <3>3. \A v \in Attached' : v = w \/ v \in Attached
      BY <3>1, <3>2, SMTT(120) DEF Attached
    <3> QED
      BY <3>1, <3>3, ZenonT(120)
  <2>2. CASE DecreaseEnd(w)
    <3>1. UNCHANGED <<upc, stopPc, latest, heap, todo>> /\ n' = n - 1 /\ pNew' = [pNew EXCEPT ![w] = Null] /\ w + 1 = n
      BY ZenonT(120), <2>2 DEF DecreaseEnd, IInv, ChangeInv
    <3>2. running' => running
      BY <2>2, ZenonT(120) DEF DecreaseEnd
    <3>3. \A v \in Attached' : v \in Attached /\ pNew'[v] = pNew[v]
      BY <3>1, SMTT(120) DEF Attached
    <3> QED
      BY <3>1, <3>2, <3>3, ZenonT(120)
  <2>3. CASE IncreaseBegin(w) \/ DecreaseBegin(w) \/ DecreaseYield(w) \/ DecreaseRetry(w)
    <3>1. /\ UNCHANGED <<n, pNew, latest, heap, running, stopPc, todo>>
          /\ \A pc \in {"publish", "unstarted"} : upc' = pc <=> upc = pc
      BY ZenonT(120), <2>3 DEF IncreaseBegin, DecreaseBegin, DecreaseYield, DecreaseRetry, Notified
    <3> QED
      BY <3>1, ZenonT(120) DEF Attached
  <2>4. CASE SendStamp(w) \/ Sending(w) \/ ReaderReady(w)
    <3>1. /\ UNCHANGED <<n, pNew, latest, heap, running, stopPc, todo>>
          /\ \A pc \in {"publish", "unstarted"} : upc' = pc <=> upc = pc
      BY ZenonT(120), <2>4 DEF SendStamp, Sending, SendPush, SendFull, SendWake, ReaderReady, Notified
    <3> QED
      BY <3>1, ZenonT(120) DEF Attached
  <2> QED
    BY <1>7, <2>1, <2>2, <2>3, <2>4, ZenonT(120) DEF Worker, Changing
<1> QED
  BY <1>1, <1>2, <1>3, <1>4, <1>5, <1>6, <1>7, UpdaterSplit, ZenonT(120) DEF Next

\* What gc() has seen of a worker keeps covering what the worker reaches: a
\* reader only moves to the next pointer, which was seen too.
LEMMA GcStep ==
  ASSUME IInv, Next
  PROVE  GcInv'
<1> USE DEF GcInv, sharedVars, workerVars, clientVars, runVars, batchVars, memVars, stopVars
<1> /\ n \in Nat /\ pNew \in [Clients -> PtrOrNull] /\ pCurrent \in [Clients -> PtrOrNull]
    /\ Attached \subseteq Clients
  BY SizesAssumption, PtrAssumption, SMTT(120) DEF IInv, TypeOK, ClientTypes, MemTypes, Attached, Clients
<1> TypeOK /\ GcInv
  BY ZenonT(120) DEF IInv
<1>1. CASE Quiet
  <2>1. IsFiniteSet(inUse')
    BY <1>1, QuietKeeps, FS_EmptySet, ZenonT(120) DEF TypeOK
  <2> QED
    BY <1>1, <2>1, QuietKeeps, ZenonT(120) DEF TypeOK, Attached
<1>2. CASE Update \/ PublishDone \/ ResetDone \/ GcDelete
  <2>1. UNCHANGED n
    BY ZenonT(120), <1>2 DEF Update, PublishDone, ResetDone, GcDelete
  <2>2. inUse' = inUse \/ inUse' = {}
    BY ZenonT(120), <1>2 DEF Update, PublishDone, ResetDone, GcDelete, CallGc, GoTo, StartReading
  <2>3. upc' = "gc" => todo' = Attached
    BY ZenonT(120), <1>2 DEF Update, PublishDone, ResetDone, GcDelete, CallGc, GoTo, StartReading, TypeOK, RunTypes
  <2>4. IsFiniteSet(inUse')
    BY <2>2, FS_EmptySet, ZenonT(120)
  <2> QED
    BY <2>1, <2>3, <2>4, ZenonT(120) DEF Attached
<1>3. ASSUME NEW w \in Clients, Publish(w) \/ GcScan(w) \/ Reset(w) PROVE GcInv'
  <2>1. CASE Publish(w) \/ Reset(w)
    BY ZenonT(120), <1>3, <2>1 DEF Publish, Reset, Attached
  <2>2. CASE GcScan(w)
    <3>1. IsFiniteSet({pCurrent[w], pNew[w]})
      <4>1. IsFiniteSet({pCurrent[w]}) /\ IsFiniteSet({pNew[w]})
        BY ZenonT(120), FS_Singleton
      <4> QED
        BY <4>1, FS_AddElement, SMTT(120)
    <3>2. IsFiniteSet(inUse')
      BY ZenonT(120), <2>2, <3>1, FS_Union DEF GcScan
    <3> QED
      BY <2>2, <3>2, ZenonT(120) DEF GcScan, Attached
  <2> QED
    BY ZenonT(120), <1>3, <2>1, <2>2
<1>4. CASE Main
  <2>1. CASE \E w \in Clients : StopReset(w)
    BY <2>1, SMTT(120) DEF StopReset, Attached
  <2>2. CASE Start \/ StopBegin \/ StopResetDone \/ StopSignal \/ StopJoin
    <3>1. UNCHANGED <<n, pCurrent, pNew, inUse, todo>> /\ (upc' = "gc" => upc = "gc")
      BY ZenonT(120), <2>2 DEF Start, StopBegin, StopResetDone, StopSignal, StopJoin, Notified
    <3> QED
      BY <3>1, ZenonT(120) DEF Attached
  <2> QED
    BY ZenonT(120), <1>4, <2>1, <2>2 DEF Main, Stopping
<1>5. ASSUME NEW w \in Clients, Worker(w) PROVE GcInv'
  <2>1. CASE IncreaseEnd(w) \/ DecreaseEnd(w)
    BY <2>1, ZenonT(120) DEF IncreaseEnd, DecreaseEnd, ClientLockFree
  <2>2. CASE ReaderReady(w)
    BY <2>2, SMTT(120) DEF ReaderReady, Attached
  <2>3. CASE IncreaseBegin(w) \/ DecreaseBegin(w) \/ DecreaseYield(w) \/ DecreaseRetry(w)
    BY ZenonT(120), <2>3 DEF IncreaseBegin, DecreaseBegin, DecreaseYield, DecreaseRetry, Notified, Attached
  <2>4. CASE SendStamp(w) \/ Sending(w)
    BY ZenonT(120), <2>4 DEF SendStamp, Sending, SendPush, SendFull, SendWake, Notified, Attached
  <2> QED
    BY ZenonT(120), <1>5, <2>1, <2>2, <2>3, <2>4 DEF Worker, Changing
<1> QED
  BY ZenonT(120), <1>1, <1>2, <1>3, <1>4, <1>5, UpdaterSplit DEF Next

\* No step leaves an attached worker with a pointer to a deleted instance.
LEMMA ReaderStep ==
  ASSUME IInv, Next
  PROVE  NoDanglingReader'
<1> USE DEF NoDanglingReader, sharedVars, workerVars, clientVars, runVars, batchVars, memVars, stopVars
<1> /\ n \in Nat /\ pNew \in [Clients -> PtrOrNull] /\ pCurrent \in [Clients -> PtrOrNull]
    /\ Attached \subseteq Clients
  BY SizesAssumption, PtrAssumption, SMTT(120) DEF IInv, TypeOK, ClientTypes, MemTypes, Attached, Clients
<1> TypeOK /\ RunInv /\ LatestInv /\ GcInv /\ NoDanglingReader
  BY ZenonT(120) DEF IInv
<1>1. CASE Quiet
  BY <1>1, QuietKeeps, ZenonT(120) DEF TypeOK, Attached
<1>2. CASE Update
  <2>1. UNCHANGED <<n, pCurrent, pNew>> /\ heap \subseteq heap'
    BY <1>2, ZenonT(120) DEF Update
  <2> QED
    BY <2>1, ZenonT(120) DEF Attached
<1>3. CASE PublishDone \/ ResetDone
  BY <1>3, ZenonT(120) DEF PublishDone, ResetDone, Attached
<1>4. CASE GcDelete
  BY <1>4, ZenonT(120) DEF GcDelete, GcInv, Attached
<1>5. ASSUME NEW w \in Clients, Publish(w) \/ GcScan(w) \/ Reset(w) PROVE NoDanglingReader'
  <2>1. CASE Publish(w)
    <3>1. pNew' = [pNew EXCEPT ![w] = latest] /\ UNCHANGED <<n, pCurrent, heap>>
      BY <2>1, ZenonT(120) DEF Publish
    <3>2. latest \in heap
      BY <2>1, ZenonT(120) DEF Publish, LatestInv
    <3> QED
      BY <3>1, <3>2, ZenonT(120) DEF Attached
  <2>2. CASE GcScan(w)
    BY <2>2, ZenonT(120) DEF GcScan, Attached
  <2>3. CASE Reset(w)
    BY <2>3, ZenonT(120) DEF Reset, Attached
  <2> QED
    BY ZenonT(120), <1>5, <2>1, <2>2, <2>3
<1>6. CASE Main
  <2>1. CASE \E w \in Clients : StopReset(w)
    BY <2>1, SMTT(120) DEF StopReset, Attached
  <2>2. CASE Start \/ StopBegin \/ StopResetDone \/ StopSignal \/ StopJoin
    <3>1. UNCHANGED <<n, pCurrent, pNew, heap>>
      BY ZenonT(120), <2>2 DEF Start, StopBegin, StopResetDone, StopSignal, StopJoin
    <3> QED
      BY <3>1, ZenonT(120) DEF Attached
  <2> QED
    BY <1>6, <2>1, <2>2, ZenonT(120) DEF Main, Stopping
<1>7. ASSUME NEW w \in Clients, Worker(w) PROVE NoDanglingReader'
  <2>1. CASE IncreaseEnd(w)
    <3>1. latest \in heap /\ w = n
      BY ZenonT(120), <2>1 DEF IncreaseEnd, IInv, ChangeInv, RunInv, LatestInv, InService
    <3> QED
      BY <2>1, <3>1, SMTT(120) DEF IncreaseEnd, Attached
  <2>2. CASE DecreaseEnd(w)
    <3>1. /\ n' = n - 1 /\ UNCHANGED heap
          /\ pCurrent' = [pCurrent EXCEPT ![w] = Null] /\ pNew' = [pNew EXCEPT ![w] = Null]
      BY ZenonT(120), <2>2 DEF DecreaseEnd
    <3>2. Attached' \subseteq Attached
      BY <3>1, SMTT(120) DEF Attached
    <3> QED
      BY <3>1, <3>2, ZenonT(120)
  <2>3. CASE ReaderReady(w)
    BY <2>3, ZenonT(120) DEF ReaderReady, Attached
  <2>4. CASE IncreaseBegin(w) \/ DecreaseBegin(w) \/ DecreaseYield(w) \/ DecreaseRetry(w)
    BY ZenonT(120), <2>4 DEF IncreaseBegin, DecreaseBegin, DecreaseYield, DecreaseRetry, Attached
  <2>5. CASE SendStamp(w) \/ Sending(w)
    BY ZenonT(120), <2>5 DEF SendStamp, Sending, SendPush, SendFull, SendWake, Attached
  <2> QED
    BY ZenonT(120), <1>7, <2>1, <2>2, <2>3, <2>4, <2>5 DEF Worker, Changing
<1> QED
  BY ZenonT(120), <1>1, <1>2, <1>3, <1>4, <1>5, <1>6, <1>7, UpdaterSplit DEF Next

\* The invariant is inductive: it holds of Init and every step keeps it.
LEMMA Inductive == Spec => []IInv
<1>1. Init => IInv
  BY InitIInv, ZenonT(120)
<1>2. ASSUME IInv, [Next]_vars PROVE IInv'
  <2>1. CASE Next
    <3>1. TypeOK /\ ChangeInv /\ RunInv /\ IsFiniteSet(inUse)
      BY <1>2, ZenonT(120) DEF IInv, GcInv
    <3>2. TypeOK'
      BY <2>1, <3>1, TypeStep, ZenonT(120)
    <3>3. ChangeInv'
      BY <2>1, <3>1, ChangeStep, ZenonT(120)
    <3>4. RunInv'
      BY <1>2, <2>1, <3>1, RunStep, ZenonT(120)
    <3>5. LatestInv' /\ GcInv' /\ NoDanglingReader'
      BY <1>2, <2>1, LatestStep, GcStep, ReaderStep, ZenonT(120)
    <3> QED
      BY <3>2, <3>3, <3>4, <3>5, ZenonT(120) DEF IInv
  <2>2. CASE UNCHANGED vars
    <3> USE <2>2 DEF vars, sharedVars, workerVars, clientVars, runVars, batchVars, memVars, stopVars
    <3>1. TypeOK'
      <4>1. TypeOK
        BY <1>2, ZenonT(120) DEF IInv
      <4>2. FlagTypes'
        BY <4>1, ZenonT(120) DEF TypeOK, FlagTypes
      <4>3. ClientTypes'
        BY <4>1, ZenonT(120) DEF TypeOK, ClientTypes
      <4>4. RunTypes' /\ MemTypes'
        BY <4>1, ZenonT(120) DEF TypeOK, RunTypes, MemTypes
      <4> QED
        BY <4>2, <4>3, <4>4, ZenonT(120) DEF TypeOK
    <3>2. ChangeInv' /\ RunInv'
      BY ZenonT(120), <1>2 DEF IInv, ChangeInv, RunInv
    <3>3. LatestInv' /\ GcInv' /\ NoDanglingReader'
      BY ZenonT(120), <1>2 DEF IInv, LatestInv, GcInv, NoDanglingReader, InService, Attached
    <3> QED
      BY <3>1, <3>2, <3>3, ZenonT(120) DEF IInv
  <2> QED
    BY <1>2, <2>1, <2>2, ZenonT(120)
<1> QED
  BY <1>1, <1>2, PTL DEF Spec

\* The state of every SharedData and of the updater keeps its type, whatever the
\* number of workers, the queue size, the cap and the order in which the threads
\* run.
THEOREM TypeCorrect == Spec => []TypeOK
<1>1. IInv => TypeOK
  BY ZenonT(120) DEF IInv
<1> QED
  BY <1>1, Inductive, PTL

\* SharedData::reader_ready may hand out either pointer of a worker at any
\* moment, and gc() never deletes what one of them points to, whatever the
\* number of workers and the order in which the threads run.
THEOREM ReadersNeverDangle == Spec => []NoDanglingReader
<1>1. IInv => NoDanglingReader
  BY ZenonT(120) DEF IInv
<1> QED
  BY <1>1, Inductive, PTL

-----------------------------------------------------------------------------
(***************************************************************************)
(* What the workers read, and how many instances there are.                *)
(***************************************************************************)

\* The loops over m_shared_data visit attached workers only.
TodoInv == upc \in {"read1", "read2", "publish", "gc", "reset"} => todo \subseteq Attached

\* gc_ptr_count counts the superseded instances; while the updater is in service
\* every worker has an instance, so gc() finds no more in use than there are.
CopyInv ==
    /\ IsFiniteSet(heap) /\ heap \subseteq allPtrs
    /\ Cardinality(heap) <= gcCount + 1
    /\ InService => \A w \in Attached : pCurrent[w] # Null /\ pNew[w] # Null
    /\ running /\ upc = "gc" => inUse \subseteq heap
    /\ CapCopies > 0 /\ (running \/ upc = "unstarted") =>
         /\ gcCount <= CapCopies
         /\ upc = "update" => gcCount < CapCopies

\* What a worker reads is older than what it reads next, which is the newest
\* instance unless set_new_data has still to come to the worker.
ReadInv ==
    \A w \in Attached :
      /\ pNew[w] = Null => pCurrent[w] = Null
      /\ pNew[w] \in {Null, latest} \/ (upc = "publish" /\ w \in todo)
      /\ pNew[w] # Null => data[pNew[w]] \subseteq data[latest]
      /\ pCurrent[w] # Null => data[pCurrent[w]] \subseteq data[pNew[w]]

\* Neither the instances nor the pointers to them change.
SameMemory == UNCHANGED <<n, pCurrent, pNew, latest, allPtrs, heap, data, gcCount>>

\* A step of another thread that the updater notices at most by waking up.
Bystander ==
    /\ SameMemory
    /\ UNCHANGED <<todo, inUse, gcRet, localQueue, leftover, running, stopPc>>
    /\ upc' = upc \/ (upc = "blocked" /\ upc' = "wait")

\* The steps of a worker that move a pointer, and the others.
LEMMA WorkerSplit ==
  ASSUME NEW w \in Clients, Worker(w)
  PROVE  IncreaseEnd(w) \/ DecreaseEnd(w) \/ ReaderReady(w) \/ Bystander
<1> USE DEF Bystander, SameMemory, sharedVars, workerVars, clientVars, runVars, batchVars, memVars, stopVars, Notified
<1>1. CASE IncreaseBegin(w) \/ DecreaseBegin(w) \/ DecreaseYield(w) \/ DecreaseRetry(w)
  BY <1>1, ZenonT(120) DEF IncreaseBegin, DecreaseBegin, DecreaseYield, DecreaseRetry
<1>2. CASE SendStamp(w) \/ Sending(w)
  BY <1>2, ZenonT(120) DEF SendStamp, Sending, SendPush, SendFull, SendWake
<1> QED
  BY <1>1, <1>2, ZenonT(120) DEF Worker, Changing

\* The same for the main thread.  stop() changes m_running, or signals client 0
\* and waits for the updater.
LEMMA MainSplit ==
  ASSUME Main
  PROVE  \/ Start \/ StopBegin
         \/ \E w \in Clients : StopReset(w)
         \/ /\ SameMemory /\ UNCHANGED <<todo, inUse, gcRet, localQueue, leftover, running>>
            /\ stopPc # "running" /\ stopPc' # "running"
            /\ upc' = upc \/ (upc = "blocked" /\ upc' = "wait")
<1>1. CASE StopResetDone \/ StopSignal \/ StopJoin
  BY <1>1, ZenonT(120) DEF StopResetDone, StopSignal, StopJoin, SameMemory, sharedVars, workerVars, clientVars, runVars, batchVars, memVars, stopVars, Notified
<1> QED
  BY <1>1, ZenonT(120) DEF Main, Stopping

\* A quiet step of the updater counts nothing and publishes nothing; it enters
\* gc() with nothing seen, and goes on to apply the batch below the cap only.
LEMMA QuietSteps ==
  ASSUME RunTypes, TodoInv, Quiet
  PROVE  /\ SameMemory /\ UNCHANGED <<running, stopPc>>
         /\ upc \notin {"publish", "gc", "unstarted"} /\ upc' \notin {"publish", "unstarted"}
         /\ upc' \in {"read1", "read2", "gc", "reset"} => todo' \subseteq Attached
         /\ upc' = "gc" => inUse' = {}
         /\ upc' = "update" => ~(CapCopies > 0 /\ gcCount >= CapCopies /\ running)
<1> USE DEF sharedVars, workerVars, clientVars, runVars, batchVars, memVars, stopVars
<1>1. SameMemory
  BY ZenonT(120) DEF SameMemory, Quiet, Startup, Head, CondWake, ReadDone, Idle, TimedLoop, TimedWait, TimedClear, PreWait, Wait, Block, WaitClear, Sort, Cap, ReadClient
<1>2. UNCHANGED <<running, stopPc>> /\ upc \notin {"publish", "gc", "unstarted"} /\ upc' \notin {"publish", "unstarted"}
  BY QuietKeeps, ZenonT(120)
<1>3. upc' = "gc" => inUse' = {} /\ todo' = Attached
  BY ZenonT(120) DEF Quiet, Startup, Head, CondWake, ReadDone, Idle, TimedLoop, TimedWait, TimedClear, PreWait, Wait, Block, WaitClear, Sort, Cap, ReadClient, CallGc, GoTo, StartReading, TakeLeftover
<1>4. upc' = "reset" => todo' = Attached
  BY ZenonT(120) DEF Quiet, Startup, Head, CondWake, ReadDone, Idle, TimedLoop, TimedWait, TimedClear, PreWait, Wait, Block, WaitClear, Sort, Cap, ReadClient, CallGc, GoTo, StartReading, TakeLeftover
<1>5. upc' \in {"read1", "read2"} => todo' = Attached \/ (upc' = upc /\ todo' \subseteq todo)
  BY ZenonT(120) DEF Quiet, Startup, Head, CondWake, ReadDone, Idle, TimedLoop, TimedWait, TimedClear, PreWait, Wait, Block, WaitClear, Sort, Cap, ReadClient, CallGc, GoTo, StartReading, TakeLeftover
<1>6. upc' = "update" => ~(CapCopies > 0 /\ gcCount >= CapCopies /\ running)
  BY ZenonT(120) DEF Quiet, Startup, Head, CondWake, ReadDone, Idle, TimedLoop, TimedWait, TimedClear, PreWait, Wait, Block, WaitClear, Sort, Cap, ReadClient, CallGc, GoTo, StartReading, TakeLeftover
<1> QED
  BY <1>1, <1>2, <1>3, <1>4, <1>5, <1>6, ZenonT(120) DEF TodoInv

\* Client threads come and go between the updater's loops, not during one.
LEMMA TodoStep ==
  ASSUME IInv, TodoInv, Next
  PROVE  TodoInv'
<1> USE DEF TodoInv, sharedVars, workerVars, clientVars, runVars, batchVars, memVars, stopVars
<1> n \in Nat /\ TypeOK /\ RunTypes
  BY SizesAssumption, SMTT(120) DEF IInv, TypeOK, ClientTypes
<1>1. CASE Quiet
  BY <1>1, QuietSteps, ZenonT(120) DEF SameMemory, Attached
<1>2. CASE Update \/ PublishDone \/ ResetDone \/ GcDelete
  <2>1. UNCHANGED n
    BY <1>2, ZenonT(120) DEF Update, PublishDone, ResetDone, GcDelete
  <2>2. upc' \in {"head", "tloop", "cap", "done"} \/ todo' = Attached
    BY <1>2, ZenonT(120) DEF Update, PublishDone, ResetDone, GcDelete, CallGc, GoTo, StartReading, RunTypes
  <2> QED
    BY <2>1, <2>2, ZenonT(120) DEF Attached
<1>3. ASSUME NEW w \in Clients, Publish(w) \/ GcScan(w) \/ Reset(w) PROVE TodoInv'
  BY <1>3, ZenonT(120) DEF Publish, GcScan, Reset, Attached
<1>4. ASSUME NEW w \in Clients, Worker(w) PROVE TodoInv'
  <2>1. CASE IncreaseEnd(w) \/ DecreaseEnd(w)
    BY <2>1, ZenonT(120) DEF IncreaseEnd, DecreaseEnd, ClientLockFree
  <2>2. CASE ReaderReady(w)
    BY <2>2, ZenonT(120) DEF ReaderReady, Attached
  <2>3. CASE Bystander
    BY <2>3, ZenonT(120) DEF Bystander, SameMemory, Attached
  <2> QED
    BY <1>4, <2>1, <2>2, <2>3, WorkerSplit, ZenonT(120)
<1>5. CASE Main
  <2>1. UNCHANGED <<n, todo>> /\ (upc' = upc \/ upc' \in {"startup", "wait"})
    BY <1>5, MainSplit, ZenonT(120) DEF Start, StopBegin, StopReset, SameMemory
  <2> QED
    BY <2>1, ZenonT(120) DEF Attached
<1> QED
  BY <1>1, <1>2, <1>3, <1>4, <1>5, UpdaterSplit, ZenonT(120) DEF Next

\* gc() forgets what is not in use, and a new instance is made below the cap
\* only: gc_ptr_count bounds the instances whatever the threads do meanwhile.
LEMMA CopyStep ==
  ASSUME IInv, TodoInv, CopyInv, Next
  PROVE  CopyInv'
<1> USE DEF CopyInv, InService, sharedVars, workerVars, clientVars, runVars, batchVars, memVars, stopVars
<1> /\ n \in Nat /\ pNew \in [Clients -> PtrOrNull] /\ pCurrent \in [Clients -> PtrOrNull]
    /\ Attached \subseteq Clients /\ latest \in Ptr /\ Null \notin Ptr /\ gcCount \in Nat /\ CapCopies \in Nat
  BY SizesAssumption, PtrAssumption, SMTT(120) DEF IInv, TypeOK, ClientTypes, RunTypes, MemTypes, Attached, Clients
<1> TypeOK /\ RunTypes /\ RunInv /\ GcInv /\ NoDanglingReader
  BY ZenonT(120) DEF IInv, TypeOK
<1>1. CASE Quiet
  <2>1. /\ SameMemory /\ UNCHANGED <<running, stopPc>>
        /\ upc # "unstarted" /\ upc' # "unstarted"
        /\ upc' = "gc" => inUse' = {}
        /\ upc' = "update" => ~(CapCopies > 0 /\ gcCount >= CapCopies /\ running)
    BY <1>1, QuietSteps, ZenonT(120)
  <2> QED
    BY <2>1, SMTT(120) DEF SameMemory, Attached
<1>2. CASE Update
  <2>1. CASE UpdatesOnly
    <3>1. UNCHANGED <<n, pCurrent, pNew, heap, allPtrs, gcCount, running, stopPc>> /\ upc = "update"
      BY <1>2, <2>1, ZenonT(120) DEF Update
    <3>2. upc' = "head" \/ (upc' = "gc" /\ inUse' = {})
      BY <1>2, <2>1, ZenonT(120) DEF Update, CallGc, GoTo
    <3> QED
      BY <3>1, <3>2, ZenonT(120) DEF Attached
  <2>2. CASE ~UpdatesOnly
    <3>1. /\ UNCHANGED <<n, pCurrent, pNew, running, stopPc>> /\ upc = "update" /\ upc' = "publish"
          /\ gcCount' = gcCount + 1
      BY <1>2, <2>2, ZenonT(120) DEF Update, StartReading
    <3>2. PICK p \in Ptr \ heap : heap' = heap \union {p} /\ allPtrs' = allPtrs \union {p}
      BY <1>2, <2>2, ZenonT(120) DEF Update
    <3>3. IsFiniteSet(heap') /\ Cardinality(heap') = Cardinality(heap) + 1
      BY <3>2, FS_AddElement, ZenonT(120)
    <3>4. Cardinality(heap) \in Nat
      BY FS_CardinalityType, ZenonT(120)
    <3> QED
      BY <3>1, <3>2, <3>3, <3>4, SMTT(120) DEF Attached
  <2> QED
    BY <2>1, <2>2, ZenonT(120)
<1>3. CASE PublishDone \/ ResetDone
  <2>1. SameMemory /\ UNCHANGED <<running, stopPc>> /\ upc # "unstarted"
    BY <1>3, ZenonT(120) DEF PublishDone, ResetDone, SameMemory
  <2>2. upc' = "head" \/ (upc' = "gc" /\ inUse' = {})
    BY <1>3, ZenonT(120) DEF PublishDone, ResetDone, CallGc, GoTo
  <2> QED
    BY <2>1, <2>2, ZenonT(120) DEF SameMemory, Attached
<1>4. CASE GcDelete
  <2>1. /\ UNCHANGED <<n, pCurrent, pNew, running, stopPc>> /\ upc = "gc" /\ upc' \in {"head", "tloop", "cap", "done"}
        /\ heap' = heap \ (allPtrs \ inUse) /\ allPtrs' = inUse
        /\ gcCount' = IF inUse = {} THEN 0 ELSE Cardinality(inUse) - 1
    BY <1>4, ZenonT(120) DEF GcDelete, RunTypes
  <2>2. heap' \subseteq inUse /\ heap' \subseteq allPtrs'
    BY <2>1, ZenonT(120)
  <2>3. IsFiniteSet(inUse) /\ Cardinality(inUse) \in Nat /\ (Cardinality(inUse) = 0 <=> inUse = {})
    BY FS_CardinalityType, FS_EmptySet, ZenonT(120) DEF GcInv
  <2>4. IsFiniteSet(heap') /\ Cardinality(heap') <= Cardinality(inUse)
    BY <2>2, <2>3, FS_Subset, ZenonT(120)
  <2>5. running => Cardinality(inUse) <= Cardinality(heap)
    BY <2>1, FS_Subset, ZenonT(120)
  <2>6. gcCount' \in Nat /\ Cardinality(heap') \in Nat /\ Cardinality(heap) \in Nat
    BY <2>1, <2>3, <2>4, FS_CardinalityType, SMTT(120)
  <2>7. Cardinality(heap') <= gcCount' + 1
    BY <2>1, <2>3, <2>4, <2>6, SMTT(120)
  <2>8. running => gcCount' <= gcCount
    BY <2>1, <2>3, <2>5, <2>6, SMTT(120)
  <2> QED
    BY <2>1, <2>2, <2>4, <2>6, <2>7, <2>8, SMTT(120) DEF Attached
<1>5. ASSUME NEW w \in Clients, Publish(w) PROVE CopyInv'
  BY <1>5, ZenonT(120) DEF Publish, Attached
<1>6. ASSUME NEW w \in Clients, GcScan(w) PROVE CopyInv'
  <2>1. w \in Attached /\ {pCurrent[w], pNew[w]} \subseteq heap \union {Null}
    BY <1>6, ZenonT(120) DEF GcScan, TodoInv, NoDanglingReader
  <2>2. running => stopPc = "running"
    BY ZenonT(120) DEF RunInv
  <2> QED
    BY <1>6, <2>1, <2>2, ZenonT(120) DEF GcScan, Attached
<1>7. ASSUME NEW w \in Clients, Reset(w) PROVE CopyInv'
  BY <1>7, ZenonT(120) DEF Reset, RunInv
<1>8. CASE Main
  <2>1. CASE Start
    BY <2>1, ZenonT(120) DEF Start, Attached
  <2>2. CASE StopBegin
    BY <2>2, ZenonT(120) DEF StopBegin
  <2>3. ASSUME NEW w \in Clients, StopReset(w) PROVE CopyInv'
    BY <2>3, ZenonT(120) DEF StopReset, RunInv
  <2>4. CASE /\ SameMemory /\ UNCHANGED <<todo, inUse, running>>
             /\ stopPc # "running" /\ stopPc' # "running"
             /\ upc' = upc \/ (upc = "blocked" /\ upc' = "wait")
    BY <2>4, ZenonT(120) DEF SameMemory
  <2> QED
    BY <1>8, <2>1, <2>2, <2>3, <2>4, MainSplit, ZenonT(120)
<1>9. ASSUME NEW w \in Clients, Worker(w) PROVE CopyInv'
  <2>1. CASE IncreaseEnd(w)
    <3>1. w = n
      BY <2>1, ZenonT(120) DEF IncreaseEnd, IInv, ChangeInv
    <3> QED
      BY <2>1, <3>1, SMTT(120) DEF IncreaseEnd, ClientLockFree, Attached
  <2>2. CASE DecreaseEnd(w)
    <3>1. /\ n' = n - 1 /\ w + 1 = n /\ UNCHANGED <<heap, allPtrs, gcCount, inUse, upc, stopPc>>
          /\ pCurrent' = [pCurrent EXCEPT ![w] = Null] /\ pNew' = [pNew EXCEPT ![w] = Null]
      BY <2>2, ZenonT(120) DEF DecreaseEnd, IInv, ChangeInv
    <3>2. running' => running
      BY <2>2, ZenonT(120) DEF DecreaseEnd
    <3>3. \A v \in Attached' : v \in Attached /\ pCurrent'[v] = pCurrent[v] /\ pNew'[v] = pNew[v]
      BY <3>1, SMTT(120) DEF Attached
    <3> QED
      BY <3>1, <3>2, <3>3, ZenonT(120)
  <2>3. CASE ReaderReady(w)
    BY <2>3, ZenonT(120) DEF ReaderReady, Attached
  <2>4. CASE Bystander
    BY <2>4, ZenonT(120) DEF Bystander, SameMemory, Attached
  <2> QED
    BY <1>9, <2>1, <2>2, <2>3, <2>4, WorkerSplit, ZenonT(120)
<1> QED
  BY <1>1, <1>2, <1>3, <1>4, <1>5, <1>6, <1>7, <1>8, <1>9, UpdaterSplit, ZenonT(120) DEF Next

\* A new instance extends the newest one, which every worker reads, or is about
\* to read, as long as the workers have any.
LEMMA ReadStep ==
  ASSUME IInv, ReadInv, Next
  PROVE  ReadInv'
<1> USE DEF ReadInv, sharedVars, workerVars, clientVars, runVars, batchVars, memVars, stopVars
<1> /\ n \in Nat /\ pNew \in [Clients -> PtrOrNull] /\ pCurrent \in [Clients -> PtrOrNull]
    /\ Attached \subseteq Clients /\ latest \in Ptr /\ Null \notin Ptr /\ data \in [Ptr -> SUBSET Nat]
  BY SizesAssumption, PtrAssumption, SMTT(120) DEF IInv, TypeOK, ClientTypes, RunTypes, MemTypes, Attached, Clients
<1> RunTypes /\ NoDanglingReader
  BY ZenonT(120) DEF IInv, TypeOK
<1>1. CASE Quiet
  <2>1. UNCHANGED <<n, pCurrent, pNew, latest>> /\ upc # "publish" /\ upc' # "publish"
    BY <1>1, QuietKeeps, ZenonT(120)
  <2>2. UNCHANGED data
    BY <1>1, ZenonT(120) DEF Quiet, Startup, Head, CondWake, ReadDone, Idle, TimedLoop, TimedWait, TimedClear, PreWait, Wait, Block, WaitClear, Sort, Cap, ReadClient
  <2> QED
    BY <2>1, <2>2, ZenonT(120) DEF Attached
<1>2. CASE Update
  <2>1. ASSUME NEW w \in Attached
        PROVE  /\ pNew[w] # Null => pNew[w] = latest /\ latest \in heap
               /\ pCurrent[w] # Null => pCurrent[w] \in heap /\ pNew[w] # Null
    BY <1>2, <2>1, ZenonT(120) DEF Update, NoDanglingReader
  <2>2. PICK old \in Contents(latest) :
           IF UpdatesOnly
             THEN data' = [data EXCEPT ![latest] = old \union localQueue] /\ latest' = latest
             ELSE \E p \in Ptr \ heap :
                    /\ data' = [data EXCEPT ![p] = old \union localQueue]
                    /\ latest' = p /\ upc' = "publish" /\ todo' = Attached
    BY <1>2, ZenonT(120) DEF Update, StartReading
  <2>3. UNCHANGED <<n, pCurrent, pNew>> /\ upc # "publish"
    BY <1>2, ZenonT(120) DEF Update
  <2>4. latest \in heap => old = data[latest]
    BY ZenonT(120) DEF Contents
  <2>5. CASE UpdatesOnly
    <3>1. /\ latest' = latest /\ data'[latest] = old \union localQueue
          /\ \A q \in Ptr : q # latest => data'[q] = data[q]
      BY <2>2, <2>5, ZenonT(120)
    <3>2. ASSUME NEW w \in Attached, pNew[w] # Null
          PROVE  pNew[w] = latest /\ data[latest] \subseteq data'[latest]
      BY <2>1, <2>4, <3>1, <3>2, ZenonT(120)
    <3>3. ASSUME NEW w \in Attached, pCurrent[w] # Null
          PROVE  data'[pCurrent[w]] \subseteq data'[latest]
      <4>1. pNew[w] = latest /\ data[latest] \subseteq data'[latest] /\ pCurrent[w] \in Ptr
        BY <2>1, <3>2, <3>3, ZenonT(120) DEF PtrOrNull
      <4>2. data[pCurrent[w]] \subseteq data[latest]
        BY <3>3, <4>1, ZenonT(120)
      <4> QED
        BY <3>1, <4>1, <4>2, ZenonT(120)
    <3> QED
      BY <2>1, <2>3, <3>1, <3>2, <3>3, ZenonT(120) DEF Attached
  <2>6. CASE ~UpdatesOnly
    <3>1. PICK p \in Ptr \ heap :
             data' = [data EXCEPT ![p] = old \union localQueue] /\ latest' = p /\ upc' = "publish" /\ todo' = Attached
      BY <2>2, <2>6, ZenonT(120)
    <3> QED
      BY <2>1, <2>3, <2>4, <3>1, SMTT(120) DEF Attached
  <2> QED
    BY <2>5, <2>6, ZenonT(120)
<1>3. CASE PublishDone \/ ResetDone \/ GcDelete
  <2>1. UNCHANGED <<n, pCurrent, pNew, latest, data>> /\ (upc = "publish" => todo = {})
    BY <1>3, ZenonT(120) DEF PublishDone, ResetDone, GcDelete
  <2> QED
    BY <2>1, ZenonT(120) DEF Attached
<1>4. ASSUME NEW w \in Clients, Publish(w) PROVE ReadInv'
  BY <1>4, ZenonT(120) DEF Publish, Attached
<1>5. ASSUME NEW w \in Clients, GcScan(w) PROVE ReadInv'
  BY <1>5, ZenonT(120) DEF GcScan, Attached
<1>6. ASSUME NEW w \in Clients, Reset(w) \/ StopReset(w) PROVE ReadInv'
  <2>1. CASE Reset(w)
    BY <2>1, ZenonT(120) DEF Reset, Attached
  <2>2. CASE StopReset(w)
    BY <2>2, ZenonT(120) DEF StopReset, Attached
  <2> QED
    BY <1>6, <2>1, <2>2, ZenonT(120)
<1>7. CASE Main
  <2>1. CASE \E w \in Clients : StopReset(w)
    BY <1>6, <2>1, ZenonT(120)
  <2>2. CASE ~ \E w \in Clients : StopReset(w)
    <3>1. UNCHANGED <<n, pCurrent, pNew, latest, data, todo>> /\ (upc = "publish" => upc' = "publish")
      BY <1>7, <2>2, MainSplit, ZenonT(120) DEF Start, StopBegin, SameMemory
    <3> QED
      BY <3>1, ZenonT(120) DEF Attached
  <2> QED
    BY <2>1, <2>2, ZenonT(120)
<1>8. ASSUME NEW w \in Clients, Worker(w) PROVE ReadInv'
  <2>1. CASE IncreaseEnd(w)
    <3>1. w = n
      BY <2>1, ZenonT(120) DEF IncreaseEnd, IInv, ChangeInv
    <3> QED
      BY <2>1, <3>1, SMTT(120) DEF IncreaseEnd, ClientLockFree, Attached
  <2>2. CASE DecreaseEnd(w)
    <3>1. /\ n' = n - 1 /\ w + 1 = n /\ UNCHANGED <<latest, data, upc, todo>>
          /\ pCurrent' = [pCurrent EXCEPT ![w] = Null] /\ pNew' = [pNew EXCEPT ![w] = Null]
      BY <2>2, ZenonT(120) DEF DecreaseEnd, IInv, ChangeInv
    <3>2. \A v \in Attached' : v \in Attached /\ pCurrent'[v] = pCurrent[v] /\ pNew'[v] = pNew[v]
      BY <3>1, SMTT(120) DEF Attached
    <3> QED
      BY <3>1, <3>2, ZenonT(120)
  <2>3. CASE ReaderReady(w)
    BY <2>3, ZenonT(120) DEF ReaderReady, Attached
  <2>4. CASE Bystander
    BY <2>4, ZenonT(120) DEF Bystander, SameMemory, Attached
  <2> QED
    BY <1>8, <2>1, <2>2, <2>3, <2>4, WorkerSplit, ZenonT(120)
<1> QED
  BY <1>1, <1>2, <1>3, <1>4, <1>5, <1>6, <1>7, <1>8, UpdaterSplit, ZenonT(120) DEF Next

\* The constructor's one instance is the newest, and every worker reads it.
LEMMA InitReads == Init => TodoInv /\ CopyInv /\ ReadInv
<1> SUFFICES ASSUME Init PROVE TodoInv /\ CopyInv /\ ReadInv
  BY ZenonT(120)
<1>1. InitialPtr \in Ptr /\ Null \notin Ptr
  BY PtrAssumption, ZenonT(120) DEF InitialPtr
<1>2. IsFiniteSet(heap) /\ Cardinality(heap) = 1
  BY FS_Singleton, ZenonT(120) DEF Init
<1>3. TodoInv
  BY ZenonT(120) DEF Init, TodoInv
<1>4. CopyInv
  BY <1>1, <1>2, SizesAssumption, SMTT(120) DEF Init, CopyInv, Attached, Clients
<1>5. ReadInv
  BY <1>1, SizesAssumption, SMTT(120) DEF Init, ReadInv, Attached, Clients
<1> QED
  BY <1>3, <1>4, <1>5, ZenonT(120)

\* The three invariants above are inductive together with IInv.
LEMMA ReadsInductive == Spec => [](IInv /\ TodoInv /\ CopyInv /\ ReadInv)
<1>1. ASSUME IInv, TodoInv, CopyInv, ReadInv, [Next]_vars PROVE TodoInv' /\ CopyInv' /\ ReadInv'
  <2>1. CASE UNCHANGED vars
    BY <1>1, <2>1, ZenonT(120) DEF vars, TodoInv, CopyInv, ReadInv, InService, Attached, sharedVars, workerVars, clientVars, runVars, batchVars, memVars, stopVars
  <2> QED
    BY <1>1, <2>1, TodoStep, CopyStep, ReadStep, ZenonT(120)
<1> QED
  BY <1>1, InitReads, Inductive, PTL DEF Spec

\* cap_copies bounds the instances: while the updater runs there is never more
\* than one above the cap, whatever the cap, the number of workers and the time
\* they keep an instance.
THEOREM CopiesNeverExceedCap == Spec => []CopiesBounded
<1>1. IInv /\ CopyInv => CopiesBounded
  <2> SUFFICES ASSUME IInv, CopyInv, CapCopies > 0, running PROVE Cardinality(heap) <= CapCopies + 1
    BY ZenonT(120) DEF CopiesBounded
  <2>1. gcCount <= CapCopies /\ Cardinality(heap) <= gcCount + 1 /\ Cardinality(heap) \in Nat
    BY FS_CardinalityType, ZenonT(120) DEF CopyInv
  <2>2. gcCount \in Nat /\ CapCopies \in Nat
    BY SizesAssumption, ZenonT(120) DEF IInv, TypeOK, RunTypes
  <2> QED
    BY <2>1, <2>2, SMTT(120)
<1> QED
  BY <1>1, ReadsInductive, PTL

\* One step of any thread gives a worker no older instance than the one it holds.
Forward ==
    \A w \in Attached \cap 0..n' - 1 :
       {pCurrent[w], pCurrent'[w]} \subseteq Ptr =>
          /\ data[pCurrent[w]] \subseteq data'[pCurrent'[w]]
          /\ ~UpdatesOnly => data'[pCurrent[w]] = data[pCurrent[w]]

\* Only reader_ready moves an attached worker, and to an instance that holds what
\* the worker has; a new instance is written where no worker reads.
LEMMA StepForward ==
  ASSUME IInv, TodoInv, ReadInv, Next
  PROVE  Forward
<1> USE DEF Forward, sharedVars, workerVars, clientVars, runVars, batchVars, memVars, stopVars
<1> /\ n \in Nat /\ pNew \in [Clients -> PtrOrNull] /\ pCurrent \in [Clients -> PtrOrNull]
    /\ Attached \subseteq Clients /\ latest \in Ptr /\ Null \notin Ptr /\ data \in [Ptr -> SUBSET Nat]
  BY SizesAssumption, PtrAssumption, SMTT(120) DEF IInv, TypeOK, ClientTypes, RunTypes, MemTypes, Attached, Clients
<1> RunTypes /\ NoDanglingReader
  BY ZenonT(120) DEF IInv, TypeOK
<1>1. ASSUME UNCHANGED <<pCurrent, data>> PROVE Forward
  BY <1>1, ZenonT(120)
<1>2. CASE Update
  <2>1. PICK old \in Contents(latest) :
           IF UpdatesOnly
             THEN data' = [data EXCEPT ![latest] = old \union localQueue]
             ELSE \E p \in Ptr \ heap : data' = [data EXCEPT ![p] = old \union localQueue]
    BY <1>2, ZenonT(120) DEF Update
  <2>2. UNCHANGED pCurrent /\ upc # "publish"
    BY <1>2, ZenonT(120) DEF Update
  <2>3. ASSUME NEW w \in Attached, pCurrent[w] \in Ptr
        PROVE  /\ data[pCurrent[w]] \subseteq data'[pCurrent[w]]
               /\ ~UpdatesOnly => data'[pCurrent[w]] = data[pCurrent[w]]
    <3>1. pCurrent[w] \in heap /\ latest \in heap
      BY <2>2, <2>3, ZenonT(120) DEF ReadInv, NoDanglingReader
    <3>2. old = data[latest]
      BY <3>1, ZenonT(120) DEF Contents
    <3> QED
      BY <2>1, <2>3, <3>1, <3>2, SMTT(120)
  <2> QED
    BY <2>2, <2>3, ZenonT(120)
<1>3. ASSUME NEW w \in Clients, Reset(w) \/ StopReset(w) PROVE Forward
  <2>1. UNCHANGED data /\ pCurrent' = [pCurrent EXCEPT ![w] = Null]
    BY <1>3, ZenonT(120) DEF Reset, StopReset
  <2> QED
    BY <2>1, ZenonT(120)
<1>4. CASE Updater
  <2>1. CASE Quiet
    BY <1>1, <2>1, QuietSteps, ZenonT(120) DEF SameMemory
  <2>2. CASE PublishDone \/ GcDelete \/ ResetDone \/ \E w \in Clients : Publish(w) \/ GcScan(w)
    BY <1>1, <2>2, ZenonT(120) DEF PublishDone, GcDelete, ResetDone, Publish, GcScan
  <2> QED
    BY <1>2, <1>3, <1>4, <2>1, <2>2, UpdaterSplit, ZenonT(120)
<1>5. CASE Main
  <2>1. CASE ~ \E w \in Clients : StopReset(w)
    BY <1>1, <1>5, <2>1, MainSplit, ZenonT(120) DEF Start, StopBegin, SameMemory
  <2> QED
    BY <1>3, <2>1, ZenonT(120)
<1>6. ASSUME NEW w \in Clients, Worker(w) PROVE Forward
  <2>1. CASE IncreaseEnd(w) \/ DecreaseEnd(w)
    <3>1. UNCHANGED data /\ \A v \in Clients \ {w} : pCurrent'[v] = pCurrent[v]
      BY <2>1, ZenonT(120) DEF IncreaseEnd, DecreaseEnd
    <3>2. w \notin Attached \/ w \notin 0..n' - 1
      <4> w \in Nat
        BY SizesAssumption, SMTT(120) DEF Clients
      <4>1. n \in Nat /\ ChangeInv
        BY ZenonT(120) DEF IInv, TypeOK, ClientTypes
      <4>2. CASE IncreaseEnd(w)
        <5>1. w = n
          BY <4>1, <4>2, ZenonT(120) DEF IncreaseEnd, ChangeInv
        <5> QED
          BY <4>1, <5>1, SMTT(120) DEF Attached
      <4>3. CASE DecreaseEnd(w)
        <5>1. w + 1 = n /\ n' = n - 1
          BY <4>1, <4>3, ZenonT(120) DEF DecreaseEnd, ChangeInv
        <5> QED
          BY <4>1, <5>1, SMTT(120)
      <4> QED
        BY <2>1, <4>2, <4>3, ZenonT(120)
    <3> QED
      BY <3>1, <3>2, ZenonT(120)
  <2>2. CASE ReaderReady(w)
    BY <2>2, ZenonT(120) DEF ReaderReady, ReadInv
  <2>3. CASE Bystander
    BY <1>1, <2>3, ZenonT(120) DEF Bystander, SameMemory
  <2> QED
    BY <1>6, <2>1, <2>2, <2>3, WorkerSplit, ZenonT(120)
<1> QED
  BY <1>4, <1>5, <1>6, ZenonT(120) DEF Next

\* A worker's reads never go back in time, and what it reads is not overwritten
\* while it holds it, whatever the updater, gc() and stop() do meanwhile.
THEOREM ReadersMoveForward == Spec => ReaderMovesForward
<1>1. ASSUME IInv, TodoInv, ReadInv, [Next]_vars PROVE [Forward]_vars
  BY <1>1, StepForward, ZenonT(120)
<1>2. (IInv /\ TodoInv /\ CopyInv /\ ReadInv) /\ [Next]_vars => [Forward]_vars
  BY <1>1, ZenonT(120)
<1>3. Spec => [][Forward]_vars
  BY <1>2, ReadsInductive, PTL DEF Spec
<1> QED
  BY <1>3, ZenonT(120) DEF ReaderMovesForward, Forward

-----------------------------------------------------------------------------
(***************************************************************************)
(* Where the updates are, when stop() is called with no worker attached.   *)
(***************************************************************************)

\* The timestamp a worker has taken for the update it is queueing.
Fly(w) == IF wpc[w] \in {"stamped", "full"} THEN {stamp[w]} ELSE {}

\* What the newest instance holds.
Applied == data[latest]

\* No update is in two places, and every timestamp given out is in one of them.
PlacesInv ==
    /\ \A v, w \in Clients :
         /\ v # w => Fly(v) \cap Fly(w) = {} /\ queue[v] \cap queue[w] = {}
         /\ Fly(v) \cap queue[w] = {}
    /\ \A w \in Clients : (Fly(w) \union queue[w]) \cap (Batch \union leftover \union Applied) = {}
    /\ Batch \cap leftover = {} /\ (Batch \union leftover) \cap Applied = {}
    /\ \A t \in Nat : t < nextStamp <=> \/ \E w \in Clients : t \in Fly(w) \union queue[w]
                                        \/ t \in Batch \union leftover \union Applied

\* The updater waits with an empty m_local_queue.
WaitsEmpty ==
    \/ upc \in {"idle", "tloop", "tcheck", "tclear", "prewait", "wait", "gap", "blocked", "clear"}
    \/ upc = "gc" /\ gcRet = "tloop"
    \/ upc = "read2" /\ n = 0
    => localQueue = {}

\* A worker that is not attached has nothing queued; no worker is attached once
\* m_running is down; and when the newest instance is gone the updater has
\* nothing left to apply to it.
UpdateInv ==
    /\ \A w \in Clients \ Attached : queue[w] = {} /\ wpc[w] \in {"out", "joining"}
    /\ WaitsEmpty
    /\ upc = "gc" /\ gcRet = "cap" => running
    /\ ~running /\ upc # "unstarted" => n = 0
    /\ latest \notin heap =>
         /\ n = 0 /\ ~running
         /\ upc \notin {"unstarted", "startup", "condwait", "read1", "sort", "cap", "update", "publish"}

\* A thread leaves with an empty queue, and m_running goes down with the last one.
LEMMA AttachedStep ==
  ASSUME IInv, TodoInv, UpdateInv, ~DestroyInUse, Next
  PROVE  /\ \A w \in Clients \ Attached' : queue'[w] = {} /\ wpc'[w] \in {"out", "joining"}
         /\ ~running' /\ upc' # "unstarted" => n' = 0
<1> USE DEF UpdateInv, sharedVars, workerVars, clientVars, runVars, batchVars, memVars, stopVars
<1> /\ n \in Nat /\ queue \in [Clients -> SUBSET Nat] /\ wpc \in [Clients -> WorkerPcs]
    /\ Attached \subseteq Clients /\ running \in BOOLEAN
  BY SizesAssumption, SMTT(120) DEF IInv, TypeOK, FlagTypes, ClientTypes, Attached, Clients
<1>1. CASE Updater
  <2>1. UNCHANGED <<n, wpc, running>>
    BY <1>1, ThreadsKeep, ZenonT(120)
  <2>2. upc # "unstarted"
    BY <1>1, ZenonT(120) DEF Updater, Startup, Head, CondWake, ReadDone, Idle, TimedLoop, TimedWait, TimedClear, PreWait, Wait, Block, WaitClear, Sort, Cap, Update, PublishDone, GcDelete, ResetDone, ReadClient, Publish, GcScan, Reset
  <2>3. \A w \in Clients : queue'[w] = queue[w] \/ queue'[w] = {}
    BY <1>1, ZenonT(120) DEF Updater, Startup, Head, CondWake, ReadDone, Idle, TimedLoop, TimedWait, TimedClear, PreWait, Wait, Block, WaitClear, Sort, Cap, Update, PublishDone, GcDelete, ResetDone, ReadClient, Publish, GcScan, Reset
  <2> QED
    BY <2>1, <2>2, <2>3, ZenonT(120) DEF Attached
<1>2. CASE Main
  <2>1. UNCHANGED <<n, wpc, queue>>
    BY <1>2, ZenonT(120) DEF Main, Stopping, Start, StopBegin, StopReset, StopResetDone, StopSignal, StopJoin
  <2>2. CASE Start
    BY <2>1, <2>2, ZenonT(120) DEF Start, Attached
  <2>3. CASE StopBegin
    BY <2>1, <2>3, ZenonT(120) DEF StopBegin, Attached
  <2>4. CASE Stopping
    <3>1. running' = running /\ (upc' = upc \/ (upc = "blocked" /\ upc' = "wait"))
      BY <2>4, ZenonT(120) DEF Stopping, StopReset, StopResetDone, StopSignal, StopJoin, Notified
    <3> QED
      BY <2>1, <3>1, ZenonT(120) DEF Attached
  <2> QED
    BY <1>2, <2>2, <2>3, <2>4, ZenonT(120) DEF Main
<1>3. ASSUME NEW w \in Clients, Worker(w)
      PROVE  /\ \A v \in Clients \ Attached' : queue'[v] = {} /\ wpc'[v] \in {"out", "joining"}
             /\ ~running' /\ upc' # "unstarted" => n' = 0
  <2>1. CASE IncreaseEnd(w)
    <3>1. w = n /\ (running \/ upc = "unstarted")
      BY <2>1, ZenonT(120) DEF IncreaseEnd, IInv, ChangeInv, RunInv
    <3> QED
      BY <2>1, <3>1, SMTT(120) DEF IncreaseEnd, Attached, Clients
  <2>2. CASE DecreaseEnd(w)
    <3>1. w + 1 = n /\ n' = n - 1 /\ queue' = queue /\ queue[w] = {} /\ wpc' = [wpc EXCEPT ![w] = "out"] /\ upc' = upc
      BY <2>2, ZenonT(120) DEF DecreaseEnd, IInv, ChangeInv
    <3>2. w # 0 => running' = running
      BY <2>2, ZenonT(120) DEF DecreaseEnd
    <3>3. running \/ upc = "unstarted"
      BY <3>1, SMTT(120) DEF Clients
    <3>4. \A v \in Clients \ Attached' : v = w \/ v \notin Attached
      BY <3>1, SMTT(120) DEF Attached, Clients
    <3> QED
      BY <3>1, <3>2, <3>3, <3>4, SMTT(120) DEF Clients
  <2>3. CASE IncreaseBegin(w)
    BY <2>3, ZenonT(120) DEF IncreaseBegin, Attached, Notified
  <2>4. CASE DecreaseBegin(w) \/ DecreaseYield(w) \/ DecreaseRetry(w) \/ SendStamp(w) \/ Sending(w) \/ ReaderReady(w)
    <3>1. /\ UNCHANGED <<n, running>> /\ (upc' = upc \/ (upc = "blocked" /\ upc' = "wait"))
          /\ \A v \in Clients \ {w} : queue'[v] = queue[v] /\ wpc'[v] = wpc[v]
          /\ wpc[w] \notin {"out", "joining"}
      BY <2>4, ZenonT(120) DEF DecreaseBegin, DecreaseYield, DecreaseRetry, SendStamp, Sending, SendPush, SendFull, SendWake, ReaderReady, Notified
    <3>2. w \in Attached /\ Attached' = Attached
      BY <3>1, ZenonT(120) DEF Attached
    <3> QED
      BY <3>1, <3>2, ZenonT(120)
  <2> QED
    BY <1>3, <2>1, <2>2, <2>3, <2>4, ZenonT(120) DEF Worker, Changing
<1> QED
  BY <1>1, <1>2, <1>3, ZenonT(120) DEF Next

\* m_local_queue is empty whenever the updater has nothing to apply, and gc() is
\* called for the cap only while m_running is up.
LEMMA WaitStep ==
  ASSUME IInv, TodoInv, UpdateInv, ~DestroyInUse, Next
  PROVE  /\ WaitsEmpty'
         /\ upc' = "gc" /\ gcRet' = "cap" => running'
<1> USE DEF UpdateInv, WaitsEmpty, sharedVars, workerVars, clientVars, runVars, batchVars, memVars, stopVars, CallGc, GoTo, StartReading
<1> n \in Nat /\ RunTypes /\ RunInv
  BY SizesAssumption, SMTT(120) DEF IInv, TypeOK, ClientTypes
<1>1. CASE Startup \/ Head \/ CondWake \/ Sort \/ Cap
  BY <1>1, ZenonT(120) DEF Startup, Head, CondWake, Sort, Cap, TakeLeftover
<1>2. CASE ReadDone \/ Idle \/ TimedLoop \/ TimedWait
  BY <1>2, ZenonT(120) DEF ReadDone, Idle, TimedLoop, TimedWait
<1>3. CASE TimedClear \/ PreWait \/ Wait \/ Block \/ WaitClear
  BY <1>3, ZenonT(120) DEF TimedClear, PreWait, Wait, Block, WaitClear
<1>4. CASE Update \/ PublishDone \/ ResetDone
  BY <1>4, ZenonT(120) DEF Update, PublishDone, ResetDone
<1>5. CASE GcDelete
  BY <1>5, ZenonT(120) DEF GcDelete, RunTypes
<1>6. ASSUME NEW w \in Clients, ReadClient(w) PROVE WaitsEmpty' /\ upc' # "gc"
  <2>1. upc' = upc /\ upc \in {"read1", "read2"} /\ n' = n /\ w \in todo
    BY <1>6, ZenonT(120) DEF ReadClient
  <2>2. n # 0
    BY <2>1, SMTT(120) DEF TodoInv, Attached
  <2> QED
    BY <2>1, <2>2, ZenonT(120)
<1>7. ASSUME NEW w \in Clients, Publish(w) \/ GcScan(w) \/ Reset(w)
      PROVE  WaitsEmpty' /\ (upc' = "gc" /\ gcRet' = "cap" => running')
  BY <1>7, ZenonT(120) DEF Publish, GcScan, Reset
<1>8. CASE Main
  <2>1. CASE Start \/ \E w \in Clients : StopReset(w)
    BY <2>1, ZenonT(120) DEF Start, StopReset
  <2>2. CASE StopBegin
    <3>1. n = 0 /\ UNCHANGED <<n, upc, gcRet, localQueue>>
      BY <2>2, ZenonT(120) DEF StopBegin
    <3>2. upc = "gc" => ~running
      BY <3>1, ZenonT(120) DEF RunInv
    <3> QED
      BY <3>1, <3>2, ZenonT(120)
  <2>3. CASE /\ SameMemory /\ UNCHANGED <<gcRet, localQueue, running>>
             /\ upc' = upc \/ (upc = "blocked" /\ upc' = "wait")
    BY <2>3, ZenonT(120) DEF SameMemory
  <2> QED
    BY <1>8, <2>1, <2>2, <2>3, MainSplit, ZenonT(120)
<1>9. ASSUME NEW w \in Clients, Worker(w)
      PROVE  WaitsEmpty' /\ (upc' = "gc" /\ gcRet' = "cap" => running')
  <2>1. CASE IncreaseEnd(w) \/ DecreaseEnd(w)
    BY <2>1, ZenonT(120) DEF IncreaseEnd, DecreaseEnd, ClientLockFree
  <2>2. CASE ReaderReady(w)
    BY <2>2, ZenonT(120) DEF ReaderReady
  <2>3. CASE Bystander
    BY <2>3, ZenonT(120) DEF Bystander, SameMemory
  <2> QED
    BY <1>9, <2>1, <2>2, <2>3, WorkerSplit, ZenonT(120)
<1> QED
  BY <1>1, <1>2, <1>3, <1>4, <1>5, <1>6, <1>7, <1>8, <1>9, ZenonT(120) DEF Next, Updater

\* gc() deletes the newest instance only after the last worker has left.
LEMMA GoneStep ==
  ASSUME IInv, TodoInv, UpdateInv, ~DestroyInUse, Next, latest' \notin heap'
  PROVE  /\ n' = 0 /\ ~running'
         /\ upc' \notin {"unstarted", "startup", "condwait", "read1", "sort", "cap", "update", "publish"}
<1> USE DEF UpdateInv, sharedVars, workerVars, clientVars, runVars, batchVars, memVars, stopVars, CallGc, GoTo, StartReading
<1> n \in Nat /\ RunTypes /\ RunInv /\ LatestInv /\ GcInv /\ latest \in Ptr /\ Null \notin Ptr
  BY SizesAssumption, PtrAssumption, SMTT(120) DEF IInv, TypeOK, ClientTypes, MemTypes
<1> DEFINE Ended(u) == u \notin {"unstarted", "startup", "condwait", "read1", "sort", "cap", "update", "publish"}
<1>1. CASE Quiet
  <2>1. UNCHANGED <<n, latest, heap, running>>
    BY <1>1, QuietKeeps, ZenonT(120)
  <2>2. n = 0 /\ ~running /\ Ended(upc)
    BY <2>1, ZenonT(120)
  <2>3. CASE Startup \/ Head \/ CondWake \/ Sort \/ Cap
    BY <2>1, <2>2, <2>3, ZenonT(120) DEF Startup, Head, CondWake, Sort, Cap
  <2>4. CASE ReadDone
    <3>1. upc = "read2" /\ localQueue = {}
      BY <2>2, <2>4, ZenonT(120) DEF ReadDone, WaitsEmpty
    <3>2. upc' = "head"
      BY <2>4, <3>1, ZenonT(120) DEF ReadDone
    <3> QED
      BY <2>1, <2>2, <3>2, ZenonT(120)
  <2>5. CASE Idle \/ TimedLoop \/ TimedWait \/ TimedClear
    BY <2>1, <2>2, <2>5, ZenonT(120) DEF Idle, TimedLoop, TimedWait, TimedClear
  <2>6. CASE PreWait \/ Wait \/ Block \/ WaitClear \/ \E w \in Clients : ReadClient(w)
    BY <2>1, <2>2, <2>6, ZenonT(120) DEF PreWait, Wait, Block, WaitClear, ReadClient
  <2> QED
    BY <1>1, <2>3, <2>4, <2>5, <2>6, ZenonT(120) DEF Quiet
<1>2. CASE Update
  <2>1. latest \in heap
    BY <1>2, ZenonT(120) DEF Update
  <2>2. UpdatesOnly => latest' = latest /\ heap' = heap
    BY <1>2, ZenonT(120) DEF Update
  <2>3. ~UpdatesOnly => latest' \in heap'
    BY <1>2, ZenonT(120) DEF Update
  <2> QED
    BY <2>1, <2>2, <2>3, SMTT(120)
<1>3. CASE PublishDone \/ ResetDone \/ \E w \in Clients : Publish(w) \/ GcScan(w) \/ Reset(w)
  <2>1. UNCHANGED <<n, latest, heap, running>> /\ (upc' = upc \/ upc' \in {"gc", "head"})
    BY <1>3, ZenonT(120) DEF PublishDone, ResetDone, Publish, GcScan, Reset
  <2> QED
    BY <2>1, ZenonT(120)
<1>4. CASE GcDelete
  <2>1. UNCHANGED <<n, latest, running>> /\ heap' = heap \ (allPtrs \ inUse) /\ upc = "gc" /\ todo = {} /\ upc' = gcRet
    BY <1>4, ZenonT(120) DEF GcDelete
  <2>2. n = 0
    <3>1. SUFFICES ASSUME n # 0 PROVE FALSE
      BY ZenonT(120)
    <3>2. running /\ stopPc = "running" /\ 0 \in Attached
      BY <2>1, <3>1, SMTT(120) DEF RunInv, Attached
    <3>3. pNew[0] = latest /\ latest \in heap
      BY <2>1, <3>2, ZenonT(120) DEF LatestInv, InService
    <3>4. latest \in inUse
      BY <2>1, <3>2, <3>3, ZenonT(120) DEF GcInv
    <3> QED
      BY <2>1, <3>3, <3>4, ZenonT(120)
  <2>3. ~running
    BY <2>1, <2>2, ZenonT(120) DEF RunInv
  <2> QED
    BY <2>1, <2>2, <2>3, ZenonT(120) DEF RunTypes
<1>5. CASE Main
  <2>1. UNCHANGED <<n, latest, heap>>
    BY <1>5, MainSplit, ZenonT(120) DEF Start, StopBegin, StopReset, SameMemory
  <2>2. n = 0 /\ ~running /\ Ended(upc)
    BY <2>1, ZenonT(120)
  <2>3. upc # "unstarted"
    BY <2>2, ZenonT(120)
  <2>4. ~running' /\ (upc' = upc \/ upc' = "wait")
    <3>1. ~Start
      BY <2>3, ZenonT(120) DEF Start
    <3>2. ~running' \/ running' = running
      BY <1>5, <3>1, MainSplit, ZenonT(120) DEF StopBegin, StopReset
    <3>3. upc' = upc \/ upc' = "wait"
      BY <1>5, <3>1, MainSplit, ZenonT(120) DEF StopBegin, StopReset
    <3> QED
      BY <2>2, <3>2, <3>3, SMTT(120)
  <2> QED
    BY <2>1, <2>2, <2>4, ZenonT(120)
<1>6. ASSUME NEW w \in Clients, Worker(w) PROVE n' = 0 /\ ~running' /\ Ended(upc')
  <2>1. UNCHANGED <<latest, heap>>
    BY <1>6, WorkerSplit, ZenonT(120) DEF IncreaseEnd, DecreaseEnd, ReaderReady, Bystander, SameMemory
  <2>2. n = 0 /\ ~running /\ Ended(upc)
    BY <2>1, ZenonT(120)
  <2>3. ~IncreaseEnd(w)
    BY <2>2, ZenonT(120) DEF IncreaseEnd, IInv, RunInv
  <2>4. ~DecreaseEnd(w)
    <3> w \in Nat
      BY SizesAssumption, SMTT(120) DEF Clients
    <3>1. ChangeInv
      BY ZenonT(120) DEF IInv
    <3>2. DecreaseEnd(w) => w + 1 = n
      BY <3>1, ZenonT(120) DEF DecreaseEnd, ChangeInv
    <3> QED
      BY <2>2, <3>1, <3>2, SMTT(120)
  <2> QED
    BY <1>6, <2>2, <2>3, <2>4, WorkerSplit, ZenonT(120) DEF ReaderReady, Bystander, SameMemory
<1> QED
  BY <1>1, <1>2, <1>3, <1>4, <1>5, <1>6, UpdaterSplit, ZenonT(120) DEF Next

\* A step that moves updates between the batch and m_leftover_queue at most.
LEMMA BatchMoves ==
  ASSUME PlacesInv, nextStamp' = nextStamp,
         \A w \in Clients : Fly(w)' = Fly(w) /\ queue'[w] = queue[w],
         Batch' \union leftover' = Batch \union leftover, Batch' \cap leftover' = {},
         Applied' = Applied
  PROVE  PlacesInv'
<1>1. /\ \A v, w \in Clients :
           /\ v # w => Fly(v)' \cap Fly(w)' = {} /\ queue'[v] \cap queue'[w] = {}
           /\ Fly(v)' \cap queue'[w] = {}
  BY SMTT(120) DEF PlacesInv
<1>2. \A w \in Clients : (Fly(w)' \union queue'[w]) \cap (Batch' \union leftover' \union Applied') = {}
  BY ZenonT(120) DEF PlacesInv
<1>3. (Batch' \union leftover') \cap Applied' = {}
  BY ZenonT(120) DEF PlacesInv
<1>4. \A t \in Nat : t < nextStamp' <=> \/ \E w \in Clients : t \in Fly(w)' \union queue'[w]
                                        \/ t \in Batch' \union leftover' \union Applied'
  BY ZenonT(120) DEF PlacesInv
<1> QED
  BY <1>1, <1>2, <1>3, <1>4, ZenonT(120) DEF PlacesInv

\* A worker takes the next timestamp.
LEMMA StampPlaces ==
  ASSUME TypeOK, PlacesInv, NEW w \in Clients, SendStamp(w)
  PROVE  PlacesInv'
<1> USE DEF sharedVars, workerVars, clientVars, runVars, batchVars, memVars, stopVars
<1>1. nextStamp \in Nat /\ stamp \in [Clients -> Nat] /\ wpc \in [Clients -> WorkerPcs]
  BY ZenonT(120) DEF TypeOK, ClientTypes
<1>2. /\ Fly(w) = {} /\ Fly(w)' = {nextStamp} /\ nextStamp' = nextStamp + 1
      /\ \A v \in Clients \ {w} : Fly(v)' = Fly(v)
      /\ queue' = queue /\ Batch' = Batch /\ leftover' = leftover /\ Applied' = Applied
  BY <1>1, ZenonT(120) DEF SendStamp, Fly, Batch, Applied
<1>3. \A v \in Clients : nextStamp \notin Fly(v) \union queue[v]
  <2> SUFFICES ASSUME NEW v \in Clients, nextStamp \in Fly(v) \union queue[v] PROVE FALSE
    BY ZenonT(120)
  <2>1. nextStamp < nextStamp
    BY <1>1, ZenonT(120) DEF PlacesInv
  <2> QED
    BY <1>1, <2>1, SMTT(120)
<1>4. nextStamp \notin Batch \union leftover \union Applied
  <2> SUFFICES ASSUME nextStamp \in Batch \union leftover \union Applied PROVE FALSE
    BY ZenonT(120)
  <2>1. nextStamp < nextStamp
    BY <1>1, ZenonT(120) DEF PlacesInv
  <2> QED
    BY <1>1, <2>1, SMTT(120)
<1>5. \A v, u \in Clients :
           /\ v # u => Fly(v)' \cap Fly(u)' = {} /\ queue'[v] \cap queue'[u] = {}
           /\ Fly(v)' \cap queue'[u] = {}
  BY <1>2, <1>3, SMTT(120) DEF PlacesInv
<1>6. \A v \in Clients : (Fly(v)' \union queue'[v]) \cap (Batch' \union leftover' \union Applied') = {}
  BY <1>2, <1>4, SMTT(120) DEF PlacesInv
<1>7. \A t \in Nat : t < nextStamp' <=> \/ \E v \in Clients : t \in Fly(v)' \union queue'[v]
                                        \/ t \in Batch' \union leftover' \union Applied'
  <2> TAKE t \in Nat
  <2>1. t < nextStamp' <=> t < nextStamp \/ t = nextStamp
    BY <1>1, <1>2, SMTT(120)
  <2>2. (\E v \in Clients : t \in Fly(v)' \union queue'[v])
           <=> (\E v \in Clients : t \in Fly(v) \union queue[v]) \/ t = nextStamp
    BY <1>2, ZenonT(120)
  <2> QED
    BY <1>2, <2>1, <2>2, ZenonT(120) DEF PlacesInv
<1> QED
  BY <1>2, <1>5, <1>6, <1>7, ZenonT(120) DEF PlacesInv

\* A worker puts its update into its queue.
LEMMA PushPlaces ==
  ASSUME TypeOK, PlacesInv, NEW w \in Clients, SendPush(w)
  PROVE  PlacesInv'
<1> USE DEF sharedVars, workerVars, clientVars, runVars, batchVars, memVars, stopVars
<1>1. queue \in [Clients -> SUBSET Nat] /\ wpc \in [Clients -> WorkerPcs]
  BY ZenonT(120) DEF TypeOK, ClientTypes
<1>2. /\ Fly(w)' = {} /\ queue'[w] = queue[w] \union Fly(w)
      /\ \A v \in Clients \ {w} : Fly(v)' = Fly(v) /\ queue'[v] = queue[v]
  BY <1>1, ZenonT(120) DEF SendPush, Fly
<1>3. nextStamp' = nextStamp /\ Batch' = Batch /\ leftover' = leftover /\ Applied' = Applied
  BY ZenonT(120) DEF SendPush, Batch, Applied, Notified
<1>4. \A v, u \in Clients :
           /\ v # u => Fly(v)' \cap Fly(u)' = {} /\ queue'[v] \cap queue'[u] = {}
           /\ Fly(v)' \cap queue'[u] = {}
  <2>1. \A v \in Clients : Fly(v)' \subseteq Fly(v) /\ queue'[v] \subseteq Fly(v) \union queue[v]
    BY <1>2, ZenonT(120)
  <2> TAKE v, u \in Clients
  <2>2. v # u => Fly(v)' \cap Fly(u)' = {}
    BY <2>1, ZenonT(120) DEF PlacesInv
  <2>3. v # u => (Fly(v) \union queue[v]) \cap (Fly(u) \union queue[u]) = {}
    BY ZenonT(120) DEF PlacesInv
  <2>4. v # u => queue'[v] \cap queue'[u] = {} /\ Fly(v)' \cap queue'[u] = {}
    BY <2>1, <2>3, ZenonT(120)
  <2>5. Fly(v)' \cap queue'[v] = {}
    BY <1>2, ZenonT(120) DEF PlacesInv
  <2> QED
    BY <2>2, <2>4, <2>5, ZenonT(120)
<1>5. \A v \in Clients : Fly(v)' \union queue'[v] = Fly(v) \union queue[v]
  BY <1>2, ZenonT(120)
<1>6. \A t \in Nat : t < nextStamp' <=> \/ \E v \in Clients : t \in Fly(v)' \union queue'[v]
                                        \/ t \in Batch' \union leftover' \union Applied'
  BY <1>3, <1>5, ZenonT(120) DEF PlacesInv
<1> QED
  BY <1>3, <1>4, <1>5, <1>6, ZenonT(120) DEF PlacesInv

\* get_updates swaps the queue of one worker out.
LEMMA ReadPlaces ==
  ASSUME TypeOK, PlacesInv, NEW w \in Clients, ReadClient(w)
  PROVE  PlacesInv'
<1> USE DEF sharedVars, workerVars, clientVars, runVars, batchVars, memVars, stopVars
<1>1. queue \in [Clients -> SUBSET Nat]
  BY ZenonT(120) DEF TypeOK, ClientTypes
<1>2. queue'[w] = {} /\ \A v \in Clients \ {w} : queue'[v] = queue[v]
  BY <1>1, ZenonT(120) DEF ReadClient
<1>3. nextStamp' = nextStamp /\ leftover' = leftover /\ Applied' = Applied /\ \A v \in Clients : Fly(v)' = Fly(v)
  BY ZenonT(120) DEF ReadClient, Applied, Fly
<1>4. Batch' = Batch \union queue[w]
  BY ZenonT(120) DEF ReadClient, Batch
<1>5. \A v, u \in Clients :
           /\ v # u => Fly(v)' \cap Fly(u)' = {} /\ queue'[v] \cap queue'[u] = {}
           /\ Fly(v)' \cap queue'[u] = {}
  <2>1. \A v \in Clients : Fly(v)' = Fly(v) /\ queue'[v] \subseteq queue[v]
    BY <1>2, <1>3, ZenonT(120)
  <2> TAKE v, u \in Clients
  <2>2. v # u => Fly(v)' \cap Fly(u)' = {}
    BY <2>1, ZenonT(120) DEF PlacesInv
  <2>3. v # u => queue[v] \cap queue[u] = {}
    BY ZenonT(120) DEF PlacesInv
  <2>4. v # u => queue'[v] \cap queue'[u] = {}
    BY <2>1, <2>3, ZenonT(120)
  <2>5. Fly(v) \cap queue[u] = {}
    BY ZenonT(120) DEF PlacesInv
  <2>6. Fly(v)' \cap queue'[u] = {}
    BY <2>1, <2>5, ZenonT(120)
  <2> QED
    BY <2>2, <2>4, <2>6, ZenonT(120)
<1>6. \A v \in Clients : (Fly(v)' \union queue'[v]) \cap (Batch' \union leftover' \union Applied') = {}
  <2> SUFFICES ASSUME NEW v \in Clients, NEW t \in Fly(v)' \union queue'[v]
               PROVE  t \notin Batch' \union leftover' \union Applied'
    BY ZenonT(120)
  <2>1. t \in Fly(v) \/ (v # w /\ t \in queue[v])
    BY <1>2, <1>3, ZenonT(120)
  <2>2. t \notin Batch \union leftover \union Applied
    BY <2>1, ZenonT(120) DEF PlacesInv
  <2>3. t \notin queue[w]
    BY <2>1, ZenonT(120) DEF PlacesInv
  <2> QED
    BY <1>3, <1>4, <2>2, <2>3, ZenonT(120)
<1>7. Batch' \cap leftover' = {} /\ (Batch' \union leftover') \cap Applied' = {}
  BY <1>3, <1>4, ZenonT(120) DEF PlacesInv
<1>8. \A t \in Nat : t < nextStamp' <=> \/ \E v \in Clients : t \in Fly(v)' \union queue'[v]
                                        \/ t \in Batch' \union leftover' \union Applied'
  <2> TAKE t \in Nat
  <2> DEFINE Some == \E v \in Clients : t \in Fly(v) \union queue[v]
             Later == \E v \in Clients : t \in Fly(v)' \union queue'[v]
  <2>1. t < nextStamp <=> Some \/ t \in Batch \union leftover \union Applied
    BY ZenonT(120) DEF PlacesInv
  <2>2. Later => Some
    BY <1>2, <1>3, ZenonT(120)
  <2>3. Some => Later \/ t \in queue[w]
    BY <1>2, <1>3, ZenonT(120)
  <2>4. t \in queue[w] => Some
    BY ZenonT(120)
  <2>5. t \in Batch' \union leftover' \union Applied'
          <=> t \in Batch \union leftover \union Applied \/ t \in queue[w]
    BY <1>3, <1>4, ZenonT(120)
  <2> HIDE DEF Some, Later
  <2>6. t < nextStamp' <=> Later \/ t \in Batch' \union leftover' \union Applied'
    BY <1>3, <2>1, <2>2, <2>3, <2>4, <2>5, ZenonT(120)
  <2> QED
    BY <2>6, ZenonT(120) DEF Later
<1> QED
  BY <1>5, <1>6, <1>7, <1>8, ZenonT(120) DEF PlacesInv

\* make_updates applies the batch to a copy of the newest instance.
LEMMA ApplyPlaces ==
  ASSUME TypeOK, UpdateInv, PlacesInv, Update
  PROVE  PlacesInv'
<1> USE DEF sharedVars, workerVars, clientVars, runVars, batchVars, memVars, stopVars
<1>1. latest \in heap /\ latest \in Ptr /\ data \in [Ptr -> SUBSET Nat]
  BY ZenonT(120) DEF Update, UpdateInv, TypeOK, MemTypes
<1>2. nextStamp' = nextStamp /\ leftover' = leftover /\ \A v \in Clients : Fly(v)' = Fly(v) /\ queue'[v] = queue[v]
  BY ZenonT(120) DEF Update, Fly
<1>3. Batch = localQueue
  BY ZenonT(120) DEF Update, Batch
<1>4. Batch' = {}
  BY ZenonT(120) DEF Update, Batch, CallGc, GoTo, StartReading
<1>5. Applied' = Applied \union Batch
  <2>1. PICK old \in Contents(latest) :
           IF UpdatesOnly
             THEN data' = [data EXCEPT ![latest] = old \union localQueue] /\ latest' = latest
             ELSE \E p \in Ptr \ heap : data' = [data EXCEPT ![p] = old \union localQueue] /\ latest' = p
    BY ZenonT(120) DEF Update
  <2>2. old = Applied
    BY <1>1, ZenonT(120) DEF Contents, Applied
  <2> QED
    BY <1>1, <1>3, <2>1, <2>2, ZenonT(120) DEF Applied
<1>6. \A v, u \in Clients :
           /\ v # u => Fly(v)' \cap Fly(u)' = {} /\ queue'[v] \cap queue'[u] = {}
           /\ Fly(v)' \cap queue'[u] = {}
  BY <1>2, ZenonT(120) DEF PlacesInv
<1>7. Batch' \union leftover' \union Applied' = Batch \union leftover \union Applied
  BY <1>2, <1>4, <1>5, ZenonT(120)
<1>8. Batch' \cap leftover' = {} /\ (Batch' \union leftover') \cap Applied' = {}
  BY <1>2, <1>4, <1>5, ZenonT(120) DEF PlacesInv
<1>9. \A t \in Nat : t < nextStamp' <=> \/ \E v \in Clients : t \in Fly(v)' \union queue'[v]
                                        \/ t \in Batch' \union leftover' \union Applied'
  BY <1>2, <1>7, ZenonT(120) DEF PlacesInv
<1>10. \A v \in Clients : (Fly(v)' \union queue'[v]) \cap (Batch' \union leftover' \union Applied') = {}
  BY <1>2, <1>7, ZenonT(120) DEF PlacesInv
<1> QED
  BY <1>6, <1>8, <1>9, <1>10, ZenonT(120) DEF PlacesInv

\* The steps of the updater that move no update.
LEMMA SamePlaces ==
  ASSUME PlacesInv, UNCHANGED <<nextStamp, leftover>>,
         \A w \in Clients : Fly(w)' = Fly(w) /\ queue'[w] = queue[w],
         Batch' = Batch, Applied' = Applied
  PROVE  PlacesInv'
<1>1. Batch \cap leftover = {}
  BY ZenonT(120) DEF PlacesInv
<1> QED
  BY <1>1, BatchMoves, ZenonT(120)

\* No step of any thread loses an update or brings it to two places.
LEMMA PlacesStep ==
  ASSUME IInv, TodoInv, UpdateInv, PlacesInv, Next
  PROVE  PlacesInv'
<1> USE DEF sharedVars, workerVars, clientVars, runVars, batchVars, memVars, stopVars, CallGc, GoTo, StartReading
<1> TypeOK /\ RunTypes /\ ClientTypes
  BY ZenonT(120) DEF IInv, TypeOK
<1>1. ASSUME Head \/ CondWake PROVE PlacesInv'
  <2>1. UNCHANGED <<queue, wpc, stamp, nextStamp, data, latest>>
    BY <1>1, ZenonT(120) DEF Head, CondWake
  <2>2. (\A w \in Clients : Fly(w)' = Fly(w) /\ queue'[w] = queue[w]) /\ Applied' = Applied
    BY <2>1, ZenonT(120) DEF Fly, Applied
  <2>3. Batch = {}
    BY <1>1, ZenonT(120) DEF Head, CondWake, Batch
  <2>4. CASE TakeLeftover
    <3>1. Batch' = localQueue'
      BY <2>4, ZenonT(120) DEF TakeLeftover, Batch
    <3>2. Batch' \union leftover' = leftover /\ Batch' \cap leftover' = {}
      BY <2>4, <3>1, ZenonT(120) DEF TakeLeftover
    <3> QED
      BY <2>1, <2>2, <2>3, <3>2, BatchMoves, ZenonT(120)
  <2>5. CASE ~TakeLeftover
    <3>1. leftover' = leftover /\ upc' \in {"condwait", "reset"}
      BY <1>1, <2>5, ZenonT(120) DEF Head, CondWake
    <3>2. Batch' = {}
      BY <3>1, ZenonT(120) DEF Batch
    <3> QED
      BY <2>1, <2>2, <2>3, <3>1, <3>2, SamePlaces, ZenonT(120)
  <2> QED
    BY <2>4, <2>5, ZenonT(120)
<1>2. CASE Sort
  <2>1. UNCHANGED <<queue, wpc, stamp, nextStamp, data, latest>> /\ upc = "sort" /\ upc' = "cap"
    BY <1>2, ZenonT(120) DEF Sort
  <2>2. (\A w \in Clients : Fly(w)' = Fly(w) /\ queue'[w] = queue[w]) /\ Applied' = Applied
    BY <2>1, ZenonT(120) DEF Fly, Applied
  <2>3. Batch = localQueue /\ Batch' = localQueue'
    BY <2>1, ZenonT(120) DEF Batch
  <2>4. ContiguousPrefix(localQueue) \subseteq localQueue
    BY ZenonT(120) DEF ContiguousPrefix
  <2>5. localQueue \cap leftover = {}
    BY <2>3, ZenonT(120) DEF PlacesInv
  <2>6. Batch' \union leftover' = Batch \union leftover /\ Batch' \cap leftover' = {}
    BY <1>2, <2>3, <2>4, <2>5, ZenonT(120) DEF Sort
  <2> QED
    BY <2>1, <2>2, <2>6, BatchMoves, ZenonT(120)
<1>3. ASSUME UNCHANGED <<queue, wpc, stamp, nextStamp, leftover, data, latest>>, Batch' = Batch PROVE PlacesInv'
  <2>1. (\A w \in Clients : Fly(w)' = Fly(w) /\ queue'[w] = queue[w]) /\ Applied' = Applied
    BY <1>3, ZenonT(120) DEF Fly, Applied
  <2> QED
    BY <1>3, <2>1, SamePlaces, ZenonT(120)
<1>4. CASE Startup \/ ReadDone \/ Idle \/ TimedLoop \/ TimedWait \/ TimedClear
  <2>1. UNCHANGED <<queue, wpc, stamp, nextStamp, leftover, localQueue, data, latest>>
    BY <1>4, ZenonT(120) DEF Startup, ReadDone, Idle, TimedLoop, TimedWait, TimedClear
  <2>2. CASE Startup
    BY <1>3, <2>1, <2>2, ZenonT(120) DEF Startup, Batch
  <2>3. CASE ReadDone
    BY <1>3, <2>1, <2>3, ZenonT(120) DEF ReadDone, Batch
  <2>4. CASE Idle \/ TimedLoop \/ TimedWait \/ TimedClear
    <3>1. Batch = localQueue /\ Batch' = localQueue'
      BY <2>4, ZenonT(120) DEF Idle, TimedLoop, TimedWait, TimedClear, Batch
    <3> QED
      BY <1>3, <2>1, <3>1, ZenonT(120)
  <2> QED
    BY <1>4, <2>2, <2>3, <2>4, ZenonT(120)
<1>5. CASE PreWait \/ Wait \/ Block \/ WaitClear \/ Cap
  <2>1. UNCHANGED <<queue, wpc, stamp, nextStamp, leftover, localQueue, data, latest>>
    BY <1>5, ZenonT(120) DEF PreWait, Wait, Block, WaitClear, Cap
  <2>2. Batch = localQueue /\ Batch' = localQueue'
    BY <1>5, ZenonT(120) DEF PreWait, Wait, Block, WaitClear, Cap, Batch
  <2> QED
    BY <1>3, <2>1, <2>2, ZenonT(120)
<1>6. CASE PublishDone \/ ResetDone
  <2>1. UNCHANGED <<queue, wpc, stamp, nextStamp, leftover, localQueue, data, latest>>
    BY <1>6, ZenonT(120) DEF PublishDone, ResetDone
  <2>2. Batch = {} /\ Batch' = {}
    BY <1>6, SMTT(20) DEF PublishDone, ResetDone, Batch
  <2> QED
    BY <1>3, <2>1, <2>2, ZenonT(120)
<1>7. CASE GcDelete
  <2>1. UNCHANGED <<queue, wpc, stamp, nextStamp, leftover, localQueue, data, latest, gcRet>> /\ upc = "gc" /\ upc' = gcRet
    BY <1>7, ZenonT(120) DEF GcDelete
  <2>2. Batch' = Batch
    BY <2>1, ZenonT(120) DEF Batch, RunTypes
  <2> QED
    BY <1>3, <2>1, <2>2, ZenonT(120)
<1>8. ASSUME NEW w \in Clients, Publish(w) \/ GcScan(w) \/ Reset(w) PROVE PlacesInv'
  <2>1. UNCHANGED <<queue, wpc, stamp, nextStamp, leftover, localQueue, data, latest, gcRet, upc>>
    BY <1>8, ZenonT(120) DEF Publish, GcScan, Reset
  <2> QED
    BY <1>3, <2>1, ZenonT(120) DEF Batch
<1>9. CASE Main
  <2>1. UNCHANGED <<queue, wpc, stamp, nextStamp, leftover, localQueue, data, latest, gcRet>>
    BY <1>9, ZenonT(120) DEF Main, Stopping, Start, StopBegin, StopReset, StopResetDone, StopSignal, StopJoin
  <2>2. upc' = upc \/ (upc = "blocked" /\ upc' = "wait") \/ (upc = "unstarted" /\ upc' = "startup")
    BY <1>9, MainSplit, ZenonT(120) DEF Start, StopBegin, StopReset
  <2>3. Batch' = Batch
    BY <2>1, <2>2, ZenonT(120) DEF Batch
  <2> QED
    BY <1>3, <2>1, <2>3, ZenonT(120)
<1>10. ASSUME NEW w \in Clients, Worker(w) PROVE PlacesInv'
  <2>1. CASE SendStamp(w) \/ SendPush(w)
    BY <2>1, StampPlaces, PushPlaces, ZenonT(120)
  <2>2. CASE ~(SendStamp(w) \/ SendPush(w))
    <3>1. UNCHANGED <<stamp, nextStamp, leftover, localQueue, data, latest, gcRet>>
      BY <1>10, <2>2, ZenonT(120) DEF Worker, Changing, Sending, IncreaseBegin, IncreaseEnd, DecreaseBegin, DecreaseYield, DecreaseRetry, DecreaseEnd, ReaderReady, SendFull, SendWake
    <3>2. upc' = upc \/ (upc = "blocked" /\ upc' = "wait")
      BY <1>10, <2>2, ZenonT(120) DEF Worker, Changing, Sending, IncreaseBegin, IncreaseEnd, DecreaseBegin, DecreaseYield, DecreaseRetry, DecreaseEnd, ReaderReady, SendFull, SendWake, Notified
    <3>3. Batch' = Batch /\ Applied' = Applied
      BY <3>1, <3>2, ZenonT(120) DEF Batch, Applied
    <3>4. (\A v \in Clients \ {w} : wpc'[v] = wpc[v]) /\ (wpc'[w] \in {"stamped", "full"} <=> wpc[w] \in {"stamped", "full"})
      BY <1>10, <2>2, ZenonT(120) DEF ClientTypes, Worker, Changing, Sending, IncreaseBegin, IncreaseEnd, DecreaseBegin, DecreaseYield, DecreaseRetry, DecreaseEnd, ReaderReady, SendFull, SendWake
    <3>5. \A v \in Clients : Fly(v)' = Fly(v)
      BY <3>1, <3>4, ZenonT(120) DEF Fly
    <3>6. \A v \in Clients : queue'[v] = queue[v]
      <4>1. CASE IncreaseEnd(w)
        <5>1. w = n
          BY <4>1, ZenonT(120) DEF IncreaseEnd, IInv, ChangeInv
        <5>2. queue[w] = {}
          BY <5>1, SizesAssumption, SMTT(120) DEF UpdateInv, Attached, ClientTypes, Clients
        <5> QED
          BY <4>1, <5>2, ZenonT(120) DEF IncreaseEnd, ClientTypes
      <4>2. CASE ~IncreaseEnd(w)
        BY <1>10, <2>2, <4>2, ZenonT(120) DEF Worker, Changing, Sending, IncreaseBegin, DecreaseBegin, DecreaseYield, DecreaseRetry, DecreaseEnd, ReaderReady, SendFull, SendWake
      <4> QED
        BY <4>1, <4>2, ZenonT(120)
    <3> QED
      BY <3>1, <3>3, <3>5, <3>6, SamePlaces, ZenonT(120)
  <2> QED
    BY <2>1, <2>2, ZenonT(120)
<1> QED
  BY <1>1, <1>2, <1>4, <1>5, <1>6, <1>7, <1>8, <1>9, <1>10, ReadPlaces, ApplyPlaces, ZenonT(120) DEF Next, Updater

\* Nothing has been sent when the updater is constructed.
LEMMA InitPlaces == Init => UpdateInv /\ PlacesInv
<1> SUFFICES ASSUME Init PROVE UpdateInv /\ PlacesInv
  BY ZenonT(120)
<1>1. InitialPtr \in Ptr
  BY PtrAssumption, ZenonT(120) DEF InitialPtr
<1>2. UpdateInv
  BY <1>1, SizesAssumption, SMTT(120) DEF Init, UpdateInv, WaitsEmpty, Attached, Clients
<1>3. Batch = {} /\ leftover = {} /\ Applied = {} /\ nextStamp = 0 /\ \A w \in Clients : Fly(w) = {} /\ queue[w] = {}
  BY <1>1, ZenonT(120) DEF Init, Batch, Applied, Fly
<1>4. PlacesInv
  BY <1>3, SMTT(120) DEF PlacesInv
<1> QED
  BY <1>2, <1>4, ZenonT(120)

\* The elements of two disjoint finite sets add up.
LEMMA DisjointUnion ==
  ASSUME NEW S, NEW T, IsFiniteSet(S), IsFiniteSet(T), S \cap T = {}
  PROVE  IsFiniteSet(S \union T) /\ Cardinality(S \union T) = Cardinality(S) + Cardinality(T)
<1>1. IsFiniteSet(S \union T) /\ Cardinality(S \union T) = Cardinality(S) + Cardinality(T) - Cardinality(S \cap T)
  BY FS_Union, ZenonT(120)
<1>2. Cardinality(S \cap T) = 0 /\ Cardinality(S) \in Nat /\ Cardinality(T) \in Nat
  BY FS_EmptySet, FS_CardinalityType, ZenonT(120)
<1> QED
  BY <1>1, <1>2, SMTT(120)

\* What the property says of the sets is what PlacesInv says of their members.
LEMMA PlacesImplyNoUpdateLost ==
  ASSUME TypeOK, PlacesInv
  PROVE  NoUpdateLost
<1>1. nextStamp \in Nat
  BY ZenonT(120) DEF TypeOK, ClientTypes
<1>2. \A t : t \in InFlight <=> \E w \in Clients : t \in Fly(w)
  BY ZenonT(120) DEF InFlight, Fly
<1>3. \A t : t \in Queued <=> \E w \in Clients : t \in queue[w]
  BY ZenonT(120) DEF Queued
<1>4. /\ InFlight \subseteq Nat /\ Queued \subseteq Nat
      /\ Batch \subseteq Nat /\ leftover \subseteq Nat /\ Applied \subseteq Nat
  <2>1. InFlight \subseteq Nat
    BY ZenonT(120) DEF InFlight, TypeOK, ClientTypes
  <2>2. Queued \subseteq Nat
    BY <1>3, ZenonT(120) DEF TypeOK, ClientTypes
  <2>3. Batch \subseteq Nat /\ leftover \subseteq Nat /\ Applied \subseteq Nat
    BY ZenonT(120) DEF Batch, Applied, TypeOK, RunTypes, MemTypes
  <2> QED
    BY <2>1, <2>2, <2>3, ZenonT(120)
<1>5. \A t \in Nat : t < nextStamp <=> t \in InFlight \union Queued \union Batch \union leftover \union Applied
  BY <1>2, <1>3, ZenonT(120) DEF PlacesInv
<1>6. 0..nextStamp - 1 = InFlight \union Queued \union Batch \union leftover \union Applied
  <2> DEFINE U == InFlight \union Queued \union Batch \union leftover \union Applied
  <2>1. U \subseteq Nat
    BY <1>4, ZenonT(120)
  <2>2. \A t \in Nat : t < nextStamp <=> t \in U
    BY <1>5, ZenonT(120)
  <2> HIDE DEF U
  <2>3. ASSUME NEW t \in 0..nextStamp - 1 PROVE t \in U
    BY <1>1, <2>2, SMTT(120)
  <2>4. ASSUME NEW t \in U PROVE t \in 0..nextStamp - 1
    BY <1>1, <2>1, <2>2, SMTT(120)
  <2> QED
    BY <2>3, <2>4, ZenonT(120) DEF U
<1>7. InFlight \cap Queued = {} /\ (InFlight \union Queued) \cap (Batch \union leftover \union Applied) = {}
  BY <1>2, <1>3, ZenonT(120) DEF PlacesInv
<1>8. Batch \cap leftover = {} /\ (Batch \union leftover) \cap Applied = {}
  BY ZenonT(120) DEF PlacesInv
<1>9. /\ (InFlight \union Queued) \cap Batch = {}
      /\ (InFlight \union Queued \union Batch) \cap leftover = {}
      /\ (InFlight \union Queued \union Batch \union leftover) \cap Applied = {}
  BY <1>7, <1>8, ZenonT(120)
<1>10. Cardinality(InFlight) + Cardinality(Queued) + Cardinality(Batch) + Cardinality(leftover) + Cardinality(Applied) = nextStamp
  <2> DEFINE I == InFlight  Q == Queued  B == Batch  L == leftover  A == Applied
  <2>1. /\ 0..nextStamp - 1 = I \union Q \union B \union L \union A
        /\ I \cap Q = {} /\ (I \union Q) \cap B = {} /\ (I \union Q \union B) \cap L = {}
        /\ (I \union Q \union B \union L) \cap A = {}
    BY <1>6, <1>7, <1>9, ZenonT(120)
  <2> HIDE DEF I, Q, B, L, A
  <2>2. IsFiniteSet(0..nextStamp - 1) /\ Cardinality(0..nextStamp - 1) = nextStamp
    <3>1. nextStamp - 1 \in Int /\ 0 \in Int
      BY <1>1, SMTT(120)
    <3>2. /\ IsFiniteSet(0..nextStamp - 1)
          /\ Cardinality(0..nextStamp - 1) = IF 0 > nextStamp - 1 THEN 0 ELSE (nextStamp - 1) - 0 + 1
      BY <3>1, FS_Interval, ZenonT(120)
    <3> QED
      BY <1>1, <3>2, SMTT(120)
  <2>3. IsFiniteSet(I) /\ IsFiniteSet(Q) /\ IsFiniteSet(B) /\ IsFiniteSet(L) /\ IsFiniteSet(A)
    <3>1. \A S \in {I, Q, B, L, A} : S \subseteq 0..nextStamp - 1
      BY <2>1, ZenonT(120)
    <3> QED
      BY <2>2, <3>1, FS_Subset, ZenonT(120)
  <2>4. IsFiniteSet(I \union Q) /\ Cardinality(I \union Q) = Cardinality(I) + Cardinality(Q)
    BY <2>1, <2>3, DisjointUnion, ZenonT(120)
  <2>5. IsFiniteSet(I \union Q \union B) /\ Cardinality(I \union Q \union B) = Cardinality(I \union Q) + Cardinality(B)
    BY <2>1, <2>3, <2>4, DisjointUnion, ZenonT(120)
  <2>6. /\ IsFiniteSet(I \union Q \union B \union L)
        /\ Cardinality(I \union Q \union B \union L) = Cardinality(I \union Q \union B) + Cardinality(L)
    BY <2>1, <2>3, <2>5, DisjointUnion, ZenonT(120)
  <2>7. Cardinality(0..nextStamp - 1) = Cardinality(I \union Q \union B \union L) + Cardinality(A)
    BY <2>1, <2>3, <2>6, DisjointUnion, ZenonT(120)
  <2>8. Cardinality(I) + Cardinality(Q) + Cardinality(B) + Cardinality(L) + Cardinality(A) = nextStamp
    BY <2>2, <2>4, <2>5, <2>6, <2>7, ZenonT(120)
  <2> QED
    BY <2>8, ZenonT(120) DEF I, Q, B, L, A
<1> QED
  BY <1>6, <1>10, ZenonT(120) DEF NoUpdateLost, Applied

\* Every update is in one place until it is applied, and applied once, for any
\* number of workers, queue size and cap, when stop() is called with no worker
\* attached (Reset and gc() would otherwise delete the instance the last batch
\* is applied to).
THEOREM UpdatesNeverLost ==
  ASSUME ~DestroyInUse
  PROVE  Spec => []NoUpdateLost
<1>1. ASSUME IInv, TodoInv, UpdateInv, PlacesInv, [Next]_vars PROVE UpdateInv' /\ PlacesInv'
  <2>1. CASE Next
    <3>1. UpdateInv'
      BY <1>1, <2>1, AttachedStep, WaitStep, GoneStep, ZenonT(120) DEF UpdateInv
    <3> QED
      BY <1>1, <2>1, <3>1, PlacesStep, ZenonT(120)
  <2>2. CASE UNCHANGED vars
    <3> USE <2>2 DEF vars, sharedVars, workerVars, clientVars, runVars, batchVars, memVars, stopVars
    <3>1. UpdateInv'
      BY <1>1, ZenonT(120) DEF UpdateInv, WaitsEmpty, Attached
    <3>2. Batch' = Batch /\ Applied' = Applied /\ \A w \in Clients : Fly(w)' = Fly(w)
      BY ZenonT(120) DEF Batch, Applied, Fly
    <3> QED
      BY <1>1, <3>1, <3>2, SamePlaces, ZenonT(120)
  <2> QED
    BY <1>1, <2>1, <2>2, ZenonT(120)
<1>2. IInv /\ PlacesInv => NoUpdateLost
  BY PlacesImplyNoUpdateLost, ZenonT(120) DEF IInv
<1> QED
  BY <1>1, <1>2, InitPlaces, ReadsInductive, PTL DEF Spec

=============================================================================
