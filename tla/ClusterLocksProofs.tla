-------------------------- MODULE ClusterLocksProofs --------------------------
(***************************************************************************)
(* What holds of the cooperative locks for every number of monitors,       *)
(* servers and faults.  The inductive invariant says that a monitor knows  *)
(* which locks its working connections have, that it has counted a         *)
(* majority when it calls itself the primary, and what is left to release. *)
(***************************************************************************)
EXTENDS ClusterLocks, FiniteSetTheorems, TLAPS

(* A monitor that does not run has no connection; past the decision a      *)
(* monitor is the primary.                                                 *)
AliveInv ==
    \A m \in Monitors :
        /\ ~alive[m] => pc[m] = "idle" /\ connected[m] = {}
        /\ pc[m] \in {"roles", "masterlock", "operate"} => have_lock_majority[m]

(* A working connection has a lock exactly if the monitor's status of it   *)
(* says so, and a monitor has no lock without a connection.                *)
Known ==
    \A m \in Monitors, s \in Servers :
        /\ server_owner[s] = m <=> s \in connected[m] /\ m_serverlock[m][s] = "OWNED_SELF"
        /\ master_owner[s] = m <=> s \in connected[m] /\ m_masterlock[m][s] = "OWNED_SELF"

(* What update_cluster_lock_status() decides from the status of the locks. *)
MajorityOf(locks, run) ==
    Cardinality(With(locks, "OWNED_SELF"))
        >= IF majority_of_running THEN Cardinality(run) \div 2 + 1 ELSE Cardinality(Servers) \div 2 + 1

MajorityInv ==
    \A m \in Monitors :
        alive[m] /\ have_lock_majority[m] /\ pc[m] \in {"idle", "roles", "masterlock", "operate"}
            => MajorityOf(m_serverlock[m], running[m])

(* A secondary has nothing that it is not about to release.                *)
ReleaseInv ==
    \A m \in Monitors, s \in Servers :
        \/ pc[m] = "release" /\ s \notin todo[m]
        \/ pc[m] = "idle" /\ ~have_lock_majority[m]
        => server_owner[s] # m /\ master_owner[s] # m

(* The primary marks the target only, apart from what it is about to       *)
(* release.                                                                *)
MarkInv ==
    /\ \A m \in Monitors, s \in Servers :
           pc[m] = "masterlock" /\ s \notin todo[m] /\ master_owner[s] = m => s = masterlock_target[m]
    /\ \A m \in Monitors, s, t \in Servers :
           pc[m] \in {"idle", "operate"} /\ master_owner[s] = m /\ master_owner[t] = m => s = t

Inv == TypeOK /\ AliveInv /\ Known /\ MajorityInv /\ ReleaseInv /\ MarkInv

(* The decision is the one of MajorityOf.                                  *)
LEMMA Deciding ==
    ASSUME NEW m \in Monitors
    PROVE  server_locks_held(m) >= required_for_majority(m) <=> MajorityOf(m_serverlock[m], running[m])
BY ZenonT(120) DEF server_locks_held, required_for_majority, MajorityOf

(* What the decision changes.                                              *)
LEMMA DecideEffect ==
    ASSUME TypeOK, NEW m \in Monitors, Decide(m)
    PROVE  /\ have_lock_majority' \in [Monitors -> BOOLEAN]
           /\ cluster_operation_disable_timer' \in [Monitors -> 0..failcount + 1]
           /\ pc' \in [Monitors -> {"idle", "update", "acquire", "release", "roles", "masterlock", "operate"}]
           /\ todo' \in [Monitors -> SUBSET Servers]
           /\ \A o \in Monitors \ {m} :
                  pc'[o] = pc[o] /\ todo'[o] = todo[o] /\ have_lock_majority'[o] = have_lock_majority[o]
           /\ \/ /\ pc'[m] = "roles"
                 /\ have_lock_majority'[m]
                 /\ MajorityOf(m_serverlock[m], running[m])
              \/ /\ pc'[m] = "release"
                 /\ \A s \in Servers \ todo'[m] : m_serverlock[m][s] # "OWNED_SELF" /\ m_masterlock[m][s] # "OWNED_SELF"
<1>1. CASE server_locks_held(m) >= required_for_majority(m)
  <2>1. failcount + 1 \in 0..failcount + 1
    BY LocksAssumption, SMTT(120)
  <2>2. MajorityOf(m_serverlock[m], running[m])
    BY <1>1, Deciding, ZenonT(120)
  <2>3. cluster_operation_disable_timer' \in [Monitors -> 0..failcount + 1]
    <3>1. CASE have_lock_majority[m]
      BY <1>1, <3>1, ZenonT(120) DEF TypeOK, Decide
    <3>2. CASE ~have_lock_majority[m]
      BY <1>1, <2>1, <3>2, ZenonT(120) DEF TypeOK, Decide, delay_auto_cluster_ops
    <3> QED
      BY <3>1, <3>2, ZenonT(120)
  <2>4. /\ have_lock_majority' = [have_lock_majority EXCEPT ![m] = TRUE]
        /\ pc' = [pc EXCEPT ![m] = "roles"]
        /\ UNCHANGED todo
    BY <1>1, ZenonT(120) DEF Decide
  <2> QED
    BY <2>2, <2>3, <2>4, ZenonT(120) DEF TypeOK
<1>2. CASE ~(server_locks_held(m) >= required_for_majority(m))
  <2> DEFINE mine == {s \in Servers : "OWNED_SELF" \in {m_serverlock[m][s], m_masterlock[m][s]}}
  <2>1. /\ pc' = [pc EXCEPT ![m] = "release"]
        /\ todo' = [todo EXCEPT ![m] = mine]
        /\ UNCHANGED <<have_lock_majority, cluster_operation_disable_timer>>
    BY <1>2, ZenonT(120) DEF Decide
  <2>2. mine \in SUBSET Servers
    BY ZenonT(120)
  <2>3. \A s \in Servers \ mine : m_serverlock[m][s] # "OWNED_SELF" /\ m_masterlock[m][s] # "OWNED_SELF"
    BY ZenonT(120)
  <2> HIDE DEF mine
  <2> QED
    BY <2>1, <2>2, <2>3, ZenonT(120) DEF TypeOK
<1> QED
    BY <1>1, <1>2, ZenonT(120)

(* The initial states satisfy the invariant.                               *)
LEMMA InitInv == Init => Inv
<1> USE LocksAssumption
<1> SUFFICES ASSUME Init PROVE Inv
    BY ZenonT(120)
<1>1. TypeOK
    BY SMTT(120) DEF Init, TypeOK, LockStatus
<1>2. AliveInv /\ Known /\ MajorityInv /\ ReleaseInv /\ MarkInv
    BY ZenonT(120) DEF Init, AliveInv, Known, MajorityInv, ReleaseInv, MarkInv
<1> QED
    BY <1>1, <1>2, ZenonT(120) DEF Inv

(* The begin of a tick keeps the invariant.                                 *)
LEMMA TickBeginInv ==
    ASSUME Inv, NEW m \in Monitors, TickBegin(m)
    PROVE  Inv'
<1> USE LocksAssumption
<1>1. TypeOK'
    BY SMTT(120) DEF Inv, TypeOK, LockStatus, TickBegin, monitor_vars, server_vars
<1>2. AliveInv'
    BY ZenonT(120) DEF Inv, TypeOK, AliveInv, TickBegin, monitor_vars, server_vars
<1>3. Known'
    BY SMTT(120) DEF Inv, TypeOK, AliveInv, Known, TickBegin, monitor_vars, server_vars
<1>4. MajorityInv'
    BY ZenonT(120) DEF Inv, TypeOK, AliveInv, MajorityInv, TickBegin, monitor_vars, server_vars
<1>5. ReleaseInv'
    BY SMTT(120) DEF Inv, TypeOK, AliveInv, Known, ReleaseInv, MarkInv, TickBegin, monitor_vars, server_vars
<1>6. MarkInv'
    BY SMTT(120) DEF Inv, TypeOK, AliveInv, Known, ReleaseInv, MarkInv, TickBegin, monitor_vars, server_vars
<1> QED
    BY <1>1, <1>2, <1>3, <1>4, <1>5, <1>6, ZenonT(120) DEF Inv

(* The query of a server keeps the invariant.                               *)
LEMMA UpdateServerInv ==
    ASSUME Inv, NEW m \in Monitors, NEW s \in Servers, UpdateServer(m, s)
    PROVE  Inv'
<1> USE LocksAssumption
<1>1. TypeOK'
    BY ZenonT(120) DEF Inv, TypeOK, LockStatus, UpdateServer, SetLocks, Seen, monitor_vars, server_vars
<1>2. AliveInv'
    BY ZenonT(120) DEF Inv, TypeOK, AliveInv, UpdateServer, SetLocks, Seen, monitor_vars, server_vars
<1>3. Known'
    BY SMTT(120) DEF Inv, TypeOK, AliveInv, Known, UpdateServer, SetLocks, Seen, monitor_vars, server_vars
<1>4. MajorityInv'
    BY ZenonT(120) DEF Inv, TypeOK, AliveInv, MajorityInv, UpdateServer, SetLocks, Seen, monitor_vars, server_vars
<1>5. ReleaseInv'
    BY SMTT(120) DEF Inv, TypeOK, AliveInv, Known, ReleaseInv, MarkInv, UpdateServer, SetLocks, Seen, monitor_vars, server_vars
<1>6. MarkInv'
    BY SMTT(120) DEF Inv, TypeOK, AliveInv, Known, ReleaseInv, MarkInv, UpdateServer, SetLocks, Seen, monitor_vars, server_vars
<1> QED
    BY <1>1, <1>2, <1>3, <1>4, <1>5, <1>6, ZenonT(120) DEF Inv

(* A failed query of a server keeps the invariant.                          *)
LEMMA UpdateServerFailsInv ==
    ASSUME Inv, NEW m \in Monitors, NEW s \in Servers, UpdateServerFails(m, s)
    PROVE  Inv'
<1> USE LocksAssumption
<1>1. TypeOK'
  <2>1. /\ server_owner' \in [Servers -> Monitors \cup {Free, Dead}]
        /\ master_owner' \in [Servers -> Monitors \cup {Free, Dead}]
    BY ZenonT(120) DEF Inv, TypeOK, UpdateServerFails, Disowned
  <2>2. running' \in [Monitors -> SUBSET Servers]
    <3>1. CASE running' = [running EXCEPT ![m] = @ \ {s}]
      BY <3>1, ZenonT(120) DEF Inv, TypeOK
    <3>2. CASE running' = [running EXCEPT ![m] = @ \cup {s}]
      BY <3>2, ZenonT(120) DEF Inv, TypeOK
    <3> QED
      BY <3>1, <3>2, ZenonT(120) DEF UpdateServerFails
  <2>3. /\ connected' \in [Monitors -> SUBSET Servers]
        /\ todo' \in [Monitors -> SUBSET Servers]
    BY ZenonT(120) DEF Inv, TypeOK, UpdateServerFails
  <2>4. /\ m_serverlock' \in [Monitors -> [Servers -> LockStatus]]
        /\ m_masterlock' \in [Monitors -> [Servers -> LockStatus]]
    BY ZenonT(120) DEF Inv, TypeOK, UpdateServerFails, SetLocks, LockStatus
  <2>5. faults' \in Nat
    BY SMTT(120) DEF Inv, TypeOK, UpdateServerFails
  <2> QED
    BY <2>1, <2>2, <2>3, <2>4, <2>5, ZenonT(120) DEF Inv, TypeOK, UpdateServerFails
<1>2. AliveInv'
    BY ZenonT(120) DEF Inv, TypeOK, AliveInv, UpdateServerFails, SetLocks, Disowned, monitor_vars, server_vars
<1>3. Known'
    BY SMTT(120) DEF Inv, TypeOK, AliveInv, Known, UpdateServerFails, SetLocks, Disowned, monitor_vars, server_vars
<1>4. MajorityInv'
    BY ZenonT(120) DEF Inv, TypeOK, AliveInv, MajorityInv, UpdateServerFails, SetLocks, Disowned, monitor_vars, server_vars
<1>5. ReleaseInv'
    BY SMTT(120) DEF Inv, TypeOK, AliveInv, Known, ReleaseInv, MarkInv, UpdateServerFails, SetLocks, Disowned, monitor_vars, server_vars
<1>6. MarkInv'
    BY SMTT(120) DEF Inv, TypeOK, AliveInv, Known, ReleaseInv, MarkInv, UpdateServerFails, SetLocks, Disowned, monitor_vars, server_vars
<1> QED
    BY <1>1, <1>2, <1>3, <1>4, <1>5, <1>6, ZenonT(120) DEF Inv

(* The counting of the locks keeps the invariant.                           *)
LEMMA CountLocksInv ==
    ASSUME Inv, NEW m \in Monitors, NEW try \in BOOLEAN, CountLocks(m, try)
    PROVE  Inv'
<1> USE LocksAssumption
<1>1. TypeOK'
  <2>1. UNCHANGED <<alive, connected, running, m_serverlock, m_masterlock, masterlock_target, server_owner, master_owner, lag, faults>>
    BY ZenonT(120) DEF CountLocks, monitor_vars, server_vars
  <2>2. CASE Decide(m)
    BY <2>1, <2>2, DecideEffect, ZenonT(120) DEF Inv, TypeOK
  <2>3. CASE ~Decide(m)
    <3>1. /\ pc' = [pc EXCEPT ![m] = "acquire"]
          /\ todo' = [todo EXCEPT ![m] = With(m_serverlock[m], "FREE")]
          /\ UNCHANGED <<have_lock_majority, cluster_operation_disable_timer>>
          /\ pc[m] = "update"
      BY <2>3, ZenonT(120) DEF CountLocks
    <3>2. With(m_serverlock[m], "FREE") \in SUBSET Servers
      BY ZenonT(120) DEF With
    <3> QED
      BY <2>1, <3>1, <3>2, ZenonT(120) DEF Inv, TypeOK
  <2> QED
    BY <2>2, <2>3, ZenonT(120)
<1>2. AliveInv'
  <2>1. UNCHANGED <<alive, connected, running, m_serverlock, m_masterlock, masterlock_target, server_owner, master_owner, lag, faults>>
    BY ZenonT(120) DEF CountLocks, monitor_vars, server_vars
  <2>2. CASE Decide(m)
    BY <2>1, <2>2, DecideEffect, SMTT(120) DEF Inv, AliveInv, CountLocks
  <2>3. CASE ~Decide(m)
    <3>1. /\ pc' = [pc EXCEPT ![m] = "acquire"]
          /\ todo' = [todo EXCEPT ![m] = With(m_serverlock[m], "FREE")]
          /\ UNCHANGED <<have_lock_majority, cluster_operation_disable_timer>>
          /\ pc[m] = "update"
      BY <2>3, ZenonT(120) DEF CountLocks
    <3>2. With(m_serverlock[m], "FREE") \in SUBSET Servers
      BY ZenonT(120) DEF With
    <3> QED
      BY <2>1, <3>1, <3>2, ZenonT(120) DEF Inv, TypeOK, AliveInv
  <2> QED
    BY <2>2, <2>3, ZenonT(120)
<1>3. Known'
    BY SMTT(120) DEF Inv, TypeOK, AliveInv, Known, CountLocks, Decide, delay_auto_cluster_ops, monitor_vars, server_vars
<1>4. MajorityInv'
  <2>1. UNCHANGED <<alive, connected, running, m_serverlock, m_masterlock, masterlock_target, server_owner, master_owner, lag, faults>>
    BY ZenonT(120) DEF CountLocks, monitor_vars, server_vars
  <2>2. CASE Decide(m)
    BY <2>1, <2>2, DecideEffect, ZenonT(120) DEF Inv, MajorityInv
  <2>3. CASE ~Decide(m)
    <3>1. /\ pc' = [pc EXCEPT ![m] = "acquire"]
          /\ todo' = [todo EXCEPT ![m] = With(m_serverlock[m], "FREE")]
          /\ UNCHANGED <<have_lock_majority, cluster_operation_disable_timer>>
          /\ pc[m] = "update"
      BY <2>3, ZenonT(120) DEF CountLocks
    <3>2. With(m_serverlock[m], "FREE") \in SUBSET Servers
      BY ZenonT(120) DEF With
    <3> QED
      BY <2>1, <3>1, <3>2, ZenonT(120) DEF Inv, TypeOK, MajorityInv
  <2> QED
    BY <2>2, <2>3, ZenonT(120)
<1>5. ReleaseInv'
  <2>1. UNCHANGED <<alive, connected, running, m_serverlock, m_masterlock, masterlock_target, server_owner, master_owner, lag, faults>>
    BY ZenonT(120) DEF CountLocks, monitor_vars, server_vars
  <2>2. CASE Decide(m)
    BY <2>1, <2>2, DecideEffect, SMTT(120) DEF Inv, Known, ReleaseInv
  <2>3. CASE ~Decide(m)
    <3>1. /\ pc' = [pc EXCEPT ![m] = "acquire"]
          /\ todo' = [todo EXCEPT ![m] = With(m_serverlock[m], "FREE")]
          /\ UNCHANGED <<have_lock_majority, cluster_operation_disable_timer>>
          /\ pc[m] = "update"
      BY <2>3, ZenonT(120) DEF CountLocks
    <3>2. With(m_serverlock[m], "FREE") \in SUBSET Servers
      BY ZenonT(120) DEF With
    <3> QED
      BY <2>1, <3>1, <3>2, SMTT(120) DEF Inv, TypeOK, Known, ReleaseInv
  <2> QED
    BY <2>2, <2>3, ZenonT(120)
<1>6. MarkInv'
  <2>1. UNCHANGED <<alive, connected, running, m_serverlock, m_masterlock, masterlock_target, server_owner, master_owner, lag, faults>>
    BY ZenonT(120) DEF CountLocks, monitor_vars, server_vars
  <2>2. CASE Decide(m)
    BY <2>1, <2>2, DecideEffect, SMTT(120) DEF Inv, MarkInv
  <2>3. CASE ~Decide(m)
    <3>1. /\ pc' = [pc EXCEPT ![m] = "acquire"]
          /\ todo' = [todo EXCEPT ![m] = With(m_serverlock[m], "FREE")]
          /\ UNCHANGED <<have_lock_majority, cluster_operation_disable_timer>>
          /\ pc[m] = "update"
      BY <2>3, ZenonT(120) DEF CountLocks
    <3>2. With(m_serverlock[m], "FREE") \in SUBSET Servers
      BY ZenonT(120) DEF With
    <3> QED
      BY <2>1, <3>1, <3>2, ZenonT(120) DEF Inv, TypeOK, MarkInv
  <2> QED
    BY <2>2, <2>3, ZenonT(120)
<1> QED
    BY <1>1, <1>2, <1>3, <1>4, <1>5, <1>6, ZenonT(120) DEF Inv

(* The attempt to take a lock keeps the invariant.                          *)
LEMMA GetServerLockInv ==
    ASSUME Inv, NEW m \in Monitors, NEW s \in Servers, GetServerLock(m, s)
    PROVE  Inv'
<1> USE LocksAssumption
<1>1. TypeOK'
    BY ZenonT(120) DEF Inv, TypeOK, LockStatus, GetServerLock, GetStatus, Acquired, monitor_vars, server_vars
<1>2. AliveInv'
    BY ZenonT(120) DEF Inv, TypeOK, AliveInv, GetServerLock, GetStatus, Acquired, monitor_vars, server_vars
<1>3. Known'
    BY SMTT(120) DEF Inv, TypeOK, AliveInv, Known, GetServerLock, GetStatus, Acquired, monitor_vars, server_vars
<1>4. MajorityInv'
    BY ZenonT(120) DEF Inv, TypeOK, AliveInv, MajorityInv, GetServerLock, GetStatus, Acquired, monitor_vars, server_vars
<1>5. ReleaseInv'
    BY SMTT(120) DEF Inv, TypeOK, AliveInv, Known, ReleaseInv, MarkInv, GetServerLock, GetStatus, Acquired, monitor_vars, server_vars
<1>6. MarkInv'
    BY SMTT(120) DEF Inv, TypeOK, AliveInv, Known, ReleaseInv, MarkInv, GetServerLock, GetStatus, Acquired, monitor_vars, server_vars
<1> QED
    BY <1>1, <1>2, <1>3, <1>4, <1>5, <1>6, ZenonT(120) DEF Inv

(* The decision after the attempts keeps the invariant.                     *)
LEMMA AcquireDoneInv ==
    ASSUME Inv, NEW m \in Monitors, AcquireDone(m)
    PROVE  Inv'
<1> USE LocksAssumption
<1>1. TypeOK'
  <2>1. UNCHANGED <<alive, connected, running, m_serverlock, m_masterlock, masterlock_target, server_owner, master_owner, lag, faults>>
    BY ZenonT(120) DEF AcquireDone, monitor_vars, server_vars
  <2>2. CASE Decide(m)
    BY <2>1, <2>2, DecideEffect, ZenonT(120) DEF Inv, TypeOK
  <2> QED
    BY <2>2, ZenonT(120) DEF AcquireDone
<1>2. AliveInv'
  <2>1. UNCHANGED <<alive, connected, running, m_serverlock, m_masterlock, masterlock_target, server_owner, master_owner, lag, faults>>
    BY ZenonT(120) DEF AcquireDone, monitor_vars, server_vars
  <2>2. CASE Decide(m)
    BY <2>1, <2>2, DecideEffect, ZenonT(120) DEF Inv, AliveInv, AcquireDone
  <2> QED
    BY <2>2, ZenonT(120) DEF AcquireDone
<1>3. Known'
    BY SMTT(120) DEF Inv, TypeOK, AliveInv, Known, AcquireDone, Decide, delay_auto_cluster_ops, monitor_vars, server_vars
<1>4. MajorityInv'
  <2>1. UNCHANGED <<alive, connected, running, m_serverlock, m_masterlock, masterlock_target, server_owner, master_owner, lag, faults>>
    BY ZenonT(120) DEF AcquireDone, monitor_vars, server_vars
  <2>2. CASE Decide(m)
    BY <2>1, <2>2, DecideEffect, ZenonT(120) DEF Inv, MajorityInv
  <2> QED
    BY <2>2, ZenonT(120) DEF AcquireDone
<1>5. ReleaseInv'
  <2>1. UNCHANGED <<alive, connected, running, m_serverlock, m_masterlock, masterlock_target, server_owner, master_owner, lag, faults>>
    BY ZenonT(120) DEF AcquireDone, monitor_vars, server_vars
  <2>2. CASE Decide(m)
    BY <2>1, <2>2, DecideEffect, SMTT(120) DEF Inv, Known, ReleaseInv
  <2> QED
    BY <2>2, ZenonT(120) DEF AcquireDone
<1>6. MarkInv'
  <2>1. UNCHANGED <<alive, connected, running, m_serverlock, m_masterlock, masterlock_target, server_owner, master_owner, lag, faults>>
    BY ZenonT(120) DEF AcquireDone, monitor_vars, server_vars
  <2>2. CASE Decide(m)
    BY <2>1, <2>2, DecideEffect, SMTT(120) DEF Inv, MarkInv
  <2> QED
    BY <2>2, ZenonT(120) DEF AcquireDone
<1> QED
    BY <1>1, <1>2, <1>3, <1>4, <1>5, <1>6, ZenonT(120) DEF Inv

(* The release of a normal lock keeps the invariant.                        *)
LEMMA ReleaseServerLockInv ==
    ASSUME Inv, NEW m \in Monitors, NEW s \in Servers, ReleaseServerLock(m, s)
    PROVE  Inv'
<1> USE LocksAssumption
<1>1. TypeOK'
    BY ZenonT(120) DEF Inv, TypeOK, LockStatus, ReleaseServerLock, ReleaseStatus, Released, monitor_vars, server_vars
<1>2. AliveInv'
    BY ZenonT(120) DEF Inv, TypeOK, AliveInv, ReleaseServerLock, ReleaseStatus, Released, monitor_vars, server_vars
<1>3. Known'
    BY SMTT(120) DEF Inv, TypeOK, AliveInv, Known, ReleaseServerLock, ReleaseStatus, Released, monitor_vars, server_vars
<1>4. MajorityInv'
    BY ZenonT(120) DEF Inv, TypeOK, AliveInv, MajorityInv, ReleaseServerLock, ReleaseStatus, Released, monitor_vars, server_vars
<1>5. ReleaseInv'
    BY SMTT(120) DEF Inv, TypeOK, AliveInv, Known, ReleaseInv, MarkInv, ReleaseServerLock, ReleaseStatus, Released, monitor_vars, server_vars
<1>6. MarkInv'
    BY SMTT(120) DEF Inv, TypeOK, AliveInv, Known, ReleaseInv, MarkInv, ReleaseServerLock, ReleaseStatus, Released, monitor_vars, server_vars
<1> QED
    BY <1>1, <1>2, <1>3, <1>4, <1>5, <1>6, ZenonT(120) DEF Inv

(* The release of a primary lock keeps the invariant.                       *)
LEMMA ReleaseMasterLockInv ==
    ASSUME Inv, NEW m \in Monitors, NEW s \in Servers, ReleaseMasterLock(m, s)
    PROVE  Inv'
<1> USE LocksAssumption
<1>1. TypeOK'
    BY ZenonT(120) DEF Inv, TypeOK, LockStatus, ReleaseMasterLock, ReleaseStatus, Released, monitor_vars, server_vars
<1>2. AliveInv'
    BY ZenonT(120) DEF Inv, TypeOK, AliveInv, ReleaseMasterLock, ReleaseStatus, Released, monitor_vars, server_vars
<1>3. Known'
    BY SMTT(120) DEF Inv, TypeOK, AliveInv, Known, ReleaseMasterLock, ReleaseStatus, Released, monitor_vars, server_vars
<1>4. MajorityInv'
    BY ZenonT(120) DEF Inv, TypeOK, AliveInv, MajorityInv, ReleaseMasterLock, ReleaseStatus, Released, monitor_vars, server_vars
<1>5. ReleaseInv'
    BY SMTT(120) DEF Inv, TypeOK, AliveInv, Known, ReleaseInv, MarkInv, ReleaseMasterLock, ReleaseStatus, Released, monitor_vars, server_vars
<1>6. MarkInv'
    BY SMTT(120) DEF Inv, TypeOK, AliveInv, Known, ReleaseInv, MarkInv, ReleaseMasterLock, ReleaseStatus, Released, monitor_vars, server_vars
<1> QED
    BY <1>1, <1>2, <1>3, <1>4, <1>5, <1>6, ZenonT(120) DEF Inv

(* The end of the tick of a secondary keeps the invariant.                  *)
LEMMA ReleaseDoneInv ==
    ASSUME Inv, NEW m \in Monitors, ReleaseDone(m)
    PROVE  Inv'
<1> USE LocksAssumption
<1>1. TypeOK'
    BY SMTT(120) DEF Inv, TypeOK, LockStatus, ReleaseDone, ProcessStateChanges, monitor_vars, server_vars
<1>2. AliveInv'
    BY ZenonT(120) DEF Inv, TypeOK, AliveInv, ReleaseDone, ProcessStateChanges, monitor_vars, server_vars
<1>3. Known'
    BY SMTT(120) DEF Inv, TypeOK, AliveInv, Known, ReleaseDone, ProcessStateChanges, monitor_vars, server_vars
<1>4. MajorityInv'
    BY ZenonT(120) DEF Inv, TypeOK, AliveInv, MajorityInv, ReleaseDone, ProcessStateChanges, monitor_vars, server_vars
<1>5. ReleaseInv'
    BY SMTT(120) DEF Inv, TypeOK, AliveInv, Known, ReleaseInv, MarkInv, ReleaseDone, ProcessStateChanges, monitor_vars, server_vars
<1>6. MarkInv'
    BY SMTT(120) DEF Inv, TypeOK, AliveInv, Known, ReleaseInv, MarkInv, ReleaseDone, ProcessStateChanges, monitor_vars, server_vars
<1> QED
    BY <1>1, <1>2, <1>3, <1>4, <1>5, <1>6, ZenonT(120) DEF Inv

(* The choice of the primary server keeps the invariant.                    *)
LEMMA AssignRolesInv ==
    ASSUME Inv, NEW m \in Monitors, NEW s \in Servers \cup {NoServer}, AssignRoles(m, s)
    PROVE  Inv'
<1> USE LocksAssumption
<1>1. TypeOK'
    BY ZenonT(120) DEF Inv, TypeOK, LockStatus, AssignRoles, monitor_vars, server_vars
<1>2. AliveInv'
    BY ZenonT(120) DEF Inv, TypeOK, AliveInv, AssignRoles, monitor_vars, server_vars
<1>3. Known'
    BY SMTT(120) DEF Inv, TypeOK, AliveInv, Known, AssignRoles, monitor_vars, server_vars
<1>4. MajorityInv'
    BY ZenonT(120) DEF Inv, TypeOK, AliveInv, MajorityInv, AssignRoles, monitor_vars, server_vars
<1>5. ReleaseInv'
    BY SMTT(120) DEF Inv, TypeOK, AliveInv, Known, ReleaseInv, MarkInv, AssignRoles, monitor_vars, server_vars
<1>6. MarkInv'
    BY SMTT(120) DEF Inv, TypeOK, AliveInv, Known, ReleaseInv, MarkInv, AssignRoles, monitor_vars, server_vars
<1> QED
    BY <1>1, <1>2, <1>3, <1>4, <1>5, <1>6, ZenonT(120) DEF Inv

(* The marking of the primary server keeps the invariant.                   *)
LEMMA CheckMasterLockInv ==
    ASSUME Inv, NEW m \in Monitors, NEW s \in Servers, CheckMasterLock(m, s)
    PROVE  Inv'
<1> USE LocksAssumption
<1>1. TypeOK'
  <2>1. m_masterlock' \in [Monitors -> [Servers -> LockStatus]]
    <3>1. ReleaseStatus(m, s, master_owner[s]) \in LockStatus /\ GetStatus(m, s, master_owner[s]) \in LockStatus
      BY ZenonT(120) DEF LockStatus, ReleaseStatus, GetStatus
    <3>2. PICK status \in LockStatus : m_masterlock' = [m_masterlock EXCEPT ![m][s] = status]
      BY <3>1, ZenonT(120) DEF CheckMasterLock
    <3> QED
      BY <3>2, ZenonT(120) DEF Inv, TypeOK
  <2>2. master_owner' \in [Servers -> Monitors \cup {Free, Dead}]
    <3>1. CASE s # masterlock_target[m]
      BY <3>1, ZenonT(120) DEF Inv, TypeOK, CheckMasterLock, Released
    <3>2. CASE s = masterlock_target[m]
      BY <3>2, SMTT(120) DEF Inv, TypeOK, CheckMasterLock, Acquired
    <3> QED
      BY <3>1, <3>2, ZenonT(120)
  <2> QED
    BY <2>1, <2>2, ZenonT(120) DEF Inv, TypeOK, CheckMasterLock, monitor_vars, server_vars
<1>2. AliveInv'
    BY ZenonT(120) DEF Inv, TypeOK, AliveInv, CheckMasterLock, GetStatus, Acquired, ReleaseStatus, Released, monitor_vars, server_vars
<1>3. Known'
    BY SMTT(120) DEF Inv, TypeOK, AliveInv, Known, CheckMasterLock, GetStatus, Acquired, ReleaseStatus, Released, monitor_vars, server_vars
<1>4. MajorityInv'
    BY ZenonT(120) DEF Inv, TypeOK, AliveInv, MajorityInv, CheckMasterLock, GetStatus, Acquired, ReleaseStatus, Released, monitor_vars, server_vars
<1>5. ReleaseInv'
    BY SMTT(120) DEF Inv, TypeOK, AliveInv, Known, ReleaseInv, MarkInv, CheckMasterLock, GetStatus, Acquired, ReleaseStatus, Released, monitor_vars, server_vars
<1>6. MarkInv'
  <2>1. \A t \in Servers \ {s} : master_owner'[t] = master_owner[t]
    BY ZenonT(120) DEF Inv, TypeOK, CheckMasterLock
  <2>2. \A o \in Monitors \ {m} : master_owner'[s] = o => master_owner[s] = o
    BY SMTT(120) DEF Inv, TypeOK, CheckMasterLock, Acquired, Released
  <2>3. master_owner'[s] = m => s = masterlock_target[m]
    BY SMTT(120) DEF Inv, TypeOK, Known, CheckMasterLock, Released
  <2>4. /\ \A o \in Monitors \ {m} : todo'[o] = todo[o]
        /\ todo'[m] = todo[m] \ {s}
        /\ UNCHANGED <<pc, masterlock_target>>
        /\ pc[m] = "masterlock"
    BY ZenonT(120) DEF Inv, TypeOK, CheckMasterLock
  <2> QED
    BY <2>1, <2>2, <2>3, <2>4, SMTT(120) DEF Inv, MarkInv
<1> QED
    BY <1>1, <1>2, <1>3, <1>4, <1>5, <1>6, ZenonT(120) DEF Inv

(* The end of the lock handling of the primary keeps the invariant.         *)
LEMMA PrimaryEndsInv ==
    ASSUME Inv, NEW m \in Monitors, PrimaryEnds(m)
    PROVE  Inv'
<1> USE LocksAssumption
<1>1. TypeOK'
    BY SMTT(120) DEF Inv, TypeOK, LockStatus, PrimaryEnds, ProcessStateChanges, monitor_vars, server_vars
<1>2. AliveInv'
    BY ZenonT(120) DEF Inv, TypeOK, AliveInv, PrimaryEnds, ProcessStateChanges, monitor_vars, server_vars
<1>3. Known'
    BY SMTT(120) DEF Inv, TypeOK, AliveInv, Known, PrimaryEnds, ProcessStateChanges, monitor_vars, server_vars
<1>4. MajorityInv'
    BY SMTT(120) DEF Inv, TypeOK, AliveInv, MajorityInv, PrimaryEnds, ProcessStateChanges, monitor_vars, server_vars
<1>5. ReleaseInv'
    BY SMTT(120) DEF Inv, TypeOK, AliveInv, Known, ReleaseInv, MarkInv, PrimaryEnds, ProcessStateChanges, monitor_vars, server_vars
<1>6. MarkInv'
  <2>1. pc' \in [Monitors -> {"idle", "update", "acquire", "release", "roles", "masterlock", "operate"}]
        /\ pc'[m] \in {"idle", "operate"}
        /\ \A o \in Monitors \ {m} : pc'[o] = pc[o] /\ masterlock_target'[o] = masterlock_target[o]
    BY ZenonT(120) DEF Inv, TypeOK, PrimaryEnds, ProcessStateChanges
  <2>2. master_owner' = master_owner /\ todo' = todo /\ pc[m] = "masterlock" /\ todo[m] = {}
    BY ZenonT(120) DEF PrimaryEnds, monitor_vars, server_vars
  <2> QED
    BY <2>1, <2>2, SMTT(120) DEF Inv, MarkInv
<1> QED
    BY <1>1, <1>2, <1>3, <1>4, <1>5, <1>6, ZenonT(120) DEF Inv

(* The end of the operations keeps the invariant.                           *)
LEMMA OperationsEndInv ==
    ASSUME Inv, NEW m \in Monitors, OperationsEnd(m)
    PROVE  Inv'
<1> USE LocksAssumption
<1>1. TypeOK'
  <2>1. failcount + 1 \in 0..failcount + 1
    BY SMTT(120)
  <2>2. cluster_operation_disable_timer' \in [Monitors -> 0..failcount + 1]
    BY <2>1, ZenonT(120) DEF Inv, TypeOK, OperationsEnd, delay_auto_cluster_ops
  <2> QED
    BY <2>2, ZenonT(120) DEF Inv, TypeOK, OperationsEnd, monitor_vars, server_vars
<1>2. AliveInv'
    BY ZenonT(120) DEF Inv, TypeOK, AliveInv, OperationsEnd, delay_auto_cluster_ops, monitor_vars, server_vars
<1>3. Known'
    BY SMTT(120) DEF Inv, TypeOK, AliveInv, Known, OperationsEnd, delay_auto_cluster_ops, monitor_vars, server_vars
<1>4. MajorityInv'
    BY SMTT(120) DEF Inv, TypeOK, AliveInv, MajorityInv, OperationsEnd, delay_auto_cluster_ops, monitor_vars, server_vars
<1>5. ReleaseInv'
    BY SMTT(120) DEF Inv, TypeOK, AliveInv, Known, ReleaseInv, MarkInv, OperationsEnd, delay_auto_cluster_ops, monitor_vars, server_vars
<1>6. MarkInv'
    BY SMTT(120) DEF Inv, TypeOK, AliveInv, Known, ReleaseInv, MarkInv, OperationsEnd, delay_auto_cluster_ops, monitor_vars, server_vars
<1> QED
    BY <1>1, <1>2, <1>3, <1>4, <1>5, <1>6, ZenonT(120) DEF Inv

(* A lost connection keeps the invariant.                                   *)
LEMMA ConnectionLostInv ==
    ASSUME Inv, NEW m \in Monitors, NEW s \in Servers, ConnectionLost(m, s)
    PROVE  Inv'
<1> USE LocksAssumption
<1>1. TypeOK'
    BY SMTT(120) DEF Inv, TypeOK, LockStatus, ConnectionLost, Fault, Disowned, monitor_vars, server_vars
<1>2. AliveInv'
    BY ZenonT(120) DEF Inv, TypeOK, AliveInv, ConnectionLost, Fault, Disowned, monitor_vars, server_vars
<1>3. Known'
    BY SMTT(120) DEF Inv, TypeOK, AliveInv, Known, ConnectionLost, Fault, Disowned, monitor_vars, server_vars
<1>4. MajorityInv'
    BY ZenonT(120) DEF Inv, TypeOK, AliveInv, MajorityInv, ConnectionLost, Fault, Disowned, monitor_vars, server_vars
<1>5. ReleaseInv'
    BY SMTT(120) DEF Inv, TypeOK, AliveInv, Known, ReleaseInv, MarkInv, ConnectionLost, Fault, Disowned, monitor_vars, server_vars
<1>6. MarkInv'
    BY SMTT(120) DEF Inv, TypeOK, AliveInv, Known, ReleaseInv, MarkInv, ConnectionLost, Fault, Disowned, monitor_vars, server_vars
<1> QED
    BY <1>1, <1>2, <1>3, <1>4, <1>5, <1>6, ZenonT(120) DEF Inv

(* The end of a lost connection in the server keeps the invariant.          *)
LEMMA ServerNoticesInv ==
    ASSUME Inv, NEW s \in Servers, ServerNotices(s)
    PROVE  Inv'
<1> USE LocksAssumption
<1>1. TypeOK'
    BY ZenonT(120) DEF Inv, TypeOK, LockStatus, ServerNotices, monitor_vars, server_vars
<1>2. AliveInv'
    BY ZenonT(120) DEF Inv, TypeOK, AliveInv, ServerNotices, monitor_vars, server_vars
<1>3. Known'
    BY SMTT(120) DEF Inv, TypeOK, AliveInv, Known, ServerNotices, monitor_vars, server_vars
<1>4. MajorityInv'
    BY ZenonT(120) DEF Inv, TypeOK, AliveInv, MajorityInv, ServerNotices, monitor_vars, server_vars
<1>5. ReleaseInv'
    BY SMTT(120) DEF Inv, TypeOK, AliveInv, Known, ReleaseInv, MarkInv, ServerNotices, monitor_vars, server_vars
<1>6. MarkInv'
    BY SMTT(120) DEF Inv, TypeOK, AliveInv, Known, ReleaseInv, MarkInv, ServerNotices, monitor_vars, server_vars
<1> QED
    BY <1>1, <1>2, <1>3, <1>4, <1>5, <1>6, ZenonT(120) DEF Inv

(* A restart of a server keeps the invariant.                               *)
LEMMA ServerRestartsInv ==
    ASSUME Inv, NEW s \in Servers, ServerRestarts(s)
    PROVE  Inv'
<1> USE LocksAssumption
<1>1. TypeOK'
    BY SMTT(120) DEF Inv, TypeOK, LockStatus, ServerRestarts, Fault, monitor_vars, server_vars
<1>2. AliveInv'
    BY ZenonT(120) DEF Inv, TypeOK, AliveInv, ServerRestarts, Fault, monitor_vars, server_vars
<1>3. Known'
    BY SMTT(120) DEF Inv, TypeOK, AliveInv, Known, ServerRestarts, Fault, monitor_vars, server_vars
<1>4. MajorityInv'
    BY ZenonT(120) DEF Inv, TypeOK, AliveInv, MajorityInv, ServerRestarts, Fault, monitor_vars, server_vars
<1>5. ReleaseInv'
    BY SMTT(120) DEF Inv, TypeOK, AliveInv, Known, ReleaseInv, MarkInv, ServerRestarts, Fault, monitor_vars, server_vars
<1>6. MarkInv'
    BY SMTT(120) DEF Inv, TypeOK, AliveInv, Known, ReleaseInv, MarkInv, ServerRestarts, Fault, monitor_vars, server_vars
<1> QED
    BY <1>1, <1>2, <1>3, <1>4, <1>5, <1>6, ZenonT(120) DEF Inv

(* A crash keeps the invariant.                                             *)
LEMMA MonitorCrashesInv ==
    ASSUME Inv, NEW m \in Monitors, MonitorCrashes(m)
    PROVE  Inv'
<1> USE LocksAssumption
<1>1. TypeOK'
    BY SMTT(120) DEF Inv, TypeOK, LockStatus, MonitorCrashes, Disconnect, Fault, Disowned, monitor_vars, server_vars
<1>2. AliveInv'
    BY ZenonT(120) DEF Inv, TypeOK, AliveInv, MonitorCrashes, Disconnect, Fault, Disowned, monitor_vars, server_vars
<1>3. Known'
    BY SMTT(120) DEF Inv, TypeOK, AliveInv, Known, MonitorCrashes, Disconnect, Fault, Disowned, monitor_vars, server_vars
<1>4. MajorityInv'
    BY ZenonT(120) DEF Inv, TypeOK, AliveInv, MajorityInv, MonitorCrashes, Disconnect, Fault, Disowned, monitor_vars, server_vars
<1>5. ReleaseInv'
    BY SMTT(120) DEF Inv, TypeOK, AliveInv, Known, ReleaseInv, MarkInv, MonitorCrashes, Disconnect, Fault, Disowned, monitor_vars, server_vars
<1>6. MarkInv'
    BY SMTT(120) DEF Inv, TypeOK, AliveInv, Known, ReleaseInv, MarkInv, MonitorCrashes, Disconnect, Fault, Disowned, monitor_vars, server_vars
<1> QED
    BY <1>1, <1>2, <1>3, <1>4, <1>5, <1>6, ZenonT(120) DEF Inv

(* A stop keeps the invariant.                                              *)
LEMMA post_loopInv ==
    ASSUME Inv, NEW m \in Monitors, post_loop(m)
    PROVE  Inv'
<1> USE LocksAssumption
<1>1. TypeOK'
    BY SMTT(120) DEF Inv, TypeOK, LockStatus, post_loop, Disconnect, Fault, Disowned, monitor_vars, server_vars
<1>2. AliveInv'
    BY ZenonT(120) DEF Inv, TypeOK, AliveInv, post_loop, Disconnect, Fault, Disowned, monitor_vars, server_vars
<1>3. Known'
    BY SMTT(120) DEF Inv, TypeOK, AliveInv, Known, post_loop, Disconnect, Fault, Disowned, monitor_vars, server_vars
<1>4. MajorityInv'
    BY ZenonT(120) DEF Inv, TypeOK, AliveInv, MajorityInv, post_loop, Disconnect, Fault, Disowned, monitor_vars, server_vars
<1>5. ReleaseInv'
    BY SMTT(120) DEF Inv, TypeOK, AliveInv, Known, ReleaseInv, MarkInv, post_loop, Disconnect, Fault, Disowned, monitor_vars, server_vars
<1>6. MarkInv'
    BY SMTT(120) DEF Inv, TypeOK, AliveInv, Known, ReleaseInv, MarkInv, post_loop, Disconnect, Fault, Disowned, monitor_vars, server_vars
<1> QED
    BY <1>1, <1>2, <1>3, <1>4, <1>5, <1>6, ZenonT(120) DEF Inv

(* A start keeps the invariant.                                             *)
LEMMA pre_loopInv ==
    ASSUME Inv, NEW m \in Monitors, pre_loop(m)
    PROVE  Inv'
<1> USE LocksAssumption
<1>1. TypeOK'
    BY ZenonT(120) DEF Inv, TypeOK, LockStatus, pre_loop, monitor_vars, server_vars
<1>2. AliveInv'
    BY ZenonT(120) DEF Inv, TypeOK, AliveInv, pre_loop, monitor_vars, server_vars
<1>3. Known'
    BY SMTT(120) DEF Inv, TypeOK, AliveInv, Known, pre_loop, monitor_vars, server_vars
<1>4. MajorityInv'
    BY ZenonT(120) DEF Inv, TypeOK, AliveInv, MajorityInv, pre_loop, monitor_vars, server_vars
<1>5. ReleaseInv'
    BY SMTT(120) DEF Inv, TypeOK, AliveInv, Known, ReleaseInv, MarkInv, pre_loop, monitor_vars, server_vars
<1>6. MarkInv'
    BY SMTT(120) DEF Inv, TypeOK, AliveInv, Known, ReleaseInv, MarkInv, pre_loop, monitor_vars, server_vars
<1> QED
    BY <1>1, <1>2, <1>3, <1>4, <1>5, <1>6, ZenonT(120) DEF Inv

(* Every step keeps the invariant.                                         *)
LEMMA NextInv == Inv /\ [Next]_vars => Inv'
<1> SUFFICES ASSUME Inv, [Next]_vars PROVE Inv'
    BY ZenonT(120)
<1>1. ASSUME NEW m \in Monitors, Tick(m) PROVE Inv'
    BY <1>1, TickBeginInv, UpdateServerInv, CountLocksInv, GetServerLockInv, AcquireDoneInv, ReleaseServerLockInv,
       ReleaseMasterLockInv, ReleaseDoneInv, AssignRolesInv, CheckMasterLockInv, PrimaryEndsInv, OperationsEndInv, SMTT(120)
       DEF Tick
<1>2. ASSUME NEW m \in Monitors, NEW s \in Servers, UpdateServerFails(m, s) \/ ConnectionLost(m, s) PROVE Inv'
    BY <1>2, UpdateServerFailsInv, ConnectionLostInv, ZenonT(120)
<1>3. ASSUME NEW m \in Monitors, MonitorCrashes(m) \/ post_loop(m) \/ pre_loop(m) PROVE Inv'
    BY <1>3, MonitorCrashesInv, post_loopInv, pre_loopInv, ZenonT(120)
<1>4. ASSUME NEW s \in Servers, ServerNotices(s) \/ ServerRestarts(s) PROVE Inv'
    BY <1>4, ServerNoticesInv, ServerRestartsInv, ZenonT(120)
<1>5. CASE UNCHANGED vars
    BY <1>5, SMTT(120) DEF Inv, TypeOK, AliveInv, Known, MajorityInv, ReleaseInv, MarkInv, vars, monitor_vars, server_vars
<1> QED
    BY <1>1, <1>2, <1>3, <1>4, <1>5, ZenonT(120) DEF Next

(* With the majority of all servers, two monitors that both count a        *)
(* majority count a common server, and its lock has one owner.             *)
LEMMA OwnersAgree ==
    ASSUME Inv, ~majority_of_running
    PROVE  OneFreshOwner
<1> SUFFICES ASSUME NEW m \in Monitors, NEW o \in Monitors, FreshOwner(m), FreshOwner(o)
             PROVE  m = o
    BY ZenonT(120) DEF OneFreshOwner
<1> DEFINE M == With(m_serverlock[m], "OWNED_SELF")
           O == With(m_serverlock[o], "OWNED_SELF")
<1>1. /\ IsFiniteSet(Servers)
      /\ Cardinality(Servers) \in Nat
    BY LocksAssumption, FS_CardinalityType, ZenonT(120)
<1>2. M \subseteq Servers /\ O \subseteq Servers
    BY ZenonT(120) DEF With
<1>3. Cardinality(M) \in Nat /\ Cardinality(O) \in Nat
    BY <1>1, <1>2, FS_Subset, FS_CardinalityType, ZenonT(120)
<1>4. /\ Cardinality(M) >= Cardinality(Servers) \div 2 + 1
      /\ Cardinality(O) >= Cardinality(Servers) \div 2 + 1
  <2>1. MajorityOf(m_serverlock[m], running[m]) /\ MajorityOf(m_serverlock[o], running[o])
    BY ZenonT(120) DEF Inv, MajorityInv, FreshOwner
  <2> QED
    BY <2>1, ZenonT(120) DEF MajorityOf
<1>5. Cardinality(M) + Cardinality(O) > Cardinality(Servers)
    BY <1>1, <1>3, <1>4, SMTT(120)
<1>6. PICK s \in M : s \in O
  <2>1. M \cap O # {}
    BY <1>1, <1>2, <1>5, FS_MajoritiesIntersect, ZenonT(120)
  <2> QED
    BY <2>1, ZenonT(120)
<1>7. server_owner[s] = m /\ server_owner[s] = o
    BY <1>2, <1>6, ZenonT(120) DEF Inv, Known, FreshOwner, With
<1> QED
    BY <1>7, ZenonT(120)

(* For every number of monitors, servers and faults, a secondary keeps no  *)
(* lock after its tick (release_all_locks()).                              *)
THEOREM LocksSafe == Safety => [](TypeOK /\ SecondaryHoldsNoLock)
<1>1. Inv => TypeOK /\ SecondaryHoldsNoLock
    BY ZenonT(120) DEF Inv, ReleaseInv, SecondaryHoldsNoLock
<1> QED
    BY <1>1, InitInv, NextInv, PTL DEF Safety

(* For every number of monitors, servers and faults, a monitor marks one   *)
(* server only after its tick (check_acquire_masterlock()), whatever the   *)
(* topology made the primary server before.                                *)
THEOREM MarksUnique == Safety => []OneMasterMark
<1>1. Inv => OneMasterMark
    BY ZenonT(120) DEF Inv, MarkInv, OneMasterMark
<1> QED
    BY <1>1, InitInv, NextInv, PTL DEF Safety

(* With the majority of all servers (required_for_majority), two monitors  *)
(* believe to be the primary only while one of them has lost a connection  *)
(* since its last tick.                                                    *)
THEOREM OneOwner ==
    ASSUME ~majority_of_running
    PROVE  Safety => []OneFreshOwner
<1>1. Inv => OneFreshOwner
    BY OwnersAgree, ZenonT(120)
<1> QED
    BY <1>1, InitInv, NextInv, PTL DEF Safety
===============================================================================
