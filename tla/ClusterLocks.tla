----------------------------- MODULE ClusterLocks -----------------------------
(***************************************************************************)
(* Cooperative monitoring: the MariaDB monitors of several MaxScales take  *)
(* locks on the servers they monitor, and the one that has a majority is   *)
(* the primary, which may modify the cluster (mariadbmon/mariadbmon.cc,    *)
(* cluster_discovery.cc, mariadbserver.cc).                                *)
(*                                                                         *)
(* A monitor runs ticks.  In a tick it queries its servers in parallel on  *)
(* a thread pool, counts the locks, takes the free ones in parallel or     *)
(* gives its own back, chooses the primary server, marks it with the       *)
(* second lock and then runs operations on the cluster.  A query of one    *)
(* server is one step.  The locks belong to connections: a lock whose      *)
(* connection was lost is Dead until the server notices.                   *)
(***************************************************************************)
EXTENDS Integers, FiniteSets

CONSTANTS Monitors, Servers,
          Free, Dead,            \* a lock nobody has, or a lost connection has
          NoServer,              \* no primary server is known
          Candidates,            \* servers that the replication topology can make the primary server
          failcount,             \* monitor setting
          majority_of_running,   \* setting cooperative_monitoring_locks: majority of the running servers or of all
          MaxLag,                \* ticks another monitor can begin between two ticks of a monitor
          MaxFaults              \* bound: lost connections, failed connects, restarts, crashes, stops

ASSUME LocksAssumption ==
    /\ IsFiniteSet(Servers)
    /\ Servers # {}
    /\ Free \notin Monitors /\ Dead \notin Monitors /\ Free # Dead
    /\ NoServer \notin Servers
    /\ Candidates \subseteq Servers
    /\ failcount \in Nat \ {0}
    /\ majority_of_running \in BOOLEAN
    /\ MaxLag \in Nat \ {0}
    /\ MaxFaults \in Nat

VARIABLES alive,               \* Monitor -> it is running
          connected,           \* Monitor -> servers it has a working connection to
          running,             \* Monitor -> servers with status [Running]
          m_serverlock,        \* Monitor -> Server -> last known status of the normal lock
          m_masterlock,        \* Monitor -> Server -> last known status of the primary lock
          have_lock_majority,  \* Monitor -> it is the primary monitor
          cluster_operation_disable_timer,  \* Monitor -> ticks until operations are allowed
          masterlock_target,   \* Monitor -> server that check_acquire_masterlock() marks, NoServer outside of it
          pc,                  \* Monitor -> where its tick is
          todo,                \* Monitor -> servers this stage of the tick has still to query
          server_owner,        \* Server -> who has the normal lock
          master_owner,        \* Server -> who has the primary lock
          lag,                 \* Monitor -> ticks others have begun since its last one
          faults               \* bounded by MaxFaults

monitor_vars == <<running, m_serverlock, m_masterlock, have_lock_majority,
                  cluster_operation_disable_timer, masterlock_target, pc, todo>>
server_vars == <<server_owner, master_owner>>
vars == <<alive, connected, monitor_vars, server_vars, lag, faults>>

LockStatus == {"UNKNOWN", "FREE", "OWNED_SELF", "OWNED_OTHER"}

Init ==
    /\ alive = [m \in Monitors |-> TRUE]
    /\ connected = [m \in Monitors |-> {}]
    /\ running = [m \in Monitors |-> {}]
    /\ m_serverlock = [m \in Monitors |-> [s \in Servers |-> "UNKNOWN"]]
    /\ m_masterlock = [m \in Monitors |-> [s \in Servers |-> "UNKNOWN"]]
    /\ have_lock_majority = [m \in Monitors |-> FALSE]
    /\ cluster_operation_disable_timer = [m \in Monitors |-> 0]
    /\ masterlock_target = [m \in Monitors |-> NoServer]
    /\ pc = [m \in Monitors |-> "idle"]
    /\ todo = [m \in Monitors |-> {}]
    /\ server_owner = [s \in Servers |-> Free]
    /\ master_owner = [s \in Servers |-> Free]
    /\ lag = [m \in Monitors |-> 0]
    /\ faults = 0
-----------------------------------------------------------------------------
(* MariaDBMonitor::tick()                                                  *)

(* Monitors have similar intervals: none begins MaxLag + 1 ticks while     *)
(* another one is in a tick or between two.                                *)
TickBegin(m) ==
    /\ alive[m]
    /\ pc[m] = "idle"
    /\ \A o \in Monitors \ {m} : alive[o] => lag[o] < MaxLag
    /\ lag' = [o \in Monitors |-> IF o = m \/ ~alive[o] THEN 0 ELSE lag[o] + 1]
    /\ pc' = [pc EXCEPT ![m] = "update"]
    /\ todo' = [todo EXCEPT ![m] = Servers]
    /\ UNCHANGED <<alive, connected, running, m_serverlock, m_masterlock, have_lock_majority,
                   cluster_operation_disable_timer, masterlock_target, server_vars, faults>>

(* The answer of IS_USED_LOCK() to a monitor.                              *)
Seen(m, owner) == IF owner = Free THEN "FREE" ELSE IF owner = m THEN "OWNED_SELF" ELSE "OWNED_OTHER"

SetLocks(m, s, server_status, master_status) ==
    /\ m_serverlock' = [m_serverlock EXCEPT ![m][s] = server_status]
    /\ m_masterlock' = [m_masterlock EXCEPT ![m][s] = master_status]

(* update_server() with a connection, an old or a new one: the status of   *)
(* both locks is fetched.                                                  *)
UpdateServer(m, s) ==
    /\ pc[m] = "update"
    /\ s \in todo[m]
    /\ connected' = [connected EXCEPT ![m] = @ \cup {s}]
    /\ running' = [running EXCEPT ![m] = @ \cup {s}]
    /\ SetLocks(m, s, Seen(m, server_owner[s]), Seen(m, master_owner[s]))
    /\ todo' = [todo EXCEPT ![m] = @ \ {s}]
    /\ UNCHANGED <<alive, have_lock_majority, cluster_operation_disable_timer, masterlock_target, pc, server_vars, lag, faults>>

(* The connection is lost, by the monitor's fault or the network's: the    *)
(* server keeps the locks for the time being.                              *)
Disowned(m, owners, servers) ==
    [s \in Servers |-> IF s \in servers /\ owners[s] = m THEN Dead ELSE owners[s]]

(* update_server() without: no connection can be made, or the one made is  *)
(* lost before the locks are fetched and the server still counts as        *)
(* running.                                                                *)
UpdateServerFails(m, s) ==
    /\ pc[m] = "update"
    /\ s \in todo[m]
    /\ faults < MaxFaults
    /\ faults' = faults + 1
    /\ \/ running' = [running EXCEPT ![m] = @ \ {s}]
       \/ running' = [running EXCEPT ![m] = @ \cup {s}]
    /\ connected' = [connected EXCEPT ![m] = @ \ {s}]
    /\ server_owner' = Disowned(m, server_owner, {s})
    /\ master_owner' = Disowned(m, master_owner, {s})
    /\ SetLocks(m, s, "UNKNOWN", "UNKNOWN")
    /\ todo' = [todo EXCEPT ![m] = @ \ {s}]
    /\ UNCHANGED <<alive, have_lock_majority, cluster_operation_disable_timer, masterlock_target, pc, lag>>
-----------------------------------------------------------------------------
(* update_cluster_lock_status()                                            *)

With(locks, status) == {s \in Servers : locks[s] = status}

required_for_majorityHalf(m) ==
    IF majority_of_running THEN Cardinality(running[m]) \div 2 ELSE Cardinality(Servers) \div 2

required_for_majority(m) ==
    IF majority_of_running THEN Cardinality(running[m]) \div 2 + 1 ELSE Cardinality(Servers) \div 2 + 1

server_locks_held(m) == Cardinality(With(m_serverlock[m], "OWNED_SELF"))
server_locks_free(m) == Cardinality(With(m_serverlock[m], "FREE"))

delay_auto_cluster_opsNone(m) == UNCHANGED cluster_operation_disable_timer

delay_auto_cluster_ops(m) ==
    cluster_operation_disable_timer' = [cluster_operation_disable_timer EXCEPT ![m] = failcount + 1]

(* The majority is decided.  A monitor that gains it delays its            *)
(* operations, one that does not have it gives back what it has.           *)
Decide(m) ==
    IF server_locks_held(m) >= required_for_majority(m)
    THEN /\ have_lock_majority' = [have_lock_majority EXCEPT ![m] = TRUE]
         /\ IF have_lock_majority[m]
            THEN UNCHANGED cluster_operation_disable_timer
            ELSE delay_auto_cluster_ops(m)
         /\ pc' = [pc EXCEPT ![m] = "roles"]
         /\ UNCHANGED todo
    ELSE /\ pc' = [pc EXCEPT ![m] = "release"]
         /\ todo' = [todo EXCEPT ![m] = {s \in Servers : "OWNED_SELF" \in {m_serverlock[m][s], m_masterlock[m][s]}}]
         /\ UNCHANGED <<have_lock_majority, cluster_operation_disable_timer>>

CountLocksOver(m, try_acquire_locks_this_tick) ==
    /\ pc[m] = "update"
    /\ todo[m] = {}
    /\ IF /\ server_locks_free(m) > 0
          /\ server_locks_held(m) + server_locks_free(m) > required_for_majority(m)
          /\ have_lock_majority[m] \/ try_acquire_locks_this_tick
       THEN /\ pc' = [pc EXCEPT ![m] = "acquire"]
            /\ todo' = [todo EXCEPT ![m] = With(m_serverlock[m], "FREE")]
            /\ UNCHANGED <<have_lock_majority, cluster_operation_disable_timer>>
       ELSE Decide(m)
    /\ UNCHANGED <<alive, connected, running, m_serverlock, m_masterlock, masterlock_target, server_vars, lag, faults>>

(* The locks are counted.  get_free_locks() is called if a majority can be *)
(* reached and this is the primary or its time for an attempt has come:    *)
(* the attempts of a secondary are at random times.                        *)
CountLocks(m, try_acquire_locks_this_tick) ==
    /\ pc[m] = "update"
    /\ todo[m] = {}
    /\ IF /\ server_locks_free(m) > 0
          /\ server_locks_held(m) + server_locks_free(m) >= required_for_majority(m)
          /\ have_lock_majority[m] \/ try_acquire_locks_this_tick
       THEN /\ pc' = [pc EXCEPT ![m] = "acquire"]
            /\ todo' = [todo EXCEPT ![m] = With(m_serverlock[m], "FREE")]
            /\ UNCHANGED <<have_lock_majority, cluster_operation_disable_timer>>
       ELSE Decide(m)
    /\ UNCHANGED <<alive, connected, running, m_serverlock, m_masterlock, masterlock_target, server_vars, lag, faults>>

(* GET_LOCK() with no timeout: the new owner, and the status noted.        *)
Acquired(m, owner) == IF owner = Free THEN m ELSE owner
GetStatus(m, s, owner) ==
    IF s \notin connected[m] THEN "UNKNOWN" ELSE IF owner \in {Free, m} THEN "OWNED_SELF" ELSE "OWNED_OTHER"

GetServerLock(m, s) ==
    /\ pc[m] = "acquire"
    /\ s \in todo[m]
    /\ m_serverlock' = [m_serverlock EXCEPT ![m][s] = GetStatus(m, s, server_owner[s])]
    /\ server_owner' = [server_owner EXCEPT ![s] = IF s \in connected[m] THEN Acquired(m, @) ELSE @]
    /\ todo' = [todo EXCEPT ![m] = @ \ {s}]
    /\ UNCHANGED <<alive, connected, running, m_masterlock, have_lock_majority, cluster_operation_disable_timer,
                   masterlock_target, pc, master_owner, lag, faults>>

AcquireDone(m) ==
    /\ pc[m] = "acquire"
    /\ todo[m] = {}
    /\ Decide(m)
    /\ UNCHANGED <<alive, connected, running, m_serverlock, m_masterlock, masterlock_target, server_vars, lag, faults>>

(* RELEASE_LOCK(): the new owner, and the status noted.                    *)
Released(m, owner) == IF owner = m THEN Free ELSE owner
ReleaseStatus(m, s, owner) ==
    IF s \notin connected[m] THEN "UNKNOWN" ELSE IF owner \in {Free, m} THEN "FREE" ELSE "OWNED_OTHER"

ReleaseServerLockOnly(m, s) ==
    /\ pc[m] = "release"
    /\ s \in todo[m]
    /\ m_serverlock[m][s] = "OWNED_SELF"
    /\ m_serverlock' = [m_serverlock EXCEPT ![m][s] = ReleaseStatus(m, s, server_owner[s])]
    /\ server_owner' = [server_owner EXCEPT ![s] = IF s \in connected[m] THEN Released(m, @) ELSE @]
    /\ todo' = [todo EXCEPT ![m] = @ \ {s}]
    /\ UNCHANGED <<alive, connected, running, m_masterlock, have_lock_majority, cluster_operation_disable_timer,
                   masterlock_target, pc, master_owner, lag, faults>>

(* release_all_locks() of a server: the normal lock goes first.            *)
ReleaseServerLock(m, s) ==
    /\ pc[m] = "release"
    /\ s \in todo[m]
    /\ m_serverlock[m][s] = "OWNED_SELF"
    /\ m_serverlock' = [m_serverlock EXCEPT ![m][s] = ReleaseStatus(m, s, server_owner[s])]
    /\ server_owner' = [server_owner EXCEPT ![s] = IF s \in connected[m] THEN Released(m, @) ELSE @]
    /\ todo' = [todo EXCEPT ![m] = IF m_masterlock[m][s] = "OWNED_SELF" THEN @ ELSE @ \ {s}]
    /\ UNCHANGED <<alive, connected, running, m_masterlock, have_lock_majority, cluster_operation_disable_timer,
                   masterlock_target, pc, master_owner, lag, faults>>

ReleaseMasterLock(m, s) ==
    /\ pc[m] = "release"
    /\ s \in todo[m]
    /\ m_serverlock[m][s] # "OWNED_SELF"
    /\ m_masterlock' = [m_masterlock EXCEPT ![m][s] = ReleaseStatus(m, s, master_owner[s])]
    /\ master_owner' = [master_owner EXCEPT ![s] = IF s \in connected[m] THEN Released(m, @) ELSE @]
    /\ todo' = [todo EXCEPT ![m] = @ \ {s}]
    /\ UNCHANGED <<alive, connected, running, m_serverlock, have_lock_majority, cluster_operation_disable_timer,
                   masterlock_target, pc, server_owner, lag, faults>>

(* process_state_changes(): the timer is decremented first.                *)
ProcessStateChanges(m, lock_status_is_ok) ==
    LET t == cluster_operation_disable_timer[m]
        timer == IF t > 0 THEN t - 1 ELSE t
        can_perform_cluster_ops == timer <= 0 /\ lock_status_is_ok
    IN /\ cluster_operation_disable_timer' = [cluster_operation_disable_timer EXCEPT ![m] = timer]
       /\ pc' = [pc EXCEPT ![m] = IF can_perform_cluster_ops THEN "operate" ELSE "idle"]

(* Nothing in the rest of the tick concerns the locks of a secondary.      *)
ReleaseDone(m) ==
    /\ pc[m] = "release"
    /\ todo[m] = {}
    /\ have_lock_majority' = [have_lock_majority EXCEPT ![m] = FALSE]
    /\ ProcessStateChanges(m, FALSE)
    /\ UNCHANGED <<alive, connected, running, m_serverlock, m_masterlock, masterlock_target, todo, server_vars,
                   lag, faults>>
-----------------------------------------------------------------------------
(* The rest of the tick of the primary.                                    *)

(* update_topology() and assign_server_roles() choose the server with      *)
(* status [Master] by the replication topology: here any running candidate *)
(* or none.  check_acquire_masterlock() is for the primary only.              *)
AssignRoles(m, s) ==
    /\ pc[m] = "roles"
    /\ s \in (running[m] \cap Candidates) \cup {NoServer}
    /\ masterlock_target' = [masterlock_target EXCEPT ![m] = s]
    /\ pc' = [pc EXCEPT ![m] = "masterlock"]
    /\ todo' = [todo EXCEPT ![m] = {t \in Servers : m_masterlock[m][t] = IF t = s THEN "FREE" ELSE "OWNED_SELF"}]
    /\ UNCHANGED <<alive, connected, running, m_serverlock, m_masterlock, have_lock_majority,
                   cluster_operation_disable_timer, server_vars, lag, faults>>

CheckMasterLockKeep(m, s) ==
    /\ pc[m] = "masterlock"
    /\ s \in todo[m]
    /\ IF s # masterlock_target[m]
       THEN UNCHANGED <<m_masterlock, master_owner>>
       ELSE /\ m_masterlock' = [m_masterlock EXCEPT ![m][s] = GetStatus(m, s, master_owner[s])]
            /\ master_owner' = [master_owner EXCEPT ![s] = IF s \in connected[m] THEN Acquired(m, @) ELSE @]
    /\ todo' = [todo EXCEPT ![m] = @ \ {s}]
    /\ UNCHANGED <<alive, connected, running, m_serverlock, have_lock_majority, cluster_operation_disable_timer,
                   masterlock_target, pc, server_owner, lag, faults>>

(* The lock goes to the primary server and is given back on all others.    *)
CheckMasterLock(m, s) ==
    /\ pc[m] = "masterlock"
    /\ s \in todo[m]
    /\ IF s # masterlock_target[m]
       THEN /\ m_masterlock' = [m_masterlock EXCEPT ![m][s] = ReleaseStatus(m, s, master_owner[s])]
            /\ master_owner' = [master_owner EXCEPT ![s] = IF s \in connected[m] THEN Released(m, @) ELSE @]
       ELSE /\ m_masterlock' = [m_masterlock EXCEPT ![m][s] = GetStatus(m, s, master_owner[s])]
            /\ master_owner' = [master_owner EXCEPT ![s] = IF s \in connected[m] THEN Acquired(m, @) ELSE @]
    /\ todo' = [todo EXCEPT ![m] = @ \ {s}]
    /\ UNCHANGED <<alive, connected, running, m_serverlock, have_lock_majority, cluster_operation_disable_timer,
                   masterlock_target, pc, server_owner, lag, faults>>

PrimaryEnds(m) ==
    /\ pc[m] = "masterlock"
    /\ todo[m] = {}
    /\ masterlock_target' = [masterlock_target EXCEPT ![m] = NoServer]
    /\ ProcessStateChanges(m, have_lock_majority[m])
    /\ UNCHANGED <<alive, connected, running, m_serverlock, m_masterlock, have_lock_majority, todo,
                   server_vars, lag, faults>>

(* The automatic operations, of which some delay the next ones.            *)
OperationsEnd(m) ==
    /\ pc[m] = "operate"
    /\ delay_auto_cluster_ops(m) \/ UNCHANGED cluster_operation_disable_timer
    /\ pc' = [pc EXCEPT ![m] = "idle"]
    /\ UNCHANGED <<alive, connected, running, m_serverlock, m_masterlock, have_lock_majority, masterlock_target, todo,
                   server_vars, lag, faults>>
-----------------------------------------------------------------------------
(* Connections, servers and monitors fail and come back.                   *)

Fault == faults < MaxFaults /\ faults' = faults + 1

ConnectionLost(m, s) ==
    /\ s \in connected[m]
    /\ Fault
    /\ connected' = [connected EXCEPT ![m] = @ \ {s}]
    /\ server_owner' = Disowned(m, server_owner, {s})
    /\ master_owner' = Disowned(m, master_owner, {s})
    /\ UNCHANGED <<alive, monitor_vars, lag>>

(* The server ends a lost connection and frees its locks.                  *)
ServerNotices(s) ==
    /\ Dead \in {server_owner[s], master_owner[s]}
    /\ server_owner' = [server_owner EXCEPT ![s] = IF @ = Dead THEN Free ELSE @]
    /\ master_owner' = [master_owner EXCEPT ![s] = IF @ = Dead THEN Free ELSE @]
    /\ UNCHANGED <<alive, connected, monitor_vars, lag, faults>>

ServerRestarts(s) ==
    /\ Fault
    /\ connected' = [m \in Monitors |-> connected[m] \ {s}]
    /\ server_owner' = [server_owner EXCEPT ![s] = Free]
    /\ master_owner' = [master_owner EXCEPT ![s] = Free]
    /\ UNCHANGED <<alive, monitor_vars, lag>>

Disconnect(m) ==
    /\ alive[m]
    /\ Fault
    /\ alive' = [alive EXCEPT ![m] = FALSE]
    /\ connected' = [connected EXCEPT ![m] = {}]
    /\ server_owner' = Disowned(m, server_owner, Servers)
    /\ master_owner' = Disowned(m, master_owner, Servers)
    /\ lag' = [lag EXCEPT ![m] = 0]

(* The MaxScale crashes: what the monitor knew is gone.                    *)
MonitorCrashes(m) ==
    /\ Disconnect(m)
    /\ running' = [running EXCEPT ![m] = {}]
    /\ m_serverlock' = [m_serverlock EXCEPT ![m] = [s \in Servers |-> "UNKNOWN"]]
    /\ m_masterlock' = [m_masterlock EXCEPT ![m] = [s \in Servers |-> "UNKNOWN"]]
    /\ have_lock_majority' = [have_lock_majority EXCEPT ![m] = FALSE]
    /\ cluster_operation_disable_timer' = [cluster_operation_disable_timer EXCEPT ![m] = 0]
    /\ masterlock_target' = [masterlock_target EXCEPT ![m] = NoServer]
    /\ pc' = [pc EXCEPT ![m] = "idle"]
    /\ todo' = [todo EXCEPT ![m] = {}]

(* post_loop(): the monitor is stopped between two ticks, its connections  *)
(* are closed and everything else stays as it is.                          *)
post_loop(m) ==
    /\ pc[m] = "idle"
    /\ Disconnect(m)
    /\ UNCHANGED monitor_vars

(* pre_loop(): the lock information of the monitor is reset, that of its   *)
(* servers and the timer are not.                                          *)
pre_loop(m) ==
    /\ ~alive[m]
    /\ alive' = [alive EXCEPT ![m] = TRUE]
    /\ have_lock_majority' = [have_lock_majority EXCEPT ![m] = FALSE]
    /\ UNCHANGED <<connected, running, m_serverlock, m_masterlock, cluster_operation_disable_timer, masterlock_target,
                   pc, todo, server_vars, lag, faults>>

Tick(m) ==
    \/ TickBegin(m)
    \/ \E s \in Servers : UpdateServer(m, s)
    \/ \E try \in BOOLEAN : CountLocks(m, try)
    \/ \E s \in Servers : GetServerLock(m, s)
    \/ AcquireDone(m)
    \/ \E s \in Servers : ReleaseServerLock(m, s)
    \/ \E s \in Servers : ReleaseMasterLock(m, s)
    \/ ReleaseDone(m)
    \/ \E s \in Servers \cup {NoServer} : AssignRoles(m, s)
    \/ \E s \in Servers : CheckMasterLock(m, s)
    \/ PrimaryEnds(m)
    \/ OperationsEnd(m)

Next ==
    \/ \E m \in Monitors :
           \/ Tick(m)
           \/ \E s \in Servers : UpdateServerFails(m, s) \/ ConnectionLost(m, s)
           \/ MonitorCrashes(m)
           \/ post_loop(m)
           \/ pre_loop(m)
    \/ \E s \in Servers : ServerNotices(s) \/ ServerRestarts(s)

(* A monitor's thread runs, its secondary tries for the locks every five   *)
(* to eight intervals, and a server ends its lost connections in the end.  *)
Fairness ==
    /\ \A m \in Monitors : WF_vars(Tick(m)) /\ SF_vars(CountLocks(m, TRUE))
    /\ \A s \in Servers : WF_vars(ServerNotices(s))

Safety == Init /\ [][Next]_vars
Spec == Safety /\ Fairness
-----------------------------------------------------------------------------
TypeOK ==
    /\ alive \in [Monitors -> BOOLEAN]
    /\ connected \in [Monitors -> SUBSET Servers]
    /\ running \in [Monitors -> SUBSET Servers]
    /\ m_serverlock \in [Monitors -> [Servers -> LockStatus]]
    /\ m_masterlock \in [Monitors -> [Servers -> LockStatus]]
    /\ have_lock_majority \in [Monitors -> BOOLEAN]
    /\ cluster_operation_disable_timer \in [Monitors -> 0..failcount + 1]
    /\ masterlock_target \in [Monitors -> Servers \cup {NoServer}]
    /\ pc \in [Monitors -> {"idle", "update", "acquire", "release", "roles", "masterlock", "operate"}]
    /\ todo \in [Monitors -> SUBSET Servers]
    /\ server_owner \in [Servers -> Monitors \cup {Free, Dead}]
    /\ master_owner \in [Servers -> Monitors \cup {Free, Dead}]
    /\ lag \in [Monitors -> Nat]
    /\ faults \in Nat

(* Two monitors never run automatic operations on the cluster at the same  *)
(* time: the one that gains the majority waits until the other has seen    *)
(* that it lost it.                                                        *)
OneOperator ==
    \A m, o \in Monitors : pc[m] = "operate" /\ pc[o] = "operate" => m = o

(* The monitor has decided in this tick or its last one that it is the     *)
(* primary, and has still the connections of the locks it counted.         *)
FreshOwner(m) ==
    /\ alive[m]
    /\ pc[m] \in {"idle", "roles", "masterlock", "operate"}
    /\ have_lock_majority[m]
    /\ With(m_serverlock[m], "OWNED_SELF") \subseteq connected[m]

(* Two monitors believe to be the primary only while one of them has lost  *)
(* a connection and has not run a tick since.                              *)
OneFreshOwner == \A m, o \in Monitors : FreshOwner(m) /\ FreshOwner(o) => m = o

(* A secondary keeps no lock of either kind after its tick, so that it     *)
(* does not stand in the way of the primary.                               *)
SecondaryHoldsNoLock ==
    \A m \in Monitors : pc[m] = "idle" /\ ~have_lock_majority[m]
        => \A s \in Servers : m \notin {server_owner[s], master_owner[s]}

(* A monitor marks one server only as the primary server for the others.   *)
OneMasterMark ==
    \A m \in Monitors : pc[m] \in {"idle", "operate"}
        => \A s, t \in Servers : master_owner[s] = m /\ master_owner[t] = m => s = t

OnlyAlive(m) == \A o \in Monitors : alive[o] <=> o = m

(* Whatever happened before, the last monitor that is left takes the       *)
(* locks over and goes on running operations on the cluster.               *)
TakesOver == \A m \in Monitors : <>[]OnlyAlive(m) => []<>(pc[m] = "operate")
===============================================================================
