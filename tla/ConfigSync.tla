------------------------------ MODULE ConfigSync ------------------------------
(***************************************************************************)
(* Configuration synchronisation (configmanager.cc and handle_request() of *)
(* resource.cc): nodes that change their configuration through the REST    *)
(* API store every version in one row of the database, and fetch the       *)
(* versions that others have stored.                                       *)
(*                                                                         *)
(* A configuration is a set of objects; a change creates one.  Everything  *)
(* a node does runs in its main worker, so that a request and a sync never *)
(* overlap on a node.  A step ends where another node, a fault or a crash  *)
(* can come in between.  A request has no precondition headers.            *)
(***************************************************************************)
EXTENDS Integers, FiniteSets

CONSTANTS Nodes, Objects, None,
          MaxFaults              \* bound: crashes, lost connections, failed commands, files and changes

ASSUME SyncAssumption ==
    /\ None \notin Nodes
    /\ \A config \in SUBSET Objects : config # None
    /\ MaxFaults \in Nat

VARIABLES up,               \* Node -> the process runs
          pc,               \* Node -> where the main worker is
          runtime,          \* Node -> objects that exist
          m_current_config, \* Node -> the objects as of the last change, None before the first
          m_version,        \* Node -> version of the configuration
          m_status_msg,     \* Node -> "OK" or "error"
          m_row_exists,     \* Node -> what verify_sync() found
          txn,              \* nodes that have a transaction open
          fetched,          \* Node -> the version being applied, None outside of sync()
          file,             \* Node -> cached configuration on disk, or None
          db,               \* the row of maxscale_config, of version 0 before it is inserted
          log,              \* history: version -> configuration that was stored
          diverged,         \* history: Node -> "no", "local" (changed without the cluster) or "ignored" (a version)
          faults            \* bounded by MaxFaults

node_vars == <<up, pc, runtime, m_current_config, m_version, m_status_msg, m_row_exists, fetched, file>>
vars == <<node_vars, txn, db, log, diverged, faults>>

Config == SUBSET Objects

Init ==
    /\ up = [n \in Nodes |-> TRUE]
    /\ pc = [n \in Nodes |-> "idle"]
    /\ runtime = [n \in Nodes |-> {}]
    /\ m_current_config = [n \in Nodes |-> None]
    /\ m_version = [n \in Nodes |-> 0]
    /\ m_status_msg = [n \in Nodes |-> "OK"]
    /\ m_row_exists = [n \in Nodes |-> FALSE]
    /\ txn = {}
    /\ fetched = [n \in Nodes |-> None]
    /\ file = [n \in Nodes |-> None]
    /\ db = [version |-> 0, config |-> {}, origin |-> None, nodes |-> [n \in Nodes |-> None]]
    /\ log = [v \in {0} |-> {}]
    /\ diverged = [n \in Nodes |-> "no"]
    /\ faults = 0

Fault == faults < MaxFaults /\ faults' = faults + 1

(* The row is locked by the SELECT ... FOR UPDATE of an open transaction.  *)
RowLocked == \E n \in txn : m_row_exists[n]

Locally(status) == IF status = "no" THEN "local" ELSE status

(* create_config(): the configuration is computed if there is none.        *)
Current(n) == IF m_current_config[n] = None THEN runtime[n] ELSE m_current_config[n]

(* process_config(): objects of the current configuration that the new one *)
(* does not have are destroyed, those it has are created or updated.       *)
Processed(n, current, new) == (runtime[n] \ (current \ new)) \cup new
-----------------------------------------------------------------------------
(* A request that modifies the configuration.                              *)

(* start(): the version is checked under the lock of the row.              *)
Start(n) ==
    /\ up[n]
    /\ pc[n] = "idle"
    /\ ~RowLocked
    /\ db.version \in {0, m_version[n]}
    /\ m_current_config' = [m_current_config EXCEPT ![n] = Current(n)]
    /\ m_row_exists' = [m_row_exists EXCEPT ![n] = db.version > 0]
    /\ txn' = txn \cup {n}
    /\ pc' = [pc EXCEPT ![n] = "request"]
    /\ UNCHANGED <<up, runtime, m_version, m_status_msg, fetched, file, db, log, diverged, faults>>

(* No connection, a lock that is not granted in time or another version,   *)
(* after which a sync is queued.                                           *)
StartFails(n) ==
    /\ up[n]
    /\ pc[n] = "idle"
    /\ m_current_config' = [m_current_config EXCEPT ![n] = Current(n)]
    /\ UNCHANGED <<up, pc, runtime, m_version, m_status_msg, m_row_exists, txn, fetched, file, db, log, diverged, faults>>

(* The request is executed.  A change that is not new does nothing.        *)
Request(n, o) ==
    /\ pc[n] = "request"
    /\ runtime' = [runtime EXCEPT ![n] = @ \cup {o}]
    /\ pc' = [pc EXCEPT ![n] = "commit"]
    /\ UNCHANGED <<up, m_current_config, m_version, m_status_msg, m_row_exists, txn, fetched, file, db, log, diverged, faults>>

(* rollback() of a request that is refused.                                *)
RequestFails(n) ==
    /\ pc[n] = "request"
    /\ txn' = txn \ {n}
    /\ pc' = [pc EXCEPT ![n] = "idle"]
    /\ UNCHANGED <<up, runtime, m_current_config, m_version, m_status_msg, m_row_exists, fetched, file, db, log, diverged, faults>>

(* commit() of a change that changed nothing.                              *)
CommitNoop(n) ==
    /\ pc[n] = "commit"
    /\ runtime[n] = m_current_config[n]
    /\ txn' = txn \ {n}
    /\ pc' = [pc EXCEPT ![n] = "idle"]
    /\ UNCHANGED <<up, runtime, m_current_config, m_version, m_status_msg, m_row_exists, fetched, file, db, log, diverged, faults>>

(* The row after the statement of update_config().                         *)
Store(n) ==
    /\ db' = [version |-> m_version[n] + 1, config |-> runtime[n], origin |-> n,
              nodes |-> [o \in Nodes |-> IF o = n THEN "OK" ELSE None]]
    /\ log' = [v \in 0..m_version[n] + 1 |-> IF v = m_version[n] + 1 THEN runtime[n] ELSE log[v]]

(* Mutant: REPLACE instead of INSERT.                                      *)
update_configReplace(n) ==
    /\ n \in txn
    /\ IF m_row_exists[n] /\ db.version # m_version[n] THEN UNCHANGED <<db, log>> ELSE Store(n)
    /\ txn' = txn \ {n}

(* update_config(): UPDATE, which changes no row of another version, or    *)
(* INSERT, and COMMIT in the database.                                     *)
update_config(n) ==
    /\ n \in txn
    /\ m_row_exists[n] \/ db.version = 0
    /\ IF m_row_exists[n] /\ db.version # m_version[n] THEN UNCHANGED <<db, log>> ELSE Store(n)
    /\ txn' = txn \ {n}

Commit(n) ==
    /\ pc[n] = "commit"
    /\ runtime[n] # m_current_config[n]
    /\ update_config(n)
    /\ pc' = [pc EXCEPT ![n] = "save"]
    /\ UNCHANGED <<up, runtime, m_current_config, m_version, m_status_msg, m_row_exists, fetched, file, diverged, faults>>

(* A command fails, or the answer to a COMMIT that was executed is lost.   *)
CommitFails(n) ==
    /\ pc[n] = "commit"
    /\ runtime[n] # m_current_config[n]
    /\ \/ Fault /\ update_config(n)
       \/ Fault /\ txn' = txn \ {n} /\ UNCHANGED <<db, log>>
       \/ /\ n \notin txn \/ (~m_row_exists[n] /\ db.version > 0)
          /\ txn' = txn \ {n}
          /\ UNCHANGED <<db, log, faults>>
    /\ pc' = [pc EXCEPT ![n] = "revert"]
    /\ UNCHANGED <<up, runtime, m_current_config, m_version, m_status_msg, m_row_exists, fetched, file, diverged>>

(* The rest of commit(): the cached configuration is saved, or not, which  *)
(* is only logged.                                                         *)
CommitDone(n) ==
    /\ pc[n] = "save"
    /\ \/ /\ file' = [file EXCEPT ![n] = [version |-> m_version[n] + 1, config |-> runtime[n]]]
          /\ UNCHANGED faults
       \/ Fault /\ UNCHANGED file
    /\ m_current_config' = [m_current_config EXCEPT ![n] = runtime[n]]
    /\ m_status_msg' = [m_status_msg EXCEPT ![n] = "OK"]
    /\ m_version' = [m_version EXCEPT ![n] = @ + 1]
    /\ diverged' = [diverged EXCEPT ![n] = "no"]
    /\ pc' = [pc EXCEPT ![n] = "idle"]
    /\ UNCHANGED <<up, runtime, m_row_exists, txn, fetched, db, log>>

(* Mutant: no refresh().                                                   *)
RequestWithoutSyncStale(n, o) ==
    /\ up[n]
    /\ pc[n] = "idle"
    /\ runtime' = [runtime EXCEPT ![n] = @ \cup {o}]
    /\ UNCHANGED m_current_config
    /\ diverged' = [diverged EXCEPT ![n] = Locally(@)]
    /\ UNCHANGED <<up, pc, m_version, m_status_msg, m_row_exists, txn, fetched, file, db, log, faults>>

(* A request with sync=false: refresh() takes the change over.             *)
RequestWithoutSync(n, o) ==
    /\ up[n]
    /\ pc[n] = "idle"
    /\ runtime' = [runtime EXCEPT ![n] = @ \cup {o}]
    /\ m_current_config' = [m_current_config EXCEPT ![n] = runtime[n] \cup {o}]
    /\ diverged' = [diverged EXCEPT ![n] = Locally(@)]
    /\ UNCHANGED <<up, pc, m_version, m_status_msg, m_row_exists, txn, fetched, file, db, log, faults>>

-----------------------------------------------------------------------------
(* revert_changes() to the current configuration.  When it fails, objects  *)
(* of both configurations are left, and the process aborts if it can come  *)
(* back without its cached configuration.                                  *)
Reverted(n, version) ==
    /\ runtime' = [runtime EXCEPT ![n] = Current(n)]
    /\ m_current_config' = [m_current_config EXCEPT ![n] = Current(n)]
    /\ m_version' = [m_version EXCEPT ![n] = version]
    /\ UNCHANGED <<up, file>>

NotReverted(n, new, version) ==
    /\ file[n] = None
    /\ \E objects \in SUBSET (Current(n) \cup new) :
           /\ Current(n) \cap new \subseteq objects
           /\ runtime' = [runtime EXCEPT ![n] = objects]
           /\ m_current_config' = [m_current_config EXCEPT ![n] = objects]
    /\ m_version' = [m_version EXCEPT ![n] = version]
    /\ UNCHANGED <<up, file>>

Abort(n) ==
    /\ file[n] # None
    /\ file' = [file EXCEPT ![n] = None]
    /\ up' = [up EXCEPT ![n] = FALSE]
    /\ UNCHANGED <<runtime, m_current_config, m_version>>

CommitReverts(n) ==
    /\ pc[n] = "revert"
    /\ \/ Reverted(n, m_version[n]) /\ UNCHANGED <<diverged, faults>>
       \/ /\ Fault
          /\ NotReverted(n, runtime[n], m_version[n])
          /\ diverged' = [diverged EXCEPT ![n] = Locally(@)]
       \/ Fault /\ Abort(n) /\ UNCHANGED diverged
    /\ pc' = [pc EXCEPT ![n] = "idle"]
    /\ UNCHANGED <<m_status_msg, m_row_exists, txn, fetched, db, log>>
-----------------------------------------------------------------------------
(* sync(), from the timer, after a conflict and at startup.                *)

(* Mutant: a missing status is not stored again.                           *)
FetchStatusOnce(n) ==
    /\ up[n]
    /\ pc[n] = "idle"
    /\ db.version > 0
    /\ db.version <= m_version[n]
    /\ db.nodes[n] # None
    /\ m_status_msg' = [m_status_msg EXCEPT ![n] = db.nodes[n]]
    /\ UNCHANGED <<up, pc, runtime, m_current_config, m_version, m_row_exists, txn, fetched, file, db, log, diverged, faults>>

(* fetch_config(): a version that is not newer only concerns the status of *)
(* the node, which is stored if it is missing.                             *)
FetchStatus(n) ==
    /\ up[n]
    /\ pc[n] = "idle"
    /\ db.version > 0
    /\ db.version <= m_version[n]
    /\ IF db.nodes[n] = None
         THEN /\ ~RowLocked
              /\ db' = [db EXCEPT !.nodes[n] = m_status_msg[n]]
              /\ UNCHANGED m_status_msg
         ELSE /\ m_status_msg' = [m_status_msg EXCEPT ![n] = db.nodes[n]]
              /\ UNCHANGED db
    /\ UNCHANGED <<up, pc, runtime, m_current_config, m_version, m_row_exists, txn, fetched, file, log, diverged, faults>>

(* Mutant: only the next version is fetched.                               *)
FetchNext(n) ==
    /\ up[n]
    /\ pc[n] = "idle"
    /\ db.version = m_version[n] + 1
    /\ fetched' = [fetched EXCEPT ![n] = [version |-> db.version, config |-> db.config]]
    /\ pc' = [pc EXCEPT ![n] = "apply"]
    /\ UNCHANGED <<up, runtime, m_current_config, m_version, m_status_msg, m_row_exists, txn, file, db, log, diverged, faults>>

Fetch(n) ==
    /\ up[n]
    /\ pc[n] = "idle"
    /\ db.version > m_version[n]
    /\ fetched' = [fetched EXCEPT ![n] = [version |-> db.version, config |-> db.config]]
    /\ pc' = [pc EXCEPT ![n] = "apply"]
    /\ UNCHANGED <<up, runtime, m_current_config, m_version, m_status_msg, m_row_exists, txn, file, db, log, diverged, faults>>

FetchFails(n) ==
    /\ up[n]
    /\ pc[n] = "idle"
    /\ m_status_msg' = [m_status_msg EXCEPT ![n] = "error"]
    /\ UNCHANGED <<up, pc, runtime, m_current_config, m_version, m_row_exists, txn, fetched, file, db, log, diverged, faults>>

(* The fetched configuration is applied and saved.                         *)
Apply(n) ==
    /\ pc[n] = "apply"
    /\ runtime' = [runtime EXCEPT ![n] = Processed(n, Current(n), fetched[n].config)]
    /\ \/ file' = [file EXCEPT ![n] = fetched[n]] /\ UNCHANGED faults
       \/ Fault /\ UNCHANGED file
    /\ m_version' = [m_version EXCEPT ![n] = fetched[n].version]
    /\ m_current_config' = [m_current_config EXCEPT ![n] = fetched[n].config]
    /\ diverged' = [diverged EXCEPT ![n] = "no"]
    /\ m_status_msg' = [m_status_msg EXCEPT ![n] = "OK"]
    /\ fetched' = [fetched EXCEPT ![n] = None]
    /\ pc' = [pc EXCEPT ![n] = "status"]
    /\ UNCHANGED <<up, m_row_exists, txn, db, log>>

(* The version is ignored.  Its status is not stored: the statement is for *)
(* the previous version, which the row has no more.                        *)
ApplyFails(n) ==
    /\ pc[n] = "apply"
    /\ Fault
    /\ m_status_msg' = [m_status_msg EXCEPT ![n] = "error"]
    /\ \/ Reverted(n, fetched[n].version)
       \/ NotReverted(n, fetched[n].config, fetched[n].version)
       \/ Abort(n)
    /\ diverged' = [diverged EXCEPT ![n] = "ignored"]
    /\ fetched' = [fetched EXCEPT ![n] = None]
    /\ pc' = [pc EXCEPT ![n] = "idle"]
    /\ UNCHANGED <<m_row_exists, txn, db, log>>

(* try_update_status() of the version that was applied: no row matches if  *)
(* the row has moved on, and an error is only logged.                      *)
UpdateStatus(n) ==
    /\ pc[n] = "status"
    /\ \/ /\ db.version = m_version[n]
          /\ ~RowLocked
          /\ db' = [db EXCEPT !.nodes[n] = "OK"]
       \/ UNCHANGED db
    /\ pc' = [pc EXCEPT ![n] = "idle"]
    /\ UNCHANGED <<up, runtime, m_current_config, m_version, m_status_msg, m_row_exists, txn, fetched, file, log, diverged, faults>>
-----------------------------------------------------------------------------
(* Faults.                                                                 *)

(* The database ends the transaction of a connection that is lost.         *)
ConnectionLost(n) ==
    /\ n \in txn
    /\ Fault
    /\ txn' = txn \ {n}
    /\ UNCHANGED <<node_vars, db, log, diverged>>

Crash(n) ==
    /\ up[n]
    /\ Fault
    /\ up' = [up EXCEPT ![n] = FALSE]
    /\ pc' = [pc EXCEPT ![n] = "idle"]
    /\ txn' = txn \ {n}
    /\ fetched' = [fetched EXCEPT ![n] = None]
    /\ UNCHANGED <<runtime, m_current_config, m_version, m_status_msg, m_row_exists, file, db, log, diverged>>

(* load_cached_config() and process_cached_config(), or the static         *)
(* configuration, which is the same on every node.                         *)
Restart(n) ==
    /\ ~up[n]
    /\ up' = [up EXCEPT ![n] = TRUE]
    /\ IF file[n] = None
         THEN /\ runtime' = [runtime EXCEPT ![n] = {}]
              /\ m_version' = [m_version EXCEPT ![n] = 0]
              /\ m_current_config' = [m_current_config EXCEPT ![n] = None]
         ELSE /\ runtime' = [runtime EXCEPT ![n] = file[n].config]
              /\ m_version' = [m_version EXCEPT ![n] = file[n].version]
              /\ m_current_config' = [m_current_config EXCEPT ![n] = file[n].config]
    /\ m_status_msg' = [m_status_msg EXCEPT ![n] = "OK"]
    /\ m_row_exists' = [m_row_exists EXCEPT ![n] = FALSE]
    /\ diverged' = [diverged EXCEPT ![n] = "no"]
    /\ UNCHANGED <<pc, txn, fetched, file, db, log, faults>>

(* The cached configuration cannot be applied: it is discarded and the     *)
(* process is restarted.  There is one such failure at most for each crash.*)
RestartFails(n) ==
    /\ ~up[n]
    /\ file[n] # None
    /\ file' = [file EXCEPT ![n] = None]
    /\ UNCHANGED <<up, pc, runtime, m_current_config, m_version, m_status_msg, m_row_exists, fetched, txn, db, log, diverged, faults>>
-----------------------------------------------------------------------------
Serve(n) ==
    \/ \E o \in Objects : Request(n, o)
    \/ RequestFails(n)
    \/ CommitNoop(n)
    \/ Commit(n)
    \/ CommitFails(n)
    \/ CommitDone(n)
    \/ CommitReverts(n)

Sync(n) == Apply(n) \/ ApplyFails(n) \/ UpdateStatus(n)

Next ==
    \E n \in Nodes :
        \/ Start(n)
        \/ StartFails(n)
        \/ \E o \in Objects : RequestWithoutSync(n, o)
        \/ Serve(n)
        \/ FetchStatus(n)
        \/ Fetch(n)
        \/ FetchFails(n)
        \/ Sync(n)
        \/ ConnectionLost(n)
        \/ Crash(n)
        \/ Restart(n)
        \/ RestartFails(n)

Safety == Init /\ [][Next]_vars

(* What is begun in the main worker ends, and a stopped process is started *)
(* again.  The timer runs sync() between requests, some attempts succeed,  *)
(* and a waiting statement gets its turn at the lock of the row.           *)
Spec ==
    /\ Safety
    /\ \A n \in Nodes : /\ WF_vars(Serve(n))
                        /\ WF_vars(Sync(n))
                        /\ WF_vars(Restart(n))
                        /\ SF_vars(Fetch(n))
                        /\ SF_vars(FetchStatus(n))
-----------------------------------------------------------------------------
(* Every configuration that is saved has a version, which save_config()'s  *)
(* callers assert, and no version is newer than that of the database.      *)
TypeOK ==
    /\ up \in [Nodes -> BOOLEAN]
    /\ pc \in [Nodes -> {"idle", "request", "commit", "save", "revert", "apply", "status"}]
    /\ runtime \in [Nodes -> Config]
    /\ m_current_config \in [Nodes -> Config \cup {None}]
    /\ m_version \in [Nodes -> 0..db.version]
    /\ m_status_msg \in [Nodes -> {"OK", "error"}]
    /\ m_row_exists \in [Nodes -> BOOLEAN]
    /\ txn \subseteq Nodes
    /\ fetched \in [Nodes -> {None} \cup [version : 1..db.version, config : Config]]
    /\ file \in [Nodes -> {None} \cup [version : 1..db.version, config : Config]]
    /\ \A n \in Nodes : pc[n] = "apply" =>
           fetched[n] \in [version : m_version[n] + 1..db.version, config : Config]
    /\ db \in [version : Nat, config : Config, origin : Nodes \cup {None},
              nodes : [Nodes -> {"OK", "error", None}]]
    /\ log \in [0..db.version -> Config]
    /\ diverged \in [Nodes -> {"no", "local", "ignored"}]
    /\ faults \in 0..MaxFaults

(* A version names one configuration: the row, the cached configurations   *)
(* and every node that has not ignored a version or been changed without   *)
(* the cluster hold, for their version, what was committed as that version *)
(* (verify_sync(), commit(), sync() and process_cached_config()).          *)
VersionIdentifiesConfig ==
    /\ log[db.version] = db.config
    /\ \A n \in Nodes :
           /\ file[n] # None => file[n].config = log[file[n].version]
           /\ (up[n] /\ pc[n] \in {"idle", "status"} /\ diverged[n] = "no") => runtime[n] = log[m_version[n]]

(* Nobody changes the row without the lock that verify_sync() took, and no *)
(* node is left with an open transaction after commit() or rollback().     *)
LockIsReleased ==
    /\ \A n \in txn : pc[n] \in {"request", "commit"}
    /\ \A n, o \in txn : m_row_exists[n] /\ m_row_exists[o] => n = o

(* A commit keeps what is stored in the cluster: a node that has not       *)
(* ignored a version never overwrites the change of another node, whatever *)
(* was lost or crashed on the way (the version check of verify_sync()).    *)
NoChangeLost ==
    [][db'.version # db.version /\ diverged[db'.origin] # "ignored" =>
           db'.version = db.version + 1 /\ db.config \subseteq db'.config]_vars

(* Once changes and faults end, every node runs the configuration of the   *)
(* row, unless it could not apply it or was changed without the cluster    *)
(* (sync_callback()).                                                      *)
Converges ==
    <>[](\A n \in Nodes : /\ up[n]
                          /\ m_version[n] = db.version
                          /\ diverged[n] = "no" => runtime[n] = db.config)

(* Every node's status ends up in the row, even if the attempt of sync()   *)
(* failed, because "it is attempted again during the sync"                 *)
(* (try_update_status()).                                                  *)
StatusReported == <>[](db.version > 0 => \A n \in Nodes : db.nodes[n] # None)
===============================================================================
