--------------------------- MODULE ConfigSyncProofs ---------------------------
(***************************************************************************)
(* Proofs about ConfigSync, for any number of nodes, objects and faults.   *)
(*                                                                         *)
(* Every step changes one node.  A step's lemma lists what it changes of   *)
(* that node, shows the node's part of the invariant from that list, and   *)
(* leaves the other nodes to the lemma Combine.                            *)
(***************************************************************************)
EXTENDS ConfigSync, TLAPS

(* TypeOK, in parts: the functions, one node, the row and the log.         *)
FunOK ==
    /\ up = [n \in Nodes |-> up[n]]
    /\ pc = [n \in Nodes |-> pc[n]]
    /\ runtime = [n \in Nodes |-> runtime[n]]
    /\ m_current_config = [n \in Nodes |-> m_current_config[n]]
    /\ m_version = [n \in Nodes |-> m_version[n]]
    /\ m_status_msg = [n \in Nodes |-> m_status_msg[n]]
    /\ m_row_exists = [n \in Nodes |-> m_row_exists[n]]
    /\ fetched = [n \in Nodes |-> fetched[n]]
    /\ file = [n \in Nodes |-> file[n]]
    /\ diverged = [n \in Nodes |-> diverged[n]]
    /\ txn \subseteq Nodes
    /\ faults \in 0..MaxFaults

Version == [version : 1..db.version, config : Config]

NodeType(n) ==
    /\ up[n] \in BOOLEAN
    /\ pc[n] \in {"idle", "request", "commit", "save", "revert", "apply", "status"}
    /\ runtime[n] \in Config
    /\ m_current_config[n] \in Config \cup {None}
    /\ m_version[n] \in 0..db.version
    /\ m_status_msg[n] \in {"OK", "error"}
    /\ m_row_exists[n] \in BOOLEAN
    /\ fetched[n] \in {None} \cup Version
    /\ file[n] \in {None} \cup Version
    /\ diverged[n] \in {"no", "local", "ignored"}
    /\ pc[n] = "apply" => fetched[n] \in Version /\ fetched[n].version > m_version[n]

DbOK ==
    /\ db \in [version : Nat, config : Config, origin : Nodes \cup {None},
              nodes : [Nodes -> {"OK", "error", None}]]
    /\ log \in [0..db.version -> Config]
    /\ log[0] = {}
    /\ log[db.version] = db.config

(* The version that verify_sync() compared is still that of the row.       *)
LockInv ==
    /\ LockIsReleased
    /\ \A n \in txn : IF m_row_exists[n] THEN m_version[n] = db.version /\ db.version > 0
                                         ELSE m_version[n] = 0

(* m_current_config is what exists, but for a request that is not finished *)
(* or not reverted.                                                        *)
CurrentInv(n) ==
    /\ pc[n] # "idle" => up[n]
    /\ pc[n] = "request" => m_current_config[n] = runtime[n]
    /\ pc[n] \in {"commit", "revert"} => m_current_config[n] \in Config /\ m_current_config[n] \subseteq runtime[n]
    /\ (up[n] /\ pc[n] \in {"idle", "apply", "status"}) => m_current_config[n] \in {None, runtime[n]}

(* The objects of a node's version, without those of a request.            *)
Base(n) == IF pc[n] \in {"commit", "revert"} THEN m_current_config[n] ELSE runtime[n]

BaseInv(n) ==
    (up[n] /\ pc[n] # "save") =>
        /\ diverged[n] = "no" => Base(n) = log[m_version[n]]
        /\ diverged[n] # "ignored" => log[m_version[n]] \subseteq Base(n)

(* What is saved or being applied is a version of the log.                 *)
StoredInv(n) ==
    /\ pc[n] = "save" => m_version[n] < db.version /\ log[m_version[n] + 1] = runtime[n]
    /\ pc[n] = "apply" => fetched[n].config = log[fetched[n].version]
    /\ file[n] # None => file[n].config = log[file[n].version]

NodeInv(n) == NodeType(n) /\ CurrentInv(n) /\ BaseInv(n) /\ StoredInv(n)

IInv == FunOK /\ DbOK /\ LockInv /\ \A n \in Nodes : NodeInv(n)
-----------------------------------------------------------------------------
Same(n) ==
    /\ up'[n] = up[n]
    /\ pc'[n] = pc[n]
    /\ runtime'[n] = runtime[n]
    /\ m_current_config'[n] = m_current_config[n]
    /\ m_version'[n] = m_version[n]
    /\ m_status_msg'[n] = m_status_msg[n]
    /\ m_row_exists'[n] = m_row_exists[n]
    /\ fetched'[n] = fetched[n]
    /\ file'[n] = file[n]
    /\ diverged'[n] = diverged[n]

(* The log only grows.                                                     *)
Grows ==
    /\ DbOK'
    /\ db'.version >= db.version
    /\ \A v \in 0..db.version : log'[v] = log[v]

LEMMA InvType ==
    ASSUME IInv
    PROVE  TypeOK
<1>1. FunOK /\ DbOK /\ \A n \in Nodes : NodeType(n)
  BY SMTT(120) DEF IInv, NodeInv
<1>2. /\ up \in [Nodes -> BOOLEAN]
      /\ pc \in [Nodes -> {"idle", "request", "commit", "save", "revert", "apply", "status"}]
      /\ runtime \in [Nodes -> Config]
      /\ m_current_config \in [Nodes -> Config \cup {None}]
  BY <1>1, SMTT(120) DEF FunOK, NodeType
<1>3. /\ m_version \in [Nodes -> 0..db.version]
      /\ m_status_msg \in [Nodes -> {"OK", "error"}]
      /\ m_row_exists \in [Nodes -> BOOLEAN]
      /\ diverged \in [Nodes -> {"no", "local", "ignored"}]
  BY <1>1, SMTT(120) DEF FunOK, NodeType
<1>4. /\ fetched \in [Nodes -> {None} \cup [version : 1..db.version, config : Config]]
      /\ file \in [Nodes -> {None} \cup [version : 1..db.version, config : Config]]
  BY <1>1, SMTT(120) DEF FunOK, NodeType, Version
<1>5. ASSUME NEW n \in Nodes, pc[n] = "apply"
      PROVE  fetched[n] \in [version : m_version[n] + 1..db.version, config : Config]
  <2>1. fetched[n] \in Version /\ fetched[n].version > m_version[n] /\ m_version[n] \in Nat /\ db.version \in Nat
    BY <1>1, <1>5, SMTT(120) DEF NodeType, DbOK
  <2>2. QED
    BY <2>1, SMTT(120) DEF Version
<1>6. QED
  BY <1>1, <1>2, <1>3, <1>4, <1>5, SMTT(120) DEF TypeOK, FunOK, DbOK

LEMMA OthersKeep ==
    ASSUME IInv, Grows, NEW n \in Nodes, Same(n)
    PROVE  NodeInv(n)'
<1>1. NodeType(n) /\ CurrentInv(n) /\ BaseInv(n) /\ StoredInv(n) /\ DbOK
  BY SMTT(120) DEF IInv, NodeInv
<1>2. db.version \in Nat /\ db'.version \in Nat
  BY <1>1, SMTT(120) DEF Grows, DbOK
<1>3. NodeType(n)'
  BY <1>1, <1>2, SMTT(120) DEF NodeType, Version, Same, Grows
<1>4. CurrentInv(n)'
  BY <1>1, SMTT(120) DEF CurrentInv, Same
<1>5. log'[m_version[n]] = log[m_version[n]]
  BY <1>1, SMTT(120) DEF Grows, NodeType
<1>6. BaseInv(n)'
  BY <1>1, <1>5, SMTT(120) DEF BaseInv, Base, Same
<1>7. StoredInv(n)'
  <2>1. pc[n] = "save" => log'[m_version[n] + 1] = log[m_version[n] + 1]
    BY <1>1, <1>2, SMTT(120) DEF Grows, StoredInv, NodeType
  <2>2. pc[n] = "apply" => log'[fetched[n].version] = log[fetched[n].version]
    BY <1>1, <1>2, SMTT(120) DEF Grows, NodeType, Version
  <2>3. file[n] # None => log'[file[n].version] = log[file[n].version]
    BY <1>1, <1>2, SMTT(120) DEF Grows, NodeType, Version
  <2>4. QED
    BY <1>1, <1>2, <2>1, <2>2, <2>3, SMTT(120) DEF StoredInv, Same, Grows, NodeType
<1>8. QED
  BY <1>3, <1>4, <1>6, <1>7, SMTT(120) DEF NodeInv

LEMMA Combine ==
    ASSUME IInv, FunOK', Grows, LockInv', NEW n \in Nodes, NodeInv(n)',
           \A m \in Nodes \ {n} : Same(m)
    PROVE  IInv'
<1>1. \A m \in Nodes : NodeInv(m)'
  BY OthersKeep, SMTT(120)
<1>2. QED
  BY <1>1, SMTT(120) DEF IInv, Grows

(* A step that does not begin or commit a transaction.                     *)
LEMMA LockKeeps ==
    ASSUME IInv, NEW n \in Nodes, \A m \in Nodes \ {n} : Same(m),
           db'.version = db.version, txn' \subseteq txn,
           n \in txn' => /\ pc'[n] \in {"request", "commit"}
                         /\ m_version'[n] = m_version[n]
                         /\ m_row_exists'[n] = m_row_exists[n]
    PROVE  LockInv'
<1>1. txn \subseteq Nodes /\ LockInv
  BY SMTT(120) DEF IInv, FunOK
<1>2. ASSUME NEW m \in txn'
      PROVE  /\ m \in txn
             /\ pc'[m] \in {"request", "commit"}
             /\ m_version'[m] = m_version[m]
             /\ m_row_exists'[m] = m_row_exists[m]
  <2>1. CASE m = n
    BY <2>1, SMTT(120)
  <2>2. CASE m # n
    BY <1>1, <2>2, SMTT(120) DEF Same, LockInv, LockIsReleased
  <2>3. QED
    BY <2>1, <2>2, SMTT(120)
<1>3. QED
  BY <1>1, <1>2, SMTT(120) DEF LockInv, LockIsReleased

(* The row and the log are not changed, but for the statuses.              *)
LEMMA LogKeeps ==
    ASSUME DbOK, log' = log, db' = db \/ \E n \in Nodes, s \in {"OK", "error"} : db' = [db EXCEPT !.nodes[n] = s]
    PROVE  Grows /\ db'.version = db.version
<1>1. db.version \in Nat
  BY SMTT(120) DEF DbOK
<1>2. CASE db' = db
  BY <1>1, <1>2, SMTT(120) DEF DbOK, Grows
<1>3. ASSUME NEW n \in Nodes, NEW s \in {"OK", "error"}, db' = [db EXCEPT !.nodes[n] = s]
      PROVE  Grows /\ db'.version = db.version
  <2>1. /\ db'.version = db.version
        /\ db'.config = db.config
        /\ db' \in [version : Nat, config : Config, origin : Nodes \cup {None},
                    nodes : [Nodes -> {"OK", "error", None}]]
    BY <1>3, ZenonT(120) DEF DbOK
  <2>2. QED
    BY <1>1, <2>1, SMTT(120) DEF DbOK, Grows
<1>4. QED
  BY <1>2, <1>3, SMTT(120)

(* update_config() stores the next version: nobody else holds the lock.    *)
LEMMA UpdateEffect ==
    ASSUME IInv, NEW n \in Nodes, update_config(n)
    PROVE  /\ m_version[n] = db.version
           /\ db'.version = db.version + 1
           /\ db'.config = runtime[n]
           /\ db'.origin = n
           /\ Grows
           /\ log'[db.version + 1] = runtime[n]
           /\ txn' = txn \ {n}
           /\ \A o \in txn' : ~m_row_exists[o]
<1>1. m_version[n] = db.version /\ db.version \in Nat /\ n \in txn /\ txn' = txn \ {n} /\ runtime[n] \in Config
  BY SMTT(120) DEF IInv, LockInv, DbOK, update_config, NodeInv, NodeType
<1>2. Store(n)
  BY <1>1, SMTT(120) DEF update_config
<1>3. /\ db'.version = db.version + 1
      /\ db'.config = runtime[n]
      /\ db'.origin = n
      /\ db' \in [version : Nat, config : Config, origin : Nodes \cup {None},
                  nodes : [Nodes -> {"OK", "error", None}]]
  BY <1>1, <1>2, SMTT(120) DEF Store
<1>4. /\ log'[db.version + 1] = runtime[n]
      /\ \A v \in 0..db.version : log'[v] = log[v]
      /\ log' \in [0..db.version + 1 -> Config]
  BY <1>1, <1>2, SMTT(120) DEF Store, IInv, DbOK
<1>5. Grows
  BY <1>1, <1>3, <1>4, SMTT(120) DEF Grows, IInv, DbOK
<1>6. \A o \in txn' : ~m_row_exists[o]
  BY <1>1, SMTT(120) DEF IInv, LockInv, LockIsReleased, update_config
<1>7. QED
  BY <1>1, <1>3, <1>4, <1>5, <1>6, SMTT(120)
-----------------------------------------------------------------------------
LEMMA StartStep ==
    ASSUME IInv, NEW n \in Nodes, Start(n)
    PROVE  IInv'
<1>. /\ FunOK /\ DbOK /\ LockInv /\ db.version \in Nat
     /\ NodeType(n) /\ CurrentInv(n) /\ BaseInv(n) /\ StoredInv(n)
  BY SMTT(120) DEF IInv, NodeInv, DbOK
<1>1. Current(n) = runtime[n]
  BY SyncAssumption, SMTT(120) DEF Start, Current, CurrentInv, Config
<1>2. /\ up[n]
      /\ pc[n] = "idle"
      /\ up'[n] = up[n]
      /\ pc'[n] = "request"
      /\ runtime'[n] = runtime[n]
      /\ m_current_config'[n] = runtime[n]
      /\ m_version'[n] = m_version[n]
      /\ m_status_msg'[n] = m_status_msg[n]
      /\ m_row_exists'[n] <=> db.version > 0
      /\ db.version \in {0, m_version[n]}
      /\ txn' = txn \cup {n}
      /\ \A m \in txn : ~m_row_exists[m]
      /\ fetched'[n] = fetched[n]
      /\ file'[n] = file[n]
      /\ diverged'[n] = diverged[n]
  BY <1>1, SyncAssumption, ZenonT(120) DEF FunOK, NodeType, Config, Start, RowLocked
<1>3. FunOK'
  BY SyncAssumption, ZenonT(120) DEF FunOK, Start, RowLocked
<1>4. ASSUME NEW m \in Nodes \ {n} PROVE Same(m)
  BY SMTT(120) DEF FunOK, Same, Start, RowLocked
<1>5. Grows /\ db'.version = db.version /\ log' = log
  BY LogKeeps, SMTT(120) DEF Start, RowLocked
<1>6. LockInv'
  <2>1. m_version[n] \in 0..db.version /\ txn \subseteq Nodes /\ n \notin txn
    BY <1>2, ZenonT(120) DEF NodeType, FunOK, LockInv, LockIsReleased
  <2>2. ASSUME NEW m \in txn
        PROVE  pc'[m] = pc[m] /\ m_version'[m] = m_version[m] /\ ~m_row_exists'[m]
    BY <1>2, <1>4, <2>1, SMTT(120) DEF Same
  <2>3. ASSUME NEW m \in txn'
        PROVE  /\ pc'[m] \in {"request", "commit"}
               /\ IF m_row_exists'[m] THEN m_version'[m] = db'.version /\ db'.version > 0
                                      ELSE m_version'[m] = 0
    <3>1. CASE m = n
      <4>1. CASE db.version = 0
        <5>1. ~m_row_exists'[n] /\ m_version'[n] = 0
          BY <1>2, <2>1, <4>1, SMTT(120)
        <5>2. QED
          BY <1>2, <3>1, <5>1, SMTT(120)
      <4>2. CASE db.version > 0
        <5>1. m_row_exists'[n] /\ m_version'[n] = db'.version /\ db'.version > 0
          BY <1>2, <1>5, <4>2, SMTT(120)
        <5>2. QED
          BY <1>2, <3>1, <5>1, SMTT(120)
      <4>3. QED
        BY <4>1, <4>2, SMTT(120)
    <3>2. CASE m # n
      BY <1>2, <2>2, <3>2, SMTT(120) DEF LockInv, LockIsReleased
    <3>3. QED
      BY <3>1, <3>2, SMTT(120)
  <2>4. ASSUME NEW m \in txn', NEW o \in txn', m_row_exists'[m], m_row_exists'[o]
        PROVE  m = o
    BY <1>2, <2>2, <2>4, SMTT(120)
  <2>5. QED
    BY <2>3, <2>4, SMTT(120) DEF LockInv, LockIsReleased
<1>7. NodeInv(n)'
  <2>1. NodeType(n)'
    <3>1. m_row_exists'[n] \in BOOLEAN
      BY SMTT(120) DEF Start, FunOK
    <3>2. QED
      BY <1>2, <1>5, <3>1, SMTT(120) DEF NodeType, Version
  <2>2. CurrentInv(n)'
    BY <1>2, <1>5, SyncAssumption, SMTT(120) DEF CurrentInv, NodeType, Config
  <2>3. BaseInv(n)'
    BY <1>2, <1>5, SMTT(120) DEF BaseInv, Base, CurrentInv, NodeType
  <2>4. StoredInv(n)'
    BY <1>2, <1>5, ZenonT(120) DEF StoredInv
  <2>5. QED
    BY <2>1, <2>2, <2>3, <2>4, SMTT(120) DEF NodeInv
<1>8. QED
  BY <1>3, <1>4, <1>5, <1>6, <1>7, Combine, SMTT(120)

LEMMA StartFailsStep ==
    ASSUME IInv, NEW n \in Nodes, StartFails(n)
    PROVE  IInv'
<1>. /\ FunOK /\ DbOK /\ LockInv /\ db.version \in Nat
     /\ NodeType(n) /\ CurrentInv(n) /\ BaseInv(n) /\ StoredInv(n)
  BY SMTT(120) DEF IInv, NodeInv, DbOK
<1>1. Current(n) = runtime[n]
  BY SyncAssumption, SMTT(120) DEF StartFails, Current, CurrentInv, Config
<1>2. /\ up[n]
      /\ pc[n] = "idle"
      /\ up'[n] = up[n]
      /\ pc'[n] = pc[n]
      /\ runtime'[n] = runtime[n]
      /\ m_current_config'[n] = runtime[n]
      /\ m_version'[n] = m_version[n]
      /\ m_status_msg'[n] = m_status_msg[n]
      /\ m_row_exists'[n] = m_row_exists[n]
      /\ fetched'[n] = fetched[n]
      /\ file'[n] = file[n]
      /\ diverged'[n] = diverged[n]
  BY <1>1, SyncAssumption, SMTT(120) DEF FunOK, NodeType, Config, StartFails
<1>3. FunOK'
  BY SyncAssumption, SMTT(120) DEF FunOK, StartFails
<1>4. ASSUME NEW m \in Nodes \ {n} PROVE Same(m)
  BY SMTT(120) DEF FunOK, Same, StartFails
<1>5. Grows /\ db'.version = db.version /\ log' = log
  BY LogKeeps, SMTT(120) DEF StartFails
<1>6. LockInv'
  BY <1>2, <1>4, <1>5, LockKeeps, SMTT(120) DEF LockInv, LockIsReleased, CurrentInv, StartFails
<1>7. NodeInv(n)'
  <2>1. NodeType(n)'
    BY <1>2, <1>5, ZenonT(120) DEF NodeType, Version, Config
  <2>2. CurrentInv(n)'
    BY <1>2, <1>5, SyncAssumption, ZenonT(120) DEF CurrentInv, NodeType, Config
  <2>3. BaseInv(n)'
    BY <1>2, <1>5, ZenonT(120) DEF BaseInv, Base, CurrentInv, NodeType
  <2>4. StoredInv(n)'
    BY <1>2, <1>5, SMTT(120) DEF StoredInv
  <2>5. QED
    BY <2>1, <2>2, <2>3, <2>4, SMTT(120) DEF NodeInv
<1>8. QED
  BY <1>3, <1>4, <1>5, <1>6, <1>7, Combine, SMTT(120)

LEMMA RequestWithoutSyncStep ==
    ASSUME IInv, NEW n \in Nodes, NEW o \in Objects, RequestWithoutSync(n, o)
    PROVE  IInv'
<1>. /\ FunOK /\ DbOK /\ LockInv /\ db.version \in Nat
     /\ NodeType(n) /\ CurrentInv(n) /\ BaseInv(n) /\ StoredInv(n)
  BY SMTT(120) DEF IInv, NodeInv, DbOK
<1>1. /\ up[n]
      /\ pc[n] = "idle"
      /\ up'[n] = up[n]
      /\ pc'[n] = pc[n]
      /\ runtime'[n] = runtime[n] \cup {o}
      /\ m_current_config'[n] = runtime[n] \cup {o}
      /\ m_version'[n] = m_version[n]
      /\ m_status_msg'[n] = m_status_msg[n]
      /\ m_row_exists'[n] = m_row_exists[n]
      /\ fetched'[n] = fetched[n]
      /\ file'[n] = file[n]
      /\ diverged'[n] = Locally(diverged[n])
  BY SyncAssumption, SMTT(120) DEF FunOK, NodeType, Config, RequestWithoutSync
<1>2. FunOK'
  BY SyncAssumption, ZenonT(120) DEF FunOK, RequestWithoutSync
<1>3. ASSUME NEW m \in Nodes \ {n} PROVE Same(m)
  BY ZenonT(120) DEF FunOK, Same, RequestWithoutSync
<1>4. Grows /\ db'.version = db.version /\ log' = log
  BY LogKeeps, SMTT(120) DEF RequestWithoutSync
<1>5. LockInv'
  BY <1>1, <1>3, <1>4, LockKeeps, SMTT(120) DEF LockInv, LockIsReleased, CurrentInv, RequestWithoutSync
<1>6. NodeInv(n)'
  <2>1. NodeType(n)'
    BY <1>1, <1>4, ZenonT(120) DEF NodeType, Version, Config, Locally
  <2>2. CurrentInv(n)'
    BY <1>1, <1>4, SyncAssumption, ZenonT(120) DEF CurrentInv, NodeType, Config
  <2>3. BaseInv(n)'
    BY <1>1, <1>4, ZenonT(120) DEF BaseInv, Base, CurrentInv, NodeType, Locally
  <2>4. StoredInv(n)'
    BY <1>1, <1>4, ZenonT(120) DEF StoredInv
  <2>5. QED
    BY <2>1, <2>2, <2>3, <2>4, SMTT(120) DEF NodeInv
<1>7. QED
  BY <1>2, <1>3, <1>4, <1>5, <1>6, Combine, SMTT(120)

LEMMA RequestStep ==
    ASSUME IInv, NEW n \in Nodes, NEW o \in Objects, Request(n, o)
    PROVE  IInv'
<1>. /\ FunOK /\ DbOK /\ LockInv /\ db.version \in Nat
     /\ NodeType(n) /\ CurrentInv(n) /\ BaseInv(n) /\ StoredInv(n)
  BY SMTT(120) DEF IInv, NodeInv, DbOK
<1>1. /\ pc[n] = "request"
      /\ up'[n] = up[n]
      /\ pc'[n] = "commit"
      /\ runtime'[n] = runtime[n] \cup {o}
      /\ m_current_config'[n] = m_current_config[n]
      /\ m_version'[n] = m_version[n]
      /\ m_status_msg'[n] = m_status_msg[n]
      /\ m_row_exists'[n] = m_row_exists[n]
      /\ fetched'[n] = fetched[n]
      /\ file'[n] = file[n]
      /\ diverged'[n] = diverged[n]
  BY SyncAssumption, SMTT(120) DEF FunOK, NodeType, Config, Request
<1>2. FunOK'
  BY SyncAssumption, ZenonT(120) DEF FunOK, Request
<1>3. ASSUME NEW m \in Nodes \ {n} PROVE Same(m)
  BY ZenonT(120) DEF FunOK, Same, Request
<1>4. Grows /\ db'.version = db.version /\ log' = log
  BY LogKeeps, SMTT(120) DEF Request
<1>5. LockInv'
  BY <1>1, <1>3, <1>4, LockKeeps, SMTT(120) DEF LockInv, LockIsReleased, CurrentInv, Request
<1>6. NodeInv(n)'
  <2>1. NodeType(n)'
    BY <1>1, <1>4, ZenonT(120) DEF NodeType, Version, Config
  <2>2. CurrentInv(n)'
    BY <1>1, <1>4, SyncAssumption, ZenonT(120) DEF CurrentInv, NodeType, Config
  <2>3. BaseInv(n)'
    BY <1>1, <1>4, ZenonT(120) DEF BaseInv, Base, CurrentInv, NodeType
  <2>4. StoredInv(n)'
    BY <1>1, <1>4, ZenonT(120) DEF StoredInv
  <2>5. QED
    BY <2>1, <2>2, <2>3, <2>4, SMTT(120) DEF NodeInv
<1>7. QED
  BY <1>2, <1>3, <1>4, <1>5, <1>6, Combine, SMTT(120)

LEMMA RequestFailsStep ==
    ASSUME IInv, NEW n \in Nodes, RequestFails(n)
    PROVE  IInv'
<1>. /\ FunOK /\ DbOK /\ LockInv /\ db.version \in Nat
     /\ NodeType(n) /\ CurrentInv(n) /\ BaseInv(n) /\ StoredInv(n)
  BY SMTT(120) DEF IInv, NodeInv, DbOK
<1>1. /\ pc[n] = "request"
      /\ up'[n] = up[n]
      /\ pc'[n] = "idle"
      /\ runtime'[n] = runtime[n]
      /\ m_current_config'[n] = m_current_config[n]
      /\ m_version'[n] = m_version[n]
      /\ m_status_msg'[n] = m_status_msg[n]
      /\ m_row_exists'[n] = m_row_exists[n]
      /\ fetched'[n] = fetched[n]
      /\ file'[n] = file[n]
      /\ diverged'[n] = diverged[n]
  BY SyncAssumption, SMTT(120) DEF FunOK, NodeType, Config, RequestFails
<1>2. FunOK'
  BY SyncAssumption, ZenonT(120) DEF FunOK, RequestFails
<1>3. ASSUME NEW m \in Nodes \ {n} PROVE Same(m)
  BY SMTT(120) DEF FunOK, Same, RequestFails
<1>4. Grows /\ db'.version = db.version /\ log' = log
  BY LogKeeps, SMTT(120) DEF RequestFails
<1>5. LockInv'
  BY <1>1, <1>3, <1>4, LockKeeps, SMTT(120) DEF LockInv, LockIsReleased, CurrentInv, RequestFails
<1>6. NodeInv(n)'
  <2>1. NodeType(n)'
    BY <1>1, <1>4, ZenonT(120) DEF NodeType, Version, Config
  <2>2. CurrentInv(n)'
    BY <1>1, <1>4, SyncAssumption, ZenonT(120) DEF CurrentInv, NodeType, Config
  <2>3. BaseInv(n)'
    BY <1>1, <1>4, ZenonT(120) DEF BaseInv, Base, CurrentInv, NodeType
  <2>4. StoredInv(n)'
    BY <1>1, <1>4, ZenonT(120) DEF StoredInv
  <2>5. QED
    BY <2>1, <2>2, <2>3, <2>4, SMTT(120) DEF NodeInv
<1>7. QED
  BY <1>2, <1>3, <1>4, <1>5, <1>6, Combine, SMTT(120)

LEMMA CommitNoopStep ==
    ASSUME IInv, NEW n \in Nodes, CommitNoop(n)
    PROVE  IInv'
<1>. /\ FunOK /\ DbOK /\ LockInv /\ db.version \in Nat
     /\ NodeType(n) /\ CurrentInv(n) /\ BaseInv(n) /\ StoredInv(n)
  BY SMTT(120) DEF IInv, NodeInv, DbOK
<1>1. /\ pc[n] = "commit"
      /\ runtime[n] = m_current_config[n]
      /\ up'[n] = up[n]
      /\ pc'[n] = "idle"
      /\ runtime'[n] = runtime[n]
      /\ m_current_config'[n] = m_current_config[n]
      /\ m_version'[n] = m_version[n]
      /\ m_status_msg'[n] = m_status_msg[n]
      /\ m_row_exists'[n] = m_row_exists[n]
      /\ fetched'[n] = fetched[n]
      /\ file'[n] = file[n]
      /\ diverged'[n] = diverged[n]
  BY SyncAssumption, SMTT(120) DEF FunOK, NodeType, Config, CommitNoop
<1>2. FunOK'
  BY SyncAssumption, ZenonT(120) DEF FunOK, CommitNoop
<1>3. ASSUME NEW m \in Nodes \ {n} PROVE Same(m)
  BY SMTT(120) DEF FunOK, Same, CommitNoop
<1>4. Grows /\ db'.version = db.version /\ log' = log
  BY LogKeeps, SMTT(120) DEF CommitNoop
<1>5. LockInv'
  BY <1>1, <1>3, <1>4, LockKeeps, SMTT(120) DEF LockInv, LockIsReleased, CurrentInv, CommitNoop
<1>6. NodeInv(n)'
  <2>1. NodeType(n)'
    BY <1>1, <1>4, ZenonT(120) DEF NodeType, Version, Config
  <2>2. CurrentInv(n)'
    BY <1>1, <1>4, SyncAssumption, ZenonT(120) DEF CurrentInv, NodeType, Config
  <2>3. BaseInv(n)'
    BY <1>1, <1>4, ZenonT(120) DEF BaseInv, Base, CurrentInv, NodeType
  <2>4. StoredInv(n)'
    BY <1>1, <1>4, ZenonT(120) DEF StoredInv
  <2>5. QED
    BY <2>1, <2>2, <2>3, <2>4, SMTT(120) DEF NodeInv
<1>7. QED
  BY <1>2, <1>3, <1>4, <1>5, <1>6, Combine, SMTT(120)

(* What a node has of the log, it has of the log that has grown.           *)
LEMMA KnownKeeps ==
    ASSUME DbOK, Grows, NEW n \in Nodes, NodeType(n)
    PROVE  /\ m_version[n] \in 0..db'.version
           /\ fetched[n] \in {None} \cup Version'
           /\ file[n] \in {None} \cup Version'
           /\ log'[m_version[n]] = log[m_version[n]]
           /\ file[n] # None => log'[file[n].version] = log[file[n].version]
<1>1. /\ db.version \in Nat
      /\ db'.version \in Nat
      /\ db'.version >= db.version
      /\ \A v \in 0..db.version : log'[v] = log[v]
  BY SMTT(120) DEF DbOK, Grows
<1>2. m_version[n] \in 0..db.version
  BY SMTT(120) DEF NodeType
<1>3. Version \subseteq Version'
  BY <1>1, SMTT(120) DEF Version
<1>4. fetched[n] \in {None} \cup Version /\ file[n] \in {None} \cup Version
  BY SMTT(120) DEF NodeType
<1>5. file[n] # None => file[n].version \in 1..db.version
  BY <1>4, SMTT(120) DEF Version
<1>6. file[n] # None => file[n].version \in 0..db.version
  BY <1>1, <1>5, SMTT(120)
<1>7. QED
  BY <1>1, <1>2, <1>3, <1>4, <1>6, SMTT(120)

LEMMA CommitStep ==
    ASSUME IInv, NEW n \in Nodes, Commit(n)
    PROVE  IInv'
<1>. /\ FunOK /\ DbOK /\ LockInv /\ db.version \in Nat
     /\ NodeType(n) /\ CurrentInv(n) /\ BaseInv(n) /\ StoredInv(n)
  BY SMTT(120) DEF IInv, NodeInv, DbOK
<1>1. /\ pc[n] = "commit"
      /\ up'[n] = up[n]
      /\ pc'[n] = "save"
      /\ runtime'[n] = runtime[n]
      /\ m_current_config'[n] = m_current_config[n]
      /\ m_version'[n] = m_version[n]
      /\ m_status_msg'[n] = m_status_msg[n]
      /\ m_row_exists'[n] = m_row_exists[n]
      /\ fetched'[n] = fetched[n]
      /\ file'[n] = file[n]
      /\ diverged'[n] = diverged[n]
  BY SyncAssumption, SMTT(120) DEF FunOK, NodeType, Config, Commit
<1>2. FunOK'
  BY SyncAssumption, ZenonT(120) DEF FunOK, Commit, update_config
<1>3. ASSUME NEW m \in Nodes \ {n} PROVE Same(m)
  BY SMTT(120) DEF FunOK, Same, Commit
<1>4. Grows /\ LockInv'
  <2>1. CASE update_config(n)
    <3>1. Grows /\ txn' = txn \ {n} /\ \A m \in txn' : ~m_row_exists[m]
      BY <2>1, UpdateEffect, SMTT(120)
    <3>2. ASSUME NEW m \in txn'
          PROVE  m \in txn /\ pc'[m] = pc[m] /\ m_version'[m] = m_version[m] /\ ~m_row_exists'[m]
      BY <1>3, <3>1, ZenonT(120) DEF Same, FunOK
    <3>3. QED
      BY <3>1, <3>2, ZenonT(120) DEF LockInv, LockIsReleased
  <2>2. CASE UNCHANGED <<db, log>> /\ txn' = txn \ {n}
    BY <1>3, <2>2, LogKeeps, LockKeeps, SMTT(120)
  <2>3. QED
    BY <2>1, <2>2, SMTT(120) DEF Commit
<1>5. NodeInv(n)'
  <2>1. NodeType(n)'
    BY <1>1, <1>4, KnownKeeps, ZenonT(120) DEF NodeType
  <2>2. CurrentInv(n)'
    BY <1>1, <1>4, SyncAssumption, ZenonT(120) DEF CurrentInv, NodeType, Config
  <2>3. BaseInv(n)'
    BY <1>1, <1>4, ZenonT(120) DEF BaseInv, Base, CurrentInv, NodeType, Grows, DbOK
  <2>4. StoredInv(n)'
    <3>1. m_version[n] = db.version /\ db'.version = db.version + 1 /\ log'[db.version + 1] = runtime[n]
      BY UpdateEffect, ZenonT(120) DEF Commit
    <3>2. file[n] # None => file[n].config = log'[file[n].version]
      BY <1>4, KnownKeeps, ZenonT(120) DEF StoredInv
    <3>3. m_version[n] < db'.version /\ log'[m_version[n] + 1] = runtime[n]
      BY <3>1, SMTT(120)
    <3>4. QED
      BY <1>1, <3>2, <3>3, ZenonT(120) DEF StoredInv
  <2>5. QED
    BY <2>1, <2>2, <2>3, <2>4, SMTT(120) DEF NodeInv
<1>6. QED
  BY <1>2, <1>3, <1>4, <1>5, Combine, SMTT(120)

LEMMA CommitFailsStep ==
    ASSUME IInv, NEW n \in Nodes, CommitFails(n)
    PROVE  IInv'
<1>. /\ FunOK /\ DbOK /\ LockInv /\ db.version \in Nat
     /\ NodeType(n) /\ CurrentInv(n) /\ BaseInv(n) /\ StoredInv(n)
  BY SMTT(120) DEF IInv, NodeInv, DbOK
<1>1. /\ pc[n] = "commit"
      /\ up'[n] = up[n]
      /\ pc'[n] = "revert"
      /\ runtime'[n] = runtime[n]
      /\ m_current_config'[n] = m_current_config[n]
      /\ m_version'[n] = m_version[n]
      /\ m_status_msg'[n] = m_status_msg[n]
      /\ m_row_exists'[n] = m_row_exists[n]
      /\ fetched'[n] = fetched[n]
      /\ file'[n] = file[n]
      /\ diverged'[n] = diverged[n]
  BY SyncAssumption, SMTT(120) DEF FunOK, NodeType, Config, CommitFails
<1>2. FunOK'
  <2>1. faults' \in 0..MaxFaults
    BY SyncAssumption, SMTT(120) DEF FunOK, CommitFails, Fault
  <2>2. QED
    BY <2>1, ZenonT(120) DEF FunOK, CommitFails, update_config
<1>3. ASSUME NEW m \in Nodes \ {n} PROVE Same(m)
  BY SMTT(120) DEF FunOK, Same, CommitFails
<1>4. Grows /\ LockInv'
  <2>1. CASE update_config(n)
    <3>1. Grows /\ txn' = txn \ {n} /\ \A m \in txn' : ~m_row_exists[m]
      BY <2>1, UpdateEffect, SMTT(120)
    <3>2. ASSUME NEW m \in txn'
          PROVE  m \in txn /\ pc'[m] = pc[m] /\ m_version'[m] = m_version[m] /\ ~m_row_exists'[m]
      BY <1>3, <3>1, ZenonT(120) DEF Same, FunOK
    <3>3. QED
      BY <3>1, <3>2, ZenonT(120) DEF LockInv, LockIsReleased
  <2>2. CASE UNCHANGED <<db, log>> /\ txn' = txn \ {n}
    BY <1>3, <2>2, LogKeeps, LockKeeps, SMTT(120)
  <2>3. QED
    BY <2>1, <2>2, ZenonT(120) DEF CommitFails
<1>5. NodeInv(n)'
  <2>1. NodeType(n)'
    BY <1>1, <1>4, KnownKeeps, ZenonT(120) DEF NodeType
  <2>2. CurrentInv(n)'
    BY <1>1, <1>4, SyncAssumption, ZenonT(120) DEF CurrentInv, NodeType, Config
  <2>3. BaseInv(n)'
    BY <1>1, <1>4, KnownKeeps, ZenonT(120) DEF BaseInv, Base, CurrentInv
  <2>4. StoredInv(n)'
    <3>1. file[n] # None => file[n].config = log'[file[n].version]
      BY <1>4, KnownKeeps, ZenonT(120) DEF StoredInv
    <3>2. QED
      BY <1>1, <3>1, ZenonT(120) DEF StoredInv
  <2>5. QED
    BY <2>1, <2>2, <2>3, <2>4, SMTT(120) DEF NodeInv
<1>6. QED
  BY <1>2, <1>3, <1>4, <1>5, Combine, SMTT(120)

LEMMA CommitDoneStep ==
    ASSUME IInv, NEW n \in Nodes, CommitDone(n)
    PROVE  IInv'
<1>. /\ FunOK /\ DbOK /\ LockInv /\ db.version \in Nat
     /\ NodeType(n) /\ CurrentInv(n) /\ BaseInv(n) /\ StoredInv(n)
  BY SMTT(120) DEF IInv, NodeInv, DbOK
<1>1. /\ pc[n] = "save"
      /\ up'[n] = up[n]
      /\ pc'[n] = "idle"
      /\ runtime'[n] = runtime[n]
      /\ m_current_config'[n] = runtime[n]
      /\ m_version'[n] = m_version[n] + 1
      /\ m_status_msg'[n] = "OK"
      /\ m_row_exists'[n] = m_row_exists[n]
      /\ fetched'[n] = fetched[n]
      /\ file'[n] \in {file[n], [version |-> m_version[n] + 1, config |-> runtime[n]]}
      /\ diverged'[n] = "no"
  BY SyncAssumption, SMTT(120) DEF FunOK, NodeType, Config, CommitDone, Fault
<1>2. FunOK'
  <2>1. faults' \in 0..MaxFaults
    BY SyncAssumption, SMTT(120) DEF FunOK, CommitDone, Fault
  <2>2. QED
    BY <2>1, ZenonT(120) DEF FunOK, CommitDone
<1>3. ASSUME NEW m \in Nodes \ {n} PROVE Same(m)
  BY ZenonT(120) DEF FunOK, Same, CommitDone, Fault
<1>4. Grows /\ db'.version = db.version /\ log' = log
  BY LogKeeps, SMTT(120) DEF CommitDone, Fault
<1>5. LockInv'
  BY <1>1, <1>3, <1>4, LockKeeps, ZenonT(120) DEF LockInv, LockIsReleased, CurrentInv, CommitDone, Fault
<1>6. /\ [version |-> m_version[n] + 1, config |-> runtime[n]] \in Version
      /\ m_version[n] + 1 \in 0..db.version
      /\ runtime[n] = log[m_version[n] + 1]
  <2>1. m_version[n] \in 0..db.version /\ runtime[n] \in Config
    BY ZenonT(120) DEF NodeType
  <2>2. m_version[n] < db.version /\ runtime[n] = log[m_version[n] + 1]
    BY <1>1, ZenonT(120) DEF StoredInv
  <2>3. m_version[n] + 1 \in 1..db.version /\ m_version[n] + 1 \in 0..db.version
    BY <2>1, <2>2, SMTT(120)
  <2>4. QED
    BY <2>1, <2>2, <2>3, ZenonT(120) DEF Version
<1>7. NodeInv(n)'
  <2>1. NodeType(n)'
    BY <1>1, <1>4, <1>6, ZenonT(120) DEF NodeType, Version, Config
  <2>2. CurrentInv(n)'
    BY <1>1, <1>4, <1>6, SyncAssumption, ZenonT(120) DEF CurrentInv, NodeType, Config
  <2>3. BaseInv(n)'
    BY <1>1, <1>4, <1>6, ZenonT(120) DEF BaseInv, Base, CurrentInv, NodeType
  <2>4. StoredInv(n)'
    <3>1. CASE file'[n] = file[n]
      BY <1>1, <1>4, <3>1, ZenonT(120) DEF StoredInv
    <3>2. CASE file'[n] = [version |-> m_version[n] + 1, config |-> runtime[n]]
      <4>1. file'[n].version = m_version[n] + 1 /\ file'[n].config = runtime[n]
        BY <3>2, SMTT(120)
      <4>2. QED
        BY <1>1, <1>4, <1>6, <4>1, ZenonT(120) DEF StoredInv
    <3>3. QED
      BY <1>1, <3>1, <3>2, ZenonT(120)
  <2>5. QED
    BY <2>1, <2>2, <2>3, <2>4, SMTT(120) DEF NodeInv
<1>8. QED
  BY <1>2, <1>3, <1>4, <1>5, <1>7, Combine, SMTT(120)

LEMMA CommitRevertsStep ==
    ASSUME IInv, NEW n \in Nodes, CommitReverts(n)
    PROVE  IInv'
<1>. /\ FunOK /\ DbOK /\ LockInv /\ db.version \in Nat
     /\ NodeType(n) /\ CurrentInv(n) /\ BaseInv(n) /\ StoredInv(n)
  BY SMTT(120) DEF IInv, NodeInv, DbOK
<1>1. Current(n) = m_current_config[n]
  BY SyncAssumption, ZenonT(120) DEF CommitReverts, Current, CurrentInv, Config
<1>2. /\ pc[n] = "revert"
      /\ pc'[n] = "idle"
      /\ m_version'[n] = m_version[n]
      /\ m_status_msg'[n] = m_status_msg[n]
      /\ m_row_exists'[n] = m_row_exists[n]
      /\ fetched'[n] = fetched[n]
      /\ \/ /\ up'[n] = up[n]
            /\ runtime'[n] = m_current_config[n]
            /\ m_current_config'[n] = m_current_config[n]
            /\ file'[n] = file[n]
            /\ diverged'[n] = diverged[n]
         \/ /\ up'[n] = up[n]
            /\ runtime'[n] \in Config
            /\ m_current_config'[n] = runtime'[n]
            /\ file'[n] = file[n]
            /\ diverged'[n] = Locally(diverged[n])
            /\ m_current_config[n] \cap runtime[n] \subseteq runtime'[n]
         \/ /\ up'[n] = FALSE
            /\ runtime'[n] = runtime[n]
            /\ m_current_config'[n] = m_current_config[n]
            /\ file'[n] = None
            /\ diverged'[n] = diverged[n]
  <2>1. /\ pc[n] = "revert"
        /\ pc'[n] = "idle"
        /\ m_status_msg'[n] = m_status_msg[n]
        /\ m_row_exists'[n] = m_row_exists[n]
        /\ fetched'[n] = fetched[n]
    BY SMTT(120) DEF FunOK, CommitReverts
  <2>2. CASE Reverted(n, m_version[n]) /\ UNCHANGED diverged
    BY <1>1, <2>1, <2>2, SMTT(120) DEF FunOK, Reverted
  <2>3. CASE NotReverted(n, runtime[n], m_version[n]) /\ diverged' = [diverged EXCEPT ![n] = Locally(@)]
    <3>1. PICK objects \in SUBSET (m_current_config[n] \cup runtime[n]) :
              /\ m_current_config[n] \cap runtime[n] \subseteq objects
              /\ runtime' = [runtime EXCEPT ![n] = objects]
              /\ m_current_config' = [m_current_config EXCEPT ![n] = objects]
      BY <1>1, <2>3, ZenonT(120) DEF NotReverted
    <3>2. m_current_config[n] \in Config /\ runtime[n] \in Config
      BY <2>1, ZenonT(120) DEF NodeType, CurrentInv, Version
    <3>3. objects \in Config /\ runtime'[n] = objects /\ m_current_config'[n] = objects
      BY <3>1, <3>2, SMTT(120) DEF FunOK, Config
    <3>4. QED
      BY <2>1, <2>3, <3>1, <3>3, SMTT(120) DEF FunOK, NotReverted
  <2>4. CASE Abort(n) /\ UNCHANGED diverged
    BY <2>1, <2>4, SMTT(120) DEF FunOK, Abort
  <2>5. QED
    BY <2>2, <2>3, <2>4, ZenonT(120) DEF CommitReverts
<1>3. FunOK'
  BY SyncAssumption, SMTT(120) DEF FunOK, CommitReverts, Reverted, NotReverted, Abort, Fault
<1>4. ASSUME NEW m \in Nodes \ {n} PROVE Same(m)
  BY ZenonT(120) DEF FunOK, Same, CommitReverts, Reverted, NotReverted, Abort, Fault
<1>5. Grows /\ db'.version = db.version /\ log' = log
  BY LogKeeps, SMTT(120) DEF CommitReverts, Reverted, NotReverted, Abort, Fault
<1>6. LockInv'
  BY <1>2, <1>4, <1>5, LockKeeps, SMTT(120) DEF LockInv, LockIsReleased, CurrentInv, CommitReverts, Reverted, NotReverted, Abort, Fault
<1>7. NodeInv(n)'
  <2>1. NodeType(n)'
    BY <1>2, <1>5, ZenonT(120) DEF NodeType, CurrentInv, Version, Locally
  <2>2. CurrentInv(n)'
    BY <1>2, <1>5, SyncAssumption, ZenonT(120) DEF CurrentInv, NodeType, Config
  <2>3. BaseInv(n)'
    BY <1>2, <1>5, ZenonT(120) DEF BaseInv, Base, CurrentInv, NodeType, Locally
  <2>4. StoredInv(n)'
    BY <1>2, <1>5, ZenonT(120) DEF StoredInv
  <2>5. QED
    BY <2>1, <2>2, <2>3, <2>4, SMTT(120) DEF NodeInv
<1>8. QED
  BY <1>3, <1>4, <1>5, <1>6, <1>7, Combine, SMTT(120)

LEMMA FetchStatusStep ==
    ASSUME IInv, NEW n \in Nodes, FetchStatus(n)
    PROVE  IInv'
<1>. /\ FunOK /\ DbOK /\ LockInv /\ db.version \in Nat
     /\ NodeType(n) /\ CurrentInv(n) /\ BaseInv(n) /\ StoredInv(n)
  BY SMTT(120) DEF IInv, NodeInv, DbOK
<1>1. /\ up[n]
      /\ pc[n] = "idle"
      /\ up'[n] = up[n]
      /\ pc'[n] = pc[n]
      /\ runtime'[n] = runtime[n]
      /\ m_current_config'[n] = m_current_config[n]
      /\ m_version'[n] = m_version[n]
      /\ m_status_msg'[n] \in {"OK", "error"}
      /\ m_row_exists'[n] = m_row_exists[n]
      /\ fetched'[n] = fetched[n]
      /\ file'[n] = file[n]
      /\ diverged'[n] = diverged[n]
  BY SyncAssumption, SMTT(120) DEF FunOK, NodeType, DbOK, FetchStatus
<1>2. FunOK'
  BY SyncAssumption, SMTT(120) DEF FunOK, FetchStatus, RowLocked
<1>3. ASSUME NEW m \in Nodes \ {n} PROVE Same(m)
  BY SMTT(120) DEF FunOK, Same, FetchStatus, RowLocked
<1>4. Grows /\ db'.version = db.version /\ log' = log
  BY LogKeeps, SMTT(120) DEF FetchStatus, RowLocked, NodeType
<1>5. LockInv'
  BY <1>1, <1>3, <1>4, LockKeeps, SMTT(120) DEF LockInv, LockIsReleased, CurrentInv, FetchStatus, RowLocked
<1>6. NodeInv(n)'
  <2>1. NodeType(n)'
    BY <1>1, <1>4, ZenonT(120) DEF NodeType, Version
  <2>2. CurrentInv(n)'
    BY <1>1, <1>4, SyncAssumption, ZenonT(120) DEF CurrentInv, NodeType, Config
  <2>3. BaseInv(n)'
    BY <1>1, <1>4, ZenonT(120) DEF BaseInv, Base, CurrentInv, NodeType
  <2>4. StoredInv(n)'
    BY <1>1, <1>4, ZenonT(120) DEF StoredInv
  <2>5. QED
    BY <2>1, <2>2, <2>3, <2>4, SMTT(120) DEF NodeInv
<1>7. QED
  BY <1>2, <1>3, <1>4, <1>5, <1>6, Combine, SMTT(120)

LEMMA FetchStep ==
    ASSUME IInv, NEW n \in Nodes, Fetch(n)
    PROVE  IInv'
<1>. /\ FunOK /\ DbOK /\ LockInv /\ db.version \in Nat
     /\ NodeType(n) /\ CurrentInv(n) /\ BaseInv(n) /\ StoredInv(n)
  BY SMTT(120) DEF IInv, NodeInv, DbOK
<1>1. /\ up[n]
      /\ pc[n] = "idle"
      /\ db.version > m_version[n]
      /\ up'[n] = up[n]
      /\ pc'[n] = "apply"
      /\ runtime'[n] = runtime[n]
      /\ m_current_config'[n] = m_current_config[n]
      /\ m_version'[n] = m_version[n]
      /\ m_status_msg'[n] = m_status_msg[n]
      /\ m_row_exists'[n] = m_row_exists[n]
      /\ fetched'[n] = [version |-> db.version, config |-> db.config]
      /\ file'[n] = file[n]
      /\ diverged'[n] = diverged[n]
  BY SyncAssumption, SMTT(120) DEF FunOK, NodeType, Config, Fetch
<1>2. FunOK'
  BY SyncAssumption, ZenonT(120) DEF FunOK, Fetch
<1>3. ASSUME NEW m \in Nodes \ {n} PROVE Same(m)
  BY SMTT(120) DEF FunOK, Same, Fetch
<1>4. Grows /\ db'.version = db.version /\ log' = log
  BY LogKeeps, SMTT(120) DEF Fetch
<1>5. LockInv'
  BY <1>1, <1>3, <1>4, LockKeeps, ZenonT(120) DEF LockInv, LockIsReleased, CurrentInv, Fetch
<1>6. /\ [version |-> db.version, config |-> db.config] \in Version
      /\ m_version[n] \in Nat
      /\ db.config = log[db.version]
  <2>1. m_version[n] \in Nat /\ db.version \in 1..db.version
    <3>1. m_version[n] \in 0..db.version /\ db.version > m_version[n]
      BY <1>1, ZenonT(120) DEF NodeType
    <3>2. QED
      BY <3>1, SMTT(120)
  <2>2. db.config \in Config /\ db.config = log[db.version]
    BY SMTT(120) DEF DbOK
  <2>3. QED
    BY <2>1, <2>2, SMTT(120) DEF Version
<1>7. NodeInv(n)'
  <2>1. NodeType(n)'
    <3>1. Version' = Version
      BY <1>4, SMTT(120) DEF Version
    <3>2. fetched'[n] \in Version' /\ fetched'[n].version > m_version'[n]
      BY <1>1, <1>6, <3>1, SMTT(120)
    <3>3. m_version'[n] \in 0..db'.version /\ file'[n] \in {None} \cup Version'
      BY <1>1, <1>4, <3>1, ZenonT(120) DEF NodeType
    <3>4. QED
      BY <1>1, <3>2, <3>3, ZenonT(120) DEF NodeType
  <2>2. CurrentInv(n)'
    BY <1>1, <1>4, <1>6, SyncAssumption, ZenonT(120) DEF CurrentInv, NodeType, Config
  <2>3. BaseInv(n)'
    BY <1>1, <1>4, <1>6, ZenonT(120) DEF BaseInv, Base, CurrentInv, NodeType
  <2>4. StoredInv(n)'
    <3>1. fetched'[n].config = log'[fetched'[n].version]
      <4>1. fetched'[n].version = db.version /\ fetched'[n].config = db.config
        BY <1>1, SMTT(120)
      <4>2. QED
        BY <1>4, <1>6, <4>1, ZenonT(120)
    <3>2. file'[n] # None => file'[n].config = log'[file'[n].version]
      BY <1>1, <1>4, SMTT(120) DEF StoredInv
    <3>3. QED
      BY <1>1, <3>1, <3>2, ZenonT(120) DEF StoredInv
  <2>5. QED
    BY <2>1, <2>2, <2>3, <2>4, SMTT(120) DEF NodeInv
<1>8. QED
  BY <1>2, <1>3, <1>4, <1>5, <1>7, Combine, SMTT(120)

LEMMA FetchFailsStep ==
    ASSUME IInv, NEW n \in Nodes, FetchFails(n)
    PROVE  IInv'
<1>. /\ FunOK /\ DbOK /\ LockInv /\ db.version \in Nat
     /\ NodeType(n) /\ CurrentInv(n) /\ BaseInv(n) /\ StoredInv(n)
  BY SMTT(120) DEF IInv, NodeInv, DbOK
<1>1. /\ up[n]
      /\ pc[n] = "idle"
      /\ up'[n] = up[n]
      /\ pc'[n] = pc[n]
      /\ runtime'[n] = runtime[n]
      /\ m_current_config'[n] = m_current_config[n]
      /\ m_version'[n] = m_version[n]
      /\ m_status_msg'[n] = "error"
      /\ m_row_exists'[n] = m_row_exists[n]
      /\ fetched'[n] = fetched[n]
      /\ file'[n] = file[n]
      /\ diverged'[n] = diverged[n]
  BY SyncAssumption, SMTT(120) DEF FunOK, NodeType, Config, FetchFails
<1>2. FunOK'
  BY SyncAssumption, ZenonT(120) DEF FunOK, FetchFails
<1>3. ASSUME NEW m \in Nodes \ {n} PROVE Same(m)
  BY SMTT(120) DEF FunOK, Same, FetchFails
<1>4. Grows /\ db'.version = db.version /\ log' = log
  BY LogKeeps, SMTT(120) DEF FetchFails
<1>5. LockInv'
  BY <1>1, <1>3, <1>4, LockKeeps, ZenonT(120) DEF LockInv, LockIsReleased, CurrentInv, FetchFails
<1>6. NodeInv(n)'
  <2>1. NodeType(n)'
    BY <1>1, <1>4, ZenonT(120) DEF NodeType, Version, Config
  <2>2. CurrentInv(n)'
    BY <1>1, <1>4, SyncAssumption, ZenonT(120) DEF CurrentInv, NodeType, Config
  <2>3. BaseInv(n)'
    BY <1>1, <1>4, ZenonT(120) DEF BaseInv, Base, CurrentInv, NodeType
  <2>4. StoredInv(n)'
    BY <1>1, <1>4, ZenonT(120) DEF StoredInv
  <2>5. QED
    BY <2>1, <2>2, <2>3, <2>4, SMTT(120) DEF NodeInv
<1>7. QED
  BY <1>2, <1>3, <1>4, <1>5, <1>6, Combine, SMTT(120)

LEMMA ApplyStep ==
    ASSUME IInv, NEW n \in Nodes, Apply(n)
    PROVE  IInv'
<1>. /\ FunOK /\ DbOK /\ LockInv /\ db.version \in Nat
     /\ NodeType(n) /\ CurrentInv(n) /\ BaseInv(n) /\ StoredInv(n)
  BY SMTT(120) DEF IInv, NodeInv, DbOK
<1>1. Current(n) = runtime[n]
  BY SyncAssumption, ZenonT(120) DEF Apply, Current, CurrentInv, Config
<1>2. /\ pc[n] = "apply"
      /\ up'[n] = up[n]
      /\ pc'[n] = "status"
      /\ runtime'[n] = Processed(n, runtime[n], fetched[n].config)
      /\ m_current_config'[n] = fetched[n].config
      /\ m_version'[n] = fetched[n].version
      /\ m_status_msg'[n] = "OK"
      /\ m_row_exists'[n] = m_row_exists[n]
      /\ fetched'[n] = None
      /\ file'[n] \in {file[n], fetched[n]}
      /\ diverged'[n] = "no"
  BY <1>1, SyncAssumption, SMTT(120) DEF FunOK, NodeType, Config, Apply, Fault
<1>3. FunOK'
  <2>1. faults' \in 0..MaxFaults
    BY SyncAssumption, SMTT(120) DEF FunOK, Apply, Fault
  <2>2. QED
    BY <2>1, ZenonT(120) DEF FunOK, Apply
<1>4. ASSUME NEW m \in Nodes \ {n} PROVE Same(m)
  BY ZenonT(120) DEF FunOK, Same, Apply, Fault
<1>5. Grows /\ db'.version = db.version /\ log' = log
  BY LogKeeps, SMTT(120) DEF Apply, Fault
<1>6. LockInv'
  BY <1>2, <1>4, <1>5, LockKeeps, ZenonT(120) DEF LockInv, LockIsReleased, CurrentInv, Apply, Fault
<1>7. /\ fetched[n] \in Version
      /\ fetched[n].version \in 1..db.version
      /\ fetched[n].config \in Config
      /\ fetched[n].config = log[fetched[n].version]
  BY <1>2, ZenonT(120) DEF NodeType, StoredInv, Version
<1>8. runtime'[n] = fetched[n].config
  BY <1>2, ZenonT(120) DEF Processed
<1>9. NodeInv(n)'
  <2>1. NodeType(n)'
    <3>1. fetched[n].version \in 0..db'.version
      BY <1>5, <1>7, SMTT(120)
    <3>2. Version' = Version
      BY <1>5, SMTT(120) DEF Version
    <3>3. file'[n] \in {None} \cup Version'
      BY <1>2, <1>7, <3>2, ZenonT(120) DEF NodeType
    <3>4. QED
      BY <1>2, <1>7, <1>8, <3>1, <3>3, ZenonT(120) DEF NodeType
  <2>2. CurrentInv(n)'
    BY <1>2, <1>5, <1>7, <1>8, SyncAssumption, ZenonT(120) DEF CurrentInv, NodeType, Config
  <2>3. BaseInv(n)'
    BY <1>2, <1>5, <1>7, <1>8, ZenonT(120) DEF BaseInv, Base, CurrentInv, NodeType
  <2>4. StoredInv(n)'
    BY <1>2, <1>5, <1>7, <1>8, ZenonT(120) DEF StoredInv
  <2>5. QED
    BY <2>1, <2>2, <2>3, <2>4, SMTT(120) DEF NodeInv
<1>10. QED
  BY <1>3, <1>4, <1>5, <1>6, <1>9, Combine, SMTT(120)

LEMMA ApplyFailsStep ==
    ASSUME IInv, NEW n \in Nodes, ApplyFails(n)
    PROVE  IInv'
<1>. /\ FunOK /\ DbOK /\ LockInv /\ db.version \in Nat
     /\ NodeType(n) /\ CurrentInv(n) /\ BaseInv(n) /\ StoredInv(n)
  BY SMTT(120) DEF IInv, NodeInv, DbOK
<1>1. Current(n) = runtime[n]
  BY SyncAssumption, ZenonT(120) DEF ApplyFails, Current, CurrentInv, Config
<1>2. /\ pc[n] = "apply"
      /\ pc'[n] = "idle"
      /\ m_status_msg'[n] = "error"
      /\ m_row_exists'[n] = m_row_exists[n]
      /\ fetched'[n] = None
      /\ diverged'[n] = "ignored"
      /\ \/ /\ up'[n] = up[n]
            /\ runtime'[n] = runtime[n]
            /\ m_current_config'[n] = runtime[n]
            /\ m_version'[n] = fetched[n].version
            /\ file'[n] = file[n]
         \/ /\ up'[n] = up[n]
            /\ runtime'[n] \in Config
            /\ m_current_config'[n] = runtime'[n]
            /\ m_version'[n] = fetched[n].version
            /\ file'[n] = file[n]
         \/ /\ up'[n] = FALSE
            /\ runtime'[n] = runtime[n]
            /\ m_current_config'[n] = m_current_config[n]
            /\ m_version'[n] = m_version[n]
            /\ file'[n] = None
  <2>1. /\ pc[n] = "apply"
        /\ pc'[n] = "idle"
        /\ m_status_msg'[n] = "error"
        /\ m_row_exists'[n] = m_row_exists[n]
        /\ fetched'[n] = None
        /\ diverged'[n] = "ignored"
    BY SMTT(120) DEF FunOK, ApplyFails
  <2>2. CASE Reverted(n, fetched[n].version)
    BY <1>1, <2>1, <2>2, SMTT(120) DEF FunOK, Reverted
  <2>3. CASE NotReverted(n, fetched[n].config, fetched[n].version)
    <3>1. PICK objects \in SUBSET (runtime[n] \cup fetched[n].config) :
              /\ runtime[n] \cap fetched[n].config \subseteq objects
              /\ runtime' = [runtime EXCEPT ![n] = objects]
              /\ m_current_config' = [m_current_config EXCEPT ![n] = objects]
      BY <1>1, <2>3, ZenonT(120) DEF NotReverted
    <3>2. runtime[n] \in Config /\ fetched[n].config \in Config
      BY <2>1, ZenonT(120) DEF NodeType, CurrentInv, Version
    <3>3. objects \in Config /\ runtime'[n] = objects /\ m_current_config'[n] = objects
      BY <3>1, <3>2, SMTT(120) DEF FunOK, Config
    <3>4. QED
      BY <2>1, <2>3, <3>1, <3>3, ZenonT(120) DEF FunOK, NotReverted
  <2>4. CASE Abort(n)
    BY <2>1, <2>4, SMTT(120) DEF FunOK, Abort
  <2>5. QED
    BY <2>2, <2>3, <2>4, ZenonT(120) DEF ApplyFails
<1>3. FunOK'
  <2>1. faults' \in 0..MaxFaults
    BY SyncAssumption, SMTT(120) DEF FunOK, ApplyFails, Fault
  <2>2. QED
    BY <2>1, ZenonT(120) DEF FunOK, ApplyFails, Reverted, NotReverted, Abort
<1>4. ASSUME NEW m \in Nodes \ {n} PROVE Same(m)
  BY ZenonT(120) DEF FunOK, Same, ApplyFails, Reverted, NotReverted, Abort, Fault
<1>5. Grows /\ db'.version = db.version /\ log' = log
  BY LogKeeps, SMTT(120) DEF ApplyFails, Reverted, NotReverted, Abort, Fault
<1>6. LockInv'
  BY <1>2, <1>4, <1>5, LockKeeps, ZenonT(120) DEF LockInv, LockIsReleased, CurrentInv, ApplyFails, Reverted, NotReverted, Abort, Fault
<1>7. /\ fetched[n] \in Version
      /\ fetched[n].version \in 1..db.version
      /\ fetched[n].config \in Config
      /\ fetched[n].config = log[fetched[n].version]
  BY <1>2, ZenonT(120) DEF NodeType, StoredInv, Version
<1>8. NodeInv(n)'
  <2>1. NodeType(n)'
    <3>1. fetched[n].version \in 0..db'.version
      BY <1>5, <1>7, SMTT(120)
    <3>2. Version' = Version
      BY <1>5, SMTT(120) DEF Version
    <3>3. runtime'[n] \in Config /\ m_current_config'[n] \in Config \cup {None}
      BY <1>2, ZenonT(120) DEF NodeType
    <3>4. m_version'[n] \in 0..db'.version
      BY <1>2, <1>5, <3>1, ZenonT(120) DEF NodeType
    <3>5. file'[n] \in {None} \cup Version'
      BY <1>2, <3>2, ZenonT(120) DEF NodeType
    <3>6. QED
      BY <1>2, <3>3, <3>4, <3>5, ZenonT(120) DEF NodeType
  <2>2. CurrentInv(n)'
    BY <1>2, <1>5, <1>7, SyncAssumption, ZenonT(120) DEF CurrentInv, NodeType, Config
  <2>3. BaseInv(n)'
    BY <1>2, <1>5, <1>7, ZenonT(120) DEF BaseInv, Base, CurrentInv, NodeType
  <2>4. StoredInv(n)'
    BY <1>2, <1>5, <1>7, ZenonT(120) DEF StoredInv
  <2>5. QED
    BY <2>1, <2>2, <2>3, <2>4, SMTT(120) DEF NodeInv
<1>9. QED
  BY <1>3, <1>4, <1>5, <1>6, <1>8, Combine, SMTT(120)

LEMMA UpdateStatusStep ==
    ASSUME IInv, NEW n \in Nodes, UpdateStatus(n)
    PROVE  IInv'
<1>. /\ FunOK /\ DbOK /\ LockInv /\ db.version \in Nat
     /\ NodeType(n) /\ CurrentInv(n) /\ BaseInv(n) /\ StoredInv(n)
  BY SMTT(120) DEF IInv, NodeInv, DbOK
<1>1. /\ pc[n] = "status"
      /\ up'[n] = up[n]
      /\ pc'[n] = "idle"
      /\ runtime'[n] = runtime[n]
      /\ m_current_config'[n] = m_current_config[n]
      /\ m_version'[n] = m_version[n]
      /\ m_status_msg'[n] = m_status_msg[n]
      /\ m_row_exists'[n] = m_row_exists[n]
      /\ fetched'[n] = fetched[n]
      /\ file'[n] = file[n]
      /\ diverged'[n] = diverged[n]
  BY SyncAssumption, SMTT(120) DEF FunOK, NodeType, Config, UpdateStatus, RowLocked
<1>2. FunOK'
  BY SyncAssumption, ZenonT(120) DEF FunOK, UpdateStatus, RowLocked
<1>3. ASSUME NEW m \in Nodes \ {n} PROVE Same(m)
  BY SMTT(120) DEF FunOK, Same, UpdateStatus, RowLocked
<1>4. Grows /\ db'.version = db.version /\ log' = log
  BY LogKeeps, SMTT(120) DEF UpdateStatus, RowLocked
<1>5. LockInv'
  BY <1>1, <1>3, <1>4, LockKeeps, SMTT(120) DEF LockInv, LockIsReleased, CurrentInv, UpdateStatus, RowLocked
<1>6. NodeInv(n)'
  <2>1. NodeType(n)'
    BY <1>1, <1>4, ZenonT(120) DEF NodeType, Version, Config
  <2>2. CurrentInv(n)'
    BY <1>1, <1>4, SyncAssumption, ZenonT(120) DEF CurrentInv, NodeType, Config
  <2>3. BaseInv(n)'
    BY <1>1, <1>4, ZenonT(120) DEF BaseInv, Base, CurrentInv, NodeType
  <2>4. StoredInv(n)'
    BY <1>1, <1>4, ZenonT(120) DEF StoredInv
  <2>5. QED
    BY <2>1, <2>2, <2>3, <2>4, SMTT(120) DEF NodeInv
<1>7. QED
  BY <1>2, <1>3, <1>4, <1>5, <1>6, Combine, SMTT(120)

LEMMA ConnectionLostStep ==
    ASSUME IInv, NEW n \in Nodes, ConnectionLost(n)
    PROVE  IInv'
<1>. /\ FunOK /\ DbOK /\ LockInv /\ db.version \in Nat
     /\ NodeType(n) /\ CurrentInv(n) /\ BaseInv(n) /\ StoredInv(n)
  BY SMTT(120) DEF IInv, NodeInv, DbOK
<1>1. /\ up'[n] = up[n]
      /\ pc'[n] = pc[n]
      /\ runtime'[n] = runtime[n]
      /\ m_current_config'[n] = m_current_config[n]
      /\ m_version'[n] = m_version[n]
      /\ m_status_msg'[n] = m_status_msg[n]
      /\ m_row_exists'[n] = m_row_exists[n]
      /\ fetched'[n] = fetched[n]
      /\ file'[n] = file[n]
      /\ diverged'[n] = diverged[n]
  BY SyncAssumption, SMTT(120) DEF FunOK, NodeType, Config, ConnectionLost, Fault, node_vars
<1>2. FunOK'
  BY SyncAssumption, SMTT(120) DEF FunOK, ConnectionLost, Fault, node_vars
<1>3. ASSUME NEW m \in Nodes \ {n} PROVE Same(m)
  BY SMTT(120) DEF FunOK, Same, ConnectionLost, Fault, node_vars
<1>4. Grows /\ db'.version = db.version /\ log' = log
  BY LogKeeps, SMTT(120) DEF ConnectionLost, Fault, node_vars
<1>5. LockInv'
  BY <1>1, <1>3, <1>4, LockKeeps, ZenonT(120) DEF LockInv, LockIsReleased, CurrentInv, ConnectionLost, Fault, node_vars
<1>6. NodeInv(n)'
  <2>1. NodeType(n)'
    BY <1>1, <1>4, ZenonT(120) DEF NodeType, Version, Config
  <2>2. CurrentInv(n)'
    BY <1>1, <1>4, SyncAssumption, ZenonT(120) DEF CurrentInv, NodeType, Config
  <2>3. BaseInv(n)'
    BY <1>1, <1>4, ZenonT(120) DEF BaseInv, Base, CurrentInv, NodeType
  <2>4. StoredInv(n)'
    BY <1>1, <1>4, ZenonT(120) DEF StoredInv
  <2>5. QED
    BY <2>1, <2>2, <2>3, <2>4, SMTT(120) DEF NodeInv
<1>7. QED
  BY <1>2, <1>3, <1>4, <1>5, <1>6, Combine, SMTT(120)

LEMMA CrashStep ==
    ASSUME IInv, NEW n \in Nodes, Crash(n)
    PROVE  IInv'
<1>. /\ FunOK /\ DbOK /\ LockInv /\ db.version \in Nat
     /\ NodeType(n) /\ CurrentInv(n) /\ BaseInv(n) /\ StoredInv(n)
  BY SMTT(120) DEF IInv, NodeInv, DbOK
<1>1. /\ up'[n] = FALSE
      /\ pc'[n] = "idle"
      /\ runtime'[n] = runtime[n]
      /\ m_current_config'[n] = m_current_config[n]
      /\ m_version'[n] = m_version[n]
      /\ m_status_msg'[n] = m_status_msg[n]
      /\ m_row_exists'[n] = m_row_exists[n]
      /\ fetched'[n] = None
      /\ file'[n] = file[n]
      /\ diverged'[n] = diverged[n]
  BY SyncAssumption, SMTT(120) DEF FunOK, NodeType, Config, Crash, Fault
<1>2. FunOK'
  <2>1. faults' \in 0..MaxFaults
    BY SyncAssumption, SMTT(120) DEF FunOK, Crash, Fault
  <2>2. QED
    BY <2>1, ZenonT(120) DEF FunOK, Crash
<1>3. ASSUME NEW m \in Nodes \ {n} PROVE Same(m)
  BY ZenonT(120) DEF FunOK, Same, Crash, Fault
<1>4. Grows /\ db'.version = db.version /\ log' = log
  BY LogKeeps, SMTT(120) DEF Crash, Fault
<1>5. LockInv'
  BY <1>1, <1>3, <1>4, LockKeeps, ZenonT(120) DEF LockInv, LockIsReleased, CurrentInv, Crash, Fault
<1>6. NodeInv(n)'
  <2>1. NodeType(n)'
    BY <1>1, <1>4, ZenonT(120) DEF NodeType, Version, Config
  <2>2. CurrentInv(n)'
    BY <1>1, <1>4, SyncAssumption, ZenonT(120) DEF CurrentInv, NodeType, Config
  <2>3. BaseInv(n)'
    BY <1>1, <1>4, ZenonT(120) DEF BaseInv, Base, CurrentInv, NodeType
  <2>4. StoredInv(n)'
    BY <1>1, <1>4, ZenonT(120) DEF StoredInv
  <2>5. QED
    BY <2>1, <2>2, <2>3, <2>4, SMTT(120) DEF NodeInv
<1>7. QED
  BY <1>2, <1>3, <1>4, <1>5, <1>6, Combine, SMTT(120)

LEMMA RestartStep ==
    ASSUME IInv, NEW n \in Nodes, Restart(n)
    PROVE  IInv'
<1>. /\ FunOK /\ DbOK /\ LockInv /\ db.version \in Nat
     /\ NodeType(n) /\ CurrentInv(n) /\ BaseInv(n) /\ StoredInv(n)
  BY SMTT(120) DEF IInv, NodeInv, DbOK
<1>1. /\ ~up[n]
      /\ up'[n] = TRUE
      /\ pc'[n] = pc[n]
      /\ m_status_msg'[n] = "OK"
      /\ m_row_exists'[n] = FALSE
      /\ fetched'[n] = fetched[n]
      /\ file'[n] = file[n]
      /\ diverged'[n] = "no"
  BY SMTT(120) DEF FunOK, Restart
<1>2. \/ /\ runtime'[n] = {}
          /\ m_current_config'[n] = None
          /\ m_version'[n] = 0
       \/ /\ file[n] # None
          /\ runtime'[n] = file[n].config
          /\ m_current_config'[n] = file[n].config
          /\ m_version'[n] = file[n].version
  BY SMTT(120) DEF FunOK, Restart
<1>3. FunOK'
  BY SyncAssumption, ZenonT(120) DEF FunOK, Restart
<1>4. ASSUME NEW m \in Nodes \ {n} PROVE Same(m)
  BY ZenonT(120) DEF FunOK, Same, Restart
<1>5. Grows /\ db'.version = db.version /\ log' = log
  BY LogKeeps, SMTT(120) DEF Restart
<1>6. LockInv'
  BY <1>1, <1>4, <1>5, LockKeeps, ZenonT(120) DEF LockInv, LockIsReleased, CurrentInv, Restart
<1>7. file[n] # None => /\ file[n].version \in 1..db.version
                          /\ file[n].config \in Config
                          /\ file[n].config = log[file[n].version]
  BY ZenonT(120) DEF NodeType, StoredInv, Version
<1>8. pc[n] = "idle" /\ log[0] = {} /\ {} \in Config
  BY <1>1, ZenonT(120) DEF CurrentInv, DbOK, Config
<1>9. NodeInv(n)'
  <2>1. NodeType(n)'
    <3>1. /\ runtime'[n] \in Config
          /\ m_current_config'[n] \in Config \cup {None}
          /\ m_version'[n] \in 0..db'.version
      <4>1. ASSUME runtime'[n] = {}, m_current_config'[n] = None, m_version'[n] = 0
            PROVE  /\ runtime'[n] \in Config
                   /\ m_current_config'[n] \in Config \cup {None}
                   /\ m_version'[n] \in 0..db'.version
        BY <1>5, <1>8, <4>1, SMTT(120)
      <4>2. ASSUME file[n] # None, runtime'[n] = file[n].config, m_current_config'[n] = file[n].config,
                   m_version'[n] = file[n].version
            PROVE  /\ runtime'[n] \in Config
                   /\ m_current_config'[n] \in Config \cup {None}
                   /\ m_version'[n] \in 0..db'.version
        <5>1. file[n].version \in 1..db.version /\ file[n].config \in Config
          BY <1>7, <4>2, ZenonT(120)
        <5>2. file[n].version \in 0..db.version
          BY <5>1, SMTT(120)
        <5>3. QED
          BY <1>5, <4>2, <5>1, <5>2, ZenonT(120)
      <4>3. QED
        BY <1>2, <4>1, <4>2, SMTT(120)
    <3>2. file'[n] \in {None} \cup Version'
      BY <1>1, <1>5, ZenonT(120) DEF NodeType, Version
    <3>3. fetched'[n] \in {None} \cup Version'
      BY <1>1, <1>5, ZenonT(120) DEF NodeType, Version
    <3>4. QED
      BY <1>1, <3>1, <3>2, <3>3, <1>8, ZenonT(120) DEF NodeType
  <2>2. CurrentInv(n)'
    BY <1>1, <1>5, <1>7, <1>8, <1>2, SyncAssumption, ZenonT(120) DEF CurrentInv, NodeType, Config
  <2>3. BaseInv(n)'
    BY <1>1, <1>5, <1>7, <1>8, <1>2, ZenonT(120) DEF BaseInv, Base, CurrentInv, NodeType
  <2>4. StoredInv(n)'
    BY <1>1, <1>5, <1>7, <1>8, <1>2, ZenonT(120) DEF StoredInv
  <2>5. QED
    BY <2>1, <2>2, <2>3, <2>4, SMTT(120) DEF NodeInv
<1>10. QED
  BY <1>3, <1>4, <1>5, <1>6, <1>9, Combine, SMTT(120)

LEMMA RestartFailsStep ==
    ASSUME IInv, NEW n \in Nodes, RestartFails(n)
    PROVE  IInv'
<1>. /\ FunOK /\ DbOK /\ LockInv /\ db.version \in Nat
     /\ NodeType(n) /\ CurrentInv(n) /\ BaseInv(n) /\ StoredInv(n)
  BY SMTT(120) DEF IInv, NodeInv, DbOK
<1>1. /\ ~up[n]
      /\ up'[n] = up[n]
      /\ pc'[n] = pc[n]
      /\ runtime'[n] = runtime[n]
      /\ m_current_config'[n] = m_current_config[n]
      /\ m_version'[n] = m_version[n]
      /\ m_status_msg'[n] = m_status_msg[n]
      /\ m_row_exists'[n] = m_row_exists[n]
      /\ fetched'[n] = fetched[n]
      /\ file'[n] = None
      /\ diverged'[n] = diverged[n]
  BY SyncAssumption, SMTT(120) DEF FunOK, NodeType, Config, RestartFails
<1>2. FunOK'
  BY SyncAssumption, ZenonT(120) DEF FunOK, RestartFails
<1>3. ASSUME NEW m \in Nodes \ {n} PROVE Same(m)
  BY SMTT(120) DEF FunOK, Same, RestartFails
<1>4. Grows /\ db'.version = db.version /\ log' = log
  BY LogKeeps, SMTT(120) DEF RestartFails
<1>5. LockInv'
  BY <1>1, <1>3, <1>4, LockKeeps, ZenonT(120) DEF LockInv, LockIsReleased, CurrentInv, RestartFails
<1>6. NodeInv(n)'
  <2>1. NodeType(n)'
    BY <1>1, <1>4, ZenonT(120) DEF NodeType, Version, Config
  <2>2. CurrentInv(n)'
    BY <1>1, <1>4, SyncAssumption, ZenonT(120) DEF CurrentInv, NodeType, Config
  <2>3. BaseInv(n)'
    BY <1>1, <1>4, ZenonT(120) DEF BaseInv, Base, CurrentInv, NodeType
  <2>4. StoredInv(n)'
    BY <1>1, <1>4, ZenonT(120) DEF StoredInv
  <2>5. QED
    BY <2>1, <2>2, <2>3, <2>4, SMTT(120) DEF NodeInv
<1>7. QED
  BY <1>2, <1>3, <1>4, <1>5, <1>6, Combine, SMTT(120)

-----------------------------------------------------------------------------
LEMMA InitInv == Init => IInv
<1>. SUFFICES ASSUME Init PROVE IInv
  BY SMTT(120)
<1>1. FunOK /\ db.version = 0 /\ log[0] = {} /\ {} \in Config
  BY SyncAssumption, SMTT(120) DEF Init, FunOK, Config
<1>2. DbOK
  BY <1>1, SMTT(120) DEF Init, DbOK
<1>3. LockInv
  BY SMTT(120) DEF Init, LockInv, LockIsReleased
<1>4. ASSUME NEW n \in Nodes PROVE NodeInv(n)
  <2>1. NodeType(n)
    BY <1>1, SMTT(120) DEF Init, NodeType
  <2>2. CurrentInv(n) /\ BaseInv(n) /\ StoredInv(n)
    BY <1>1, ZenonT(120) DEF Init, CurrentInv, BaseInv, Base, StoredInv
  <2>3. QED
    BY <2>1, <2>2, SMTT(120) DEF NodeInv
<1>5. QED
  BY <1>1, <1>2, <1>3, <1>4, SMTT(120) DEF IInv

LEMMA NextInv == IInv /\ [Next]_vars => IInv'
<1>. SUFFICES ASSUME IInv, [Next]_vars PROVE IInv'
  BY SMTT(120)
<1>1. CASE UNCHANGED vars
  <2>1. FunOK' /\ DbOK' /\ LockInv'
    BY <1>1, ZenonT(120) DEF IInv, vars, node_vars, FunOK, DbOK, LockInv, LockIsReleased
  <2>2. ASSUME NEW n \in Nodes PROVE NodeInv(n)'
    BY <1>1, ZenonT(120) DEF IInv, vars, node_vars, NodeInv, NodeType, Version, CurrentInv, BaseInv, Base, StoredInv
  <2>3. QED
    BY <2>1, <2>2, SMTT(120) DEF IInv
<1>2. ASSUME NEW n \in Nodes, Serve(n) PROVE IInv'
  BY <1>2, RequestStep, RequestFailsStep, CommitNoopStep, CommitStep, CommitFailsStep, CommitDoneStep,
     CommitRevertsStep, SMTT(120) DEF Serve
<1>3. ASSUME NEW n \in Nodes, Sync(n) PROVE IInv'
  BY <1>3, ApplyStep, ApplyFailsStep, UpdateStatusStep, SMTT(120) DEF Sync
<1>4. QED
  BY <1>1, <1>2, <1>3, StartStep, StartFailsStep, RequestWithoutSyncStep, FetchStatusStep, FetchStep,
     FetchFailsStep, ConnectionLostStep, CrashStep, RestartStep, RestartFailsStep, SMTT(120) DEF Next

(* Type correctness, the release of the row lock, and that a version names *)
(* one configuration, for any number of nodes, objects and faults: the     *)
(* version check of verify_sync() is made under the lock that the update   *)
(* needs, and nothing is saved that was not committed.                     *)
THEOREM SyncSafe == Safety => [](TypeOK /\ LockIsReleased /\ VersionIdentifiesConfig)
<1>1. IInv => TypeOK /\ LockIsReleased /\ VersionIdentifiesConfig
  <2>. SUFFICES ASSUME IInv PROVE TypeOK /\ LockIsReleased /\ VersionIdentifiesConfig
    BY SMTT(120)
  <2>1. TypeOK /\ LockIsReleased
    BY InvType, SMTT(120) DEF IInv, LockInv
  <2>2. VersionIdentifiesConfig
    BY SMTT(120) DEF IInv, DbOK, NodeInv, BaseInv, Base, StoredInv, VersionIdentifiesConfig
  <2>3. QED
    BY <2>1, <2>2, SMTT(120)
<1>2. QED
  BY <1>1, InitInv, NextInv, PTL DEF Safety

(* A commit of a node that has not ignored a version extends what is       *)
(* stored, for any number of nodes, objects and faults (commit(), whatever *)
(* happened since start()).                                                *)
THEOREM ChangesKept == Safety => NoChangeLost
<1>1. IInv /\ [Next]_vars =>
          [db'.version # db.version /\ diverged[db'.origin] # "ignored" =>
               db'.version = db.version + 1 /\ db.config \subseteq db'.config]_vars
  <2>. SUFFICES ASSUME IInv, Next, db'.version # db.version, diverged[db'.origin] # "ignored"
                PROVE  db'.version = db.version + 1 /\ db.config \subseteq db'.config
    BY SMTT(120)
  <2>1. ASSUME NEW n \in Nodes, pc[n] = "commit", update_config(n)
        PROVE  db'.version = db.version + 1 /\ db.config \subseteq db'.config
    <3>1. CurrentInv(n) /\ BaseInv(n) /\ log[db.version] = db.config
      BY SMTT(120) DEF IInv, NodeInv, DbOK
    <3>2. /\ m_version[n] = db.version
          /\ db'.version = db.version + 1
          /\ db'.config = runtime[n]
          /\ db'.origin = n
      BY <2>1, UpdateEffect, SMTT(120)
    <3>3. QED
      BY <2>1, <3>1, <3>2, SMTT(120) DEF CurrentInv, BaseInv, Base
  <2>2. ASSUME NEW n \in Nodes, Serve(n), ~(pc[n] = "commit" /\ update_config(n)) PROVE db' = db
    BY <2>2, ZenonT(120) DEF Serve, Request, RequestFails, CommitNoop, Commit, CommitFails, CommitDone, CommitReverts
  <2>3. ASSUME NEW n \in Nodes, FetchStatus(n) \/ Sync(n) PROVE db'.version = db.version
    BY <2>3, SMTT(120) DEF FetchStatus, Sync, Apply, ApplyFails, UpdateStatus, IInv, DbOK
  <2>4. ASSUME NEW n \in Nodes,
               \/ Start(n) \/ StartFails(n) \/ Fetch(n) \/ FetchFails(n)
               \/ ConnectionLost(n) \/ Crash(n) \/ Restart(n) \/ RestartFails(n)
               \/ \E o \in Objects : RequestWithoutSync(n, o)
        PROVE  db' = db
    BY <2>4, ZenonT(120) DEF Start, StartFails, Fetch, FetchFails, ConnectionLost, Crash, Restart, RestartFails, RequestWithoutSync
  <2>5. QED
    BY <2>1, <2>2, <2>3, <2>4, ZenonT(120) DEF Next
<1>2. QED
  BY <1>1, InitInv, NextInv, PTL DEF Safety, NoChangeLost
===============================================================================
