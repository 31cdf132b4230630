----------------------- MODULE ConnectionLimitSafety -----------------------
(***************************************************************************)
(* What is proved about the sessions of ConnectionLimit for every number   *)
(* of workers and sessions: the counters are right, exactly the endpoints  *)
(* that wait are queued, no wakeup is missed inside of a worker and, as    *)
(* long as an endpoint is not opened twice, its packets stay in order.     *)
(* The parts of the proof are in the modules that this one extends.        *)
(***************************************************************************)
EXTENDS ConnectionLimitProofs, ConnectionLimitQueueProofs, ConnectionLimitPacketProofs

(* The invariant holds at first: nothing is connected. *)
LEMMA InitQInv == Init => QInv
  <1>1. SUFFICES ASSUME Init PROVE QInv
    BY ZenonT(120)
  <1>2. FunTypes
    BY <1>1, SizesAssumption, SMTT(120) DEF Init, FunTypes, Getting, Status
  <1>3. ASSUME NEW w \in Workers PROVE WorkerInv(w)
    <2>1. pc[w] = "idle" /\ caller[w] = "connect" /\ waiting[w] = <<>> /\ pool[w] = <<>>
      BY <1>1, ZenonT(120) DEF Init
    <2>2. \A e \in Endpoints : connstatus[e] = "NO_CONN"
      BY <1>1, ZenonT(120) DEF Init
    <2>3. PlaceInv(w)
      BY <2>1, <2>2, ZenonT(120) DEF PlaceInv, Getting
    <2>4. QueueInv(w)
      BY <2>1, <2>2, SMTT(120) DEF QueueInv
    <2>5. WakeInv(w) /\ PoolInv(w)
      BY <2>1, SizesAssumption, SMTT(120) DEF WakeInv, PoolInv, Getting
    <2>6. QED
      BY <2>3, <2>4, <2>5, ZenonT(120) DEF WorkerInv
  <1>4. ASSUME NEW e \in Endpoints PROVE PacketInv(e)
    <2>1. /\ outstanding[e] = 0 /\ delayed[e] = <<>> /\ sent[e] = <<>> /\ routed[e] = 0
          /\ home[e] \in Workers
      BY <1>1, SetsAssumption, ZenonT(120) DEF Init
    <2>2. ~Routing(e)
      BY <1>1, <2>1, ZenonT(120) DEF Init, Routing
    <2>3. <<>> \o <<>> = <<>> /\ Numbers(0) = <<>> /\ 0 \in 0..0
      BY NumbersNext, SMTT(120)
    <2>4. QED
      BY <2>1, <2>2, <2>3, ZenonT(120) DEF PacketInv
  <1>5. ConnsInv
    <2>1. Held = {} /\ Coming = {}
      BY <1>1, ZenonT(120) DEF Init, Held, Coming
    <2>2. Pooled = {}
      BY <1>1, SMTT(120) DEF Init, Pooled
    <2>3. QED
      BY <1>1, <2>1, <2>2, FS_EmptySet, SMTT(120) DEF Init, ConnsInv
  <1>6. QED
    BY <1>2, <1>3, <1>4, <1>5, ZenonT(120) DEF QInv

(* No step changes what kind of connection a session needs. *)
LEMMA KindsKept == Next => kind' = kind
  <1>1. \A w \in Workers : GetConnection(w) => kind' = kind
    BY ZenonT(120) DEF GetConnection, Reuse, ReuseFails, ReadConns, PreCheck, add_conn_intent, Recheck,
                      Create, CreateFails, remove_conn_intent, handle_failed_continue, session
  <1>2. \A w \in Workers : WorkerEvent(w) => kind' = kind
    BY ZenonT(120) DEF WorkerEvent, close_pooled_dcb, Activate, ActivateTimer, PostFails,
                      fail_timed_out_endpoints, session
  <1>3. \A e \in Endpoints : SessionEvent(e) => kind' = kind
    BY ZenonT(120) DEF SessionEvent, Open, routeQuery, ConnectionReady, clientReply, try_to_pool,
                      NothingToPool, Close, session
  <1>4. QED
    BY <1>1, <1>2, <1>3, ZenonT(120) DEF Next

(* The counters never wrap around. *)
LEMMA CountersNat ==
    ASSUME IInv, QInv
    PROVE  n_current_conns \in Nat /\ n_conn_intents \in Nat
  <1>1. n_current_conns \in Nat
    BY ConnSetsFinite, SMTT(120) DEF QInv, ConnsInv
  <1>2. n_conn_intents \in Nat
    BY SetsFinite, FS_CardinalityType, ZenonT(120) DEF IInv, IntentInv
  <1>3. QED
    BY <1>1, <1>2, ZenonT(120)

(* A step of w keeps the invariants of the workers when w keeps its own. *)
LEMMA WorkersKept ==
    ASSUME QInv, NEW w \in Workers, WorkerInv(w)', kind' = kind,
           \A u \in Workers : u # w => SameWorker(u),
           \A f \in Endpoints : home[f] # w => SameSession(f)
    PROVE  \A u \in Workers : WorkerInv(u)'
  <1>1. SUFFICES ASSUME NEW u \in Workers, u # w PROVE WorkerInv(u)'
    BY ZenonT(120)
  <1>2. WorkerInv(u) /\ SameWorker(u) /\ waiting[u] \in Seq(Endpoints)
    BY <1>1, ZenonT(120) DEF QInv, FunTypes
  <1>3. \A e \in Endpoints : home[e] = u => connstatus'[e] = connstatus[e]
    BY <1>1, ZenonT(120) DEF SameSession
  <1>4. QED
    BY <1>2, <1>3, OtherWorkers, ZenonT(120)

LEMMA StepQInv ==
    ASSUME IInv, QInv, Next
    PROVE  QInv'
  <1>1. FunTypes /\ FunTypes' /\ kind' = kind /\ CounterTypes
    BY CountersNat, TypesKept, KindsKept, ZenonT(120) DEF QInv, IInv
  <1>2. \A w \in Workers : WorkerInv(w)
    BY ZenonT(120) DEF QInv
  <1>3. ASSUME NEW w \in Workers, GetConnection(w) PROVE QInv'
    <2>1. WorkerInv(w)'
      BY <1>1, <1>2, <1>3, GetConnectionKeeps, ZenonT(120)
    <2>2. /\ \A f \in Endpoints : PacketInv(f)'
          /\ \E e \in Endpoints : home[e] = w /\ Only(w, e)
      BY <1>3, GetConnectionPackets, ZenonT(120)
    <2>3. /\ \A u \in Workers : u # w => SameWorker(u)
          /\ \A f \in Endpoints : home[f] # w => SameSession(f)
      BY <2>2, ZenonT(120) DEF Only
    <2>4. \A u \in Workers : WorkerInv(u)'
      BY <1>1, <2>1, <2>3, WorkersKept, ZenonT(120)
    <2>5. ConnsInv'
      BY <1>1, <1>3, GetConnectionConns, ZenonT(120)
    <2>6. QED
      BY <1>1, <2>2, <2>4, <2>5, ZenonT(120) DEF QInv
  <1>4. ASSUME NEW w \in Workers, WorkerEvent(w) PROVE QInv'
    <2>1. WorkerInv(w)'
      BY <1>1, <1>2, <1>4, WorkerKeeps, ZenonT(120)
    <2>2. /\ \A f \in Endpoints : PacketInv(f)'
          /\ \A u \in Workers : u # w => SameWorker(u)
          /\ \A f \in Endpoints : home[f] # w => SameSession(f)
      BY <1>4, WorkerPackets, ZenonT(120)
    <2>3. \A u \in Workers : WorkerInv(u)'
      BY <1>1, <2>1, <2>2, WorkersKept, ZenonT(120)
    <2>4. ConnsInv'
      BY <1>1, <1>4, WorkerConns, ZenonT(120)
    <2>5. QED
      BY <1>1, <2>2, <2>3, <2>4, ZenonT(120) DEF QInv
  <1>5. ASSUME NEW e \in Endpoints, SessionEvent(e) PROVE QInv'
    <2>1. home[e] \in Workers
      BY SetsAssumption, ZenonT(120)
    <2>2. WorkerInv(home[e])'
      BY <1>1, <1>2, <1>5, <2>1, SessionKeeps, ZenonT(120)
    <2>3. (\A f \in Endpoints : PacketInv(f)') /\ Only(home[e], e)
      BY <1>5, SessionPackets, ZenonT(120)
    <2>4. /\ \A u \in Workers : u # home[e] => SameWorker(u)
          /\ \A f \in Endpoints : home[f] # home[e] => SameSession(f)
      BY <2>3, ZenonT(120) DEF Only
    <2>5. \A u \in Workers : WorkerInv(u)'
      BY <1>1, <2>1, <2>2, <2>4, WorkersKept, ZenonT(120)
    <2>6. ConnsInv'
      BY <1>1, <1>5, SessionConns, ZenonT(120)
    <2>7. QED
      BY <1>1, <2>3, <2>5, <2>6, ZenonT(120) DEF QInv
  <1>6. QED
    BY <1>3, <1>4, <1>5, ZenonT(120) DEF Next

LEMMA StutterQInv ==
    ASSUME QInv, UNCHANGED vars
    PROVE  QInv'
  <1>1. FunTypes'
    BY ZenonT(120) DEF QInv, FunTypes, vars, worker, session, endpoint, packets, queues
  <1>2. /\ \A w \in Workers : SameWorker(w)
        /\ \A e \in Endpoints : SameSession(e)
        /\ UNCHANGED <<kind, connstatus, pool, pc, result, n_current_conns>>
    BY ZenonT(120) DEF SameWorker, SameSession, vars, worker, session, endpoint, packets, queues
  <1>3. ASSUME NEW w \in Workers PROVE WorkerInv(w)'
    BY <1>2, OtherWorkers, ZenonT(120) DEF QInv, FunTypes
  <1>4. ASSUME NEW e \in Endpoints PROVE PacketInv(e)'
    BY <1>2, OtherSessions, SetsAssumption, ZenonT(120) DEF QInv
  <1>5. ConnsInv'
    BY <1>2, ZenonT(120) DEF QInv, ConnsInv, Held, Pooled, Coming
  <1>6. QED
    BY <1>1, <1>3, <1>4, <1>5, ZenonT(120) DEF QInv

LEMMA InductiveQInv == IInv /\ QInv /\ [Next]_vars => QInv'
  BY StepQInv, StutterQInv, ZenonT(120)

LEMMA InvariantHolds == Spec => [](IInv /\ QInv)
  BY InitIInv, Inductive, InitQInv, InductiveQInv, PTL DEF Spec

-----------------------------------------------------------------------------
(* The server's counters (Target::Stats) are right whatever the workers    *)
(* do: n_current_conns is the number of connections that endpoints hold,   *)
(* that are in pools or that are on their way to their endpoint, and       *)
(* n_conn_intents that of the workers inside of the two updates of it.     *)
THEOREM CountersSafe == Spec => []CountsRight
  <1>1. IInv /\ QInv => CountsRight
    BY ZenonT(120) DEF IInv, QInv, IntentInv, Marked, Inside, ConnsInv, Held, Pooled, Coming, CountsRight
  <1>2. QED
    BY <1>1, InvariantHolds, PTL

(* m_eps_waiting_for_conn of a worker holds its endpoints that wait, each  *)
(* once, and nothing else: add_waiting_endpoint, erase_waiting_endpoint    *)
(* and the erasures of activate_waiting_endpoints agree.                   *)
THEOREM QueuesSafe == Spec => []QueueRight
  <1>1. QInv => QueueRight
    BY ZenonT(120) DEF QInv, WorkerInv, QueueInv, QueueRight
  <1>2. QED
    BY <1>1, InvariantHolds, PTL

(* m_ep_activation_scheduled is set whenever a worker is back in its loop  *)
(* with an endpoint that waits and a connection in its pool.               *)
THEOREM WakeupsSafe == Spec => []NoWakeupMissed
  <1>1. QInv => NoWakeupMissed
    <2>1. SUFFICES ASSUME QInv, NEW w \in Workers, Idle(w), waiting[w] # <<>>, pool[w] # <<>>,
                          \A e, f \in Endpoints : home[e] = w /\ home[f] = w => kind[e] = kind[f]
                   PROVE  scheduled[w]
      BY ZenonT(120) DEF NoWakeupMissed
    <2>2. PlaceInv(w) /\ WakeInv(w)
      BY <2>1, ZenonT(120) DEF QInv, WorkerInv
    <2>3. caller[w] # "continue" /\ SameKind(w)
      BY <2>1, <2>2, ZenonT(120) DEF PlaceInv, Idle, SameKind
    <2>4. QED
      BY <2>1, <2>2, <2>3, ZenonT(120) DEF WakeInv
  <1>2. QED
    BY <1>1, InvariantHolds, PTL

(* When no session opens its endpoint again after it has failed, its       *)
(* connections get its packets in the order in which they were routed,     *)
(* each once: m_delayed_packets are given to the connection before any     *)
(* packet that is routed later.                                            *)
THEOREM PacketsSafe ==
    ASSUME ~Reopen
    PROVE  Spec => []PacketsInOrder
  <1>1. QInv => PacketsInOrder
    <2>1. SUFFICES ASSUME QInv, NEW e \in Endpoints, connstatus[e] = "CONNECTED"
                   PROVE  sent[e] = Numbers(routed[e])
      BY ZenonT(120) DEF PacketsInOrder, Numbers
    <2>2. FunTypes /\ PacketInv(e) /\ home[e] \in Workers /\ PlaceInv(home[e])
      BY <2>1, SetsAssumption, ZenonT(120) DEF QInv, WorkerInv
    <2>3. ~Routing(e)
      BY <2>1, <2>2, ZenonT(120) DEF Routing, PlaceInv, CallerStatus, FunTypes
    <2>4. delayed[e] = <<>> /\ sent[e] \o delayed[e] = Numbers(routed[e])
      BY <2>1, <2>2, <2>3, ZenonT(120) DEF PacketInv
    <2>5. sent[e] \in Seq(1..MaxQueries)
      BY <2>2, ZenonT(120) DEF FunTypes
    <2>6. sent[e] \o <<>> = sent[e]
      BY <2>5, ConcatEmptySeq, ZenonT(120)
    <2>7. QED
      BY <2>4, <2>6, ZenonT(120)
  <1>2. QED
    BY <1>1, InvariantHolds, PTL

(* The type invariant, under the same assumption: above all no counter is  *)
(* below zero, no pool exceeds its capacity and no session waits for more  *)
(* replies than it has routed queries.                                     *)
THEOREM TypesSafe ==
    ASSUME ~Reopen
    PROVE  Spec => []TypeOK
  <1>1. IInv /\ QInv => TypeOK
    <2>1. SUFFICES ASSUME IInv, QInv PROVE TypeOK
      BY ZenonT(120)
    <2>2. FunTypes /\ n_current_conns \in Nat /\ n_conn_intents \in Nat
      BY <2>1, CountersNat, ZenonT(120) DEF QInv
    <2>3. \A w \in Workers : pool[w] \in Seq(Kinds) /\ Len(pool[w]) <= capacity
      BY <2>1, ZenonT(120) DEF QInv, FunTypes, WorkerInv, PoolInv
    <2>4. outstanding \in [Endpoints -> 0..MaxQueries]
      <3>1. ASSUME NEW e \in Endpoints PROVE outstanding[e] \in 0..MaxQueries
        <4>1. outstanding[e] \in 0..routed[e] /\ routed[e] \in 0..MaxQueries
          BY <2>1, ZenonT(120) DEF QInv, FunTypes, PacketInv
        <4>2. QED
          BY <4>1, SizesAssumption, SMTT(120)
      <3>2. QED
        BY <2>2, <3>1, ZenonT(120) DEF FunTypes
    <2>5. QED
      BY <2>2, <2>3, <2>4, ZenonT(120) DEF TypeOK, FunTypes, Getting
  <1>2. QED
    BY <1>1, InvariantHolds, PTL
=============================================================================
