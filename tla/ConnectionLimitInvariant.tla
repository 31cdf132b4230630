---------------------- MODULE ConnectionLimitInvariant ----------------------
(***************************************************************************)
(* The invariant of the sessions of ConnectionLimit.  A session belongs to *)
(* one worker, so that but for the counters the invariant is one for each  *)
(* worker with its sessions, and a step is one of a single worker.         *)
(***************************************************************************)
EXTENDS ConnectionLimit

Getting == {"pool", "check", "intent", "recheck", "create", "retract"}

(* The functions that the steps change. *)
FunTypes ==
    /\ pc \in [Workers -> {"idle", "failed"} \union Getting]
    /\ ep \in [Workers -> Endpoints \union {NoEndpoint}]
    /\ caller \in [Workers -> {"connect", "route", "continue"}]
    /\ value \in [Workers -> Nat]
    /\ result \in [Workers -> {"none", "conn", "limit", "fail"}]
    /\ task \in [Workers -> BOOLEAN]
    /\ pool \in [Workers -> Seq(Kinds)]
    /\ waiting \in [Workers -> Seq(Endpoints)]
    /\ scheduled \in [Workers -> BOOLEAN] /\ posted \in [Workers -> BOOLEAN]
    /\ connstatus \in [Endpoints -> Status]
    /\ ready \in [Endpoints -> BOOLEAN]
    /\ outstanding \in [Endpoints -> Int]
    /\ delayed \in [Endpoints -> Seq(1..MaxQueries)]
    /\ sent \in [Endpoints -> Seq(1..MaxQueries)]
    /\ can_pool \in [Endpoints -> BOOLEAN] /\ poolcall \in [Endpoints -> BOOLEAN]
    /\ kind \in KindChoices
    /\ routed \in [Endpoints -> 0..MaxQueries]
    /\ opens \in [Endpoints -> 0..MaxOpens]
    /\ faults \in 0..MaxFaults

(* The status of the endpoint that a worker gets a connection for. *)
CallerStatus(why) == CASE why = "connect" -> "NO_CONN"
                       [] why = "route" -> "IDLE_POOLED"
                       [] why = "continue" -> "WAITING_FOR_CONN"

(* Where a worker is, and what its endpoint and its queue are then. *)
PlaceInv(w) ==
    /\ pc[w] = "idle" => caller[w] = "connect"
    /\ pc[w] # "idle" => ep[w] \in Endpoints /\ home[ep[w]] = w
    /\ pc[w] \in Getting => connstatus[ep[w]] = CallerStatus(caller[w])
    /\ pc[w] = "failed" => caller[w] = "continue" /\ connstatus[ep[w]] = "CONNECTED_FAILED"
    /\ caller[w] = "continue" => waiting[w] # <<>> /\ ep[w] = waiting[w][1]
    /\ \A e \in Endpoints : home[e] = w /\ connstatus[e] = "CONNECTED_FAILED" =>
          pc[w] = "failed" /\ ep[w] = e

(* QueueRight, for one worker. *)
QueueInv(w) ==
    LET q == waiting[w]
    IN  /\ \A i, j \in DOMAIN q : q[i] = q[j] => i = j
        /\ \A i \in DOMAIN q :
              /\ home[q[i]] = w
              /\ \/ connstatus[q[i]] = "WAITING_FOR_CONN"
                 \/ i = 1 /\ pc[w] = "failed" /\ connstatus[q[i]] = "CONNECTED_FAILED"
        /\ \A e \in Endpoints : home[e] = w /\ connstatus[e] = "WAITING_FOR_CONN" =>
              \E i \in DOMAIN q : q[i] = e

SameKind(w) == \A e, f \in Endpoints : home[e] = w /\ home[f] = w => kind[e] = kind[f]

(* The connections of a pool are of sessions of its worker; after the look *)
(* at the pool it has none that the endpoint can use; and a check is       *)
(* scheduled while endpoints wait beside a connection that they can use,   *)
(* unless the check is what the worker is doing.                           *)
WakeInv(w) ==
    /\ \A i \in DOMAIN pool[w] : \E e \in Endpoints : home[e] = w /\ pool[w][i] = kind[e]
    /\ pc[w] \in Getting \ {"pool"} => Reusable(w, ep[w]) = {}
    /\ /\ caller[w] # "continue" /\ waiting[w] # <<>> /\ pool[w] # <<>>
       /\ SameKind(w)
       => scheduled[w]

PoolInv(w) == Len(pool[w]) <= capacity

(* Its worker is getting a connection for the query that e has routed. *)
Routing(e) == pc[home[e]] # "idle" /\ ep[home[e]] = e /\ caller[home[e]] = "route"

Numbers(n) == [i \in 1..n |-> i]

(* What a session has routed and its connections were given. *)
PacketInv(e) ==
    /\ Routing(e) => routed[e] > 0
    /\ ~Reopen => /\ outstanding[e] \in 0..routed[e]
                  /\ delayed[e] # <<>> => connstatus[e] = "WAITING_FOR_CONN"
                  /\ connstatus[e] # "CONNECTED_FAILED" =>
                        sent[e] \o delayed[e] =
                           Numbers(IF Routing(e) THEN routed[e] - 1 ELSE routed[e])

(* The connections: of endpoints, in pools, and on their way. *)
Held == {e \in Endpoints : connstatus[e] \in {"CONNECTED", "CONNECTED_FAILED"}}
Pooled == {p \in Workers \X (1..capacity) : p[2] <= Len(pool[p[1]])}
Coming == {w \in Workers : pc[w] = "retract" /\ result[w] = "conn"}
ConnsInv == n_current_conns = Cardinality(Held) + Cardinality(Pooled) + Cardinality(Coming)

WorkerInv(w) == PlaceInv(w) /\ QueueInv(w) /\ WakeInv(w) /\ PoolInv(w)

QInv ==
    /\ FunTypes
    /\ \A w \in Workers : WorkerInv(w)
    /\ \A e \in Endpoints : PacketInv(e)
    /\ ConnsInv

-----------------------------------------------------------------------------
(* What a step of one worker does not touch. *)
SameWorker(w) ==
    /\ pc'[w] = pc[w] /\ ep'[w] = ep[w] /\ caller'[w] = caller[w]
    /\ pool'[w] = pool[w] /\ waiting'[w] = waiting[w] /\ scheduled'[w] = scheduled[w]

SameSession(e) ==
    /\ connstatus'[e] = connstatus[e] /\ outstanding'[e] = outstanding[e]
    /\ delayed'[e] = delayed[e] /\ sent'[e] = sent[e] /\ routed'[e] = routed[e]

(* A step of w changes no other worker and of the sessions at most e. *)
Only(w, e) ==
    /\ \A u \in Workers : u # w => SameWorker(u)
    /\ \A f \in Endpoints : f # e => SameSession(f)

StatusGets(e, st) == connstatus' = [connstatus EXCEPT ![e] = st]

=============================================================================
