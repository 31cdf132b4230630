--------------------- MODULE ConnectionLimitQueueProofs ---------------------
(***************************************************************************)
(* The worker of a step keeps its invariant: its place, the queue of the   *)
(* endpoints that wait, its pool and its wakeups.  The types come first.   *)
(***************************************************************************)
EXTENDS ConnectionLimitInvariant, SequenceTheorems, TLAPS

(* A sequence without one of its places. *)
LEMMA WithoutPlaceIs ==
    ASSUME NEW S, NEW s \in Seq(S), NEW i \in DOMAIN s
    PROVE  /\ WithoutPlace(s, i) \in Seq(S)
           /\ Len(WithoutPlace(s, i)) = Len(s) - 1
           /\ \A k \in 1..Len(s) - 1 :
                 WithoutPlace(s, i)[k] = IF k < i THEN s[k] ELSE s[k + 1]
  <1> DEFINE a == SubSeq(s, 1, i - 1)
             b == SubSeq(s, i + 1, Len(s))
  <1>1. i \in 1..Len(s) /\ Len(s) \in Nat
    BY LenProperties, ZenonT(120)
  <1>2. a \in Seq(S) /\ Len(a) = i - 1 /\ \A k \in 1..i - 1 : a[k] = s[k]
    BY <1>1, SMTT(120)
  <1>3. b \in Seq(S) /\ Len(b) = Len(s) - i /\ \A k \in 1..Len(s) - i : b[k] = s[k + i]
    BY <1>1, SMTT(120)
  <1>4. WithoutPlace(s, i) = a \o b
    BY ZenonT(120) DEF WithoutPlace
  <1> HIDE DEF a, b
  <1>5. /\ a \o b \in Seq(S) /\ Len(a \o b) = Len(s) - 1
        /\ \A k \in 1..Len(s) - 1 : (a \o b)[k] = IF k <= i - 1 THEN a[k] ELSE b[k - (i - 1)]
    <2>1. /\ a \o b \in Seq(S) /\ Len(a \o b) = Len(a) + Len(b)
          /\ \A k \in 1..Len(a) + Len(b) : (a \o b)[k] = IF k <= Len(a) THEN a[k] ELSE b[k - Len(a)]
      BY <1>2, <1>3, ConcatProperties, ZenonT(120)
    <2>2. Len(a) = i - 1 /\ Len(a) + Len(b) = Len(s) - 1
      BY <1>1, <1>2, <1>3, SMTT(120)
    <2>3. QED
      BY <2>1, <2>2, ZenonT(120)
  <1>6. ASSUME NEW k \in 1..Len(s) - 1
        PROVE  (a \o b)[k] = IF k < i THEN s[k] ELSE s[k + 1]
    <2>1. CASE k < i
      BY <1>1, <1>2, <1>5, <2>1, SMTT(120)
    <2>2. CASE k >= i
      <3>1. k - (i - 1) \in 1..Len(s) - i /\ (k - (i - 1)) + i = k + 1
        BY <1>1, <2>2, SMTT(120)
      <3>2. (a \o b)[k] = b[k - (i - 1)]
        BY <1>1, <1>5, <2>2, SMTT(120)
      <3>3. b[k - (i - 1)] = s[(k - (i - 1)) + i]
        BY <1>3, <3>1, ZenonT(120)
      <3>4. ~(k < i)
        BY <1>1, <2>2, SMTT(120)
      <3>5. QED
        BY <3>1, <3>2, <3>3, <3>4, ZenonT(120)
    <2>3. k < i \/ k >= i
      BY <1>1, SMTT(120)
    <2>4. QED
      BY <2>1, <2>2, <2>3, ZenonT(120)
  <1>7. QED
    BY <1>4, <1>5, <1>6, ZenonT(120)

(* A sequence without its first element. *)
LEMMA TailIs ==
    ASSUME NEW S, NEW s \in Seq(S), s # <<>>
    PROVE  /\ Head(s) = s[1] /\ s[1] \in S /\ 1 \in DOMAIN s
           /\ Tail(s) \in Seq(S) /\ Len(Tail(s)) = Len(s) - 1
           /\ \A k \in 1..Len(s) - 1 : Tail(s)[k] = s[k + 1]
  BY SMTT(120)

(* The other workers keep their invariant. *)
LEMMA OtherWorkers ==
    ASSUME NEW w \in Workers, WorkerInv(w), SameWorker(w), kind' = kind,
           waiting[w] \in Seq(Endpoints),
           \A e \in Endpoints : home[e] = w => connstatus'[e] = connstatus[e]
    PROVE  WorkerInv(w)'
  <1>1. PlaceInv(w)'
    BY ZenonT(120) DEF WorkerInv, PlaceInv, SameWorker, Getting
  <1>2. QueueInv(w)'
    BY SMTT(120) DEF WorkerInv, QueueInv, SameWorker
  <1>3. WakeInv(w)' /\ PoolInv(w)'
    BY SMTT(120) DEF WorkerInv, WakeInv, PoolInv, SameWorker, SameKind, Reusable
  <1>4. QED
    BY <1>1, <1>2, <1>3, ZenonT(120) DEF WorkerInv

-----------------------------------------------------------------------------
(* The types.  An endpoint whose query is being routed has routed one. *)
WorkerTypes ==
    /\ pc \in [Workers -> {"idle", "failed"} \union Getting]
    /\ ep \in [Workers -> Endpoints \union {NoEndpoint}]
    /\ caller \in [Workers -> {"connect", "route", "continue"}]
    /\ value \in [Workers -> Nat]
    /\ result \in [Workers -> {"none", "conn", "limit", "fail"}]
    /\ task \in [Workers -> BOOLEAN]

LEMMA ReturnTypes ==
    ASSUME NEW w \in Workers, WorkerTypes, Return(w)
    PROVE  WorkerTypes'
  BY ZenonT(120) DEF WorkerTypes, Return, Getting

LEMMA EraseFirstTypes ==
    ASSUME NEW w \in Workers, FunTypes, waiting[w] # <<>>, NEW flag \in BOOLEAN, EraseFirst(w, flag)
    PROVE  /\ WorkerTypes'
           /\ waiting' \in [Workers -> Seq(Endpoints)]
           /\ scheduled' \in [Workers -> BOOLEAN]
  <1>1. Tail(waiting[w]) \in Seq(Endpoints)
    BY SMTT(120) DEF FunTypes
  <1>2. waiting' \in [Workers -> Seq(Endpoints)]
    BY <1>1, ZenonT(120) DEF EraseFirst, FunTypes
  <1>3. CASE Tail(waiting[w]) = <<>>
    <2>1. WorkerTypes'
      BY <1>3, ReturnTypes, ZenonT(120) DEF EraseFirst, ActivationEnds, FunTypes, WorkerTypes
    <2>2. QED
      BY <1>2, <1>3, <2>1, ZenonT(120) DEF EraseFirst, ActivationEnds, FunTypes
  <1>4. CASE Tail(waiting[w]) # <<>>
    <2>1. Head(Tail(waiting[w])) \in Endpoints
      BY <1>1, <1>4, SMTT(120)
    <2>2. get_backend_connection(w, Head(Tail(waiting[w])), "continue") /\ UNCHANGED task
      BY <1>4, ZenonT(120) DEF EraseFirst
    <2>3. scheduled' \in [Workers -> BOOLEAN]
      BY <1>4, ZenonT(120) DEF EraseFirst, FunTypes
    <2>4. WorkerTypes'
      BY <2>1, <2>2, ZenonT(120) DEF get_backend_connection, FunTypes, WorkerTypes, Getting
    <2>5. QED
      BY <1>2, <2>3, <2>4, ZenonT(120)
  <1>5. QED
    BY <1>3, <1>4, ZenonT(120)

LEMMA ClosedTypes ==
    ASSUME NEW e \in Endpoints, FunTypes, Closed(e)
    PROVE  /\ connstatus' \in [Endpoints -> Status]
           /\ ready' \in [Endpoints -> BOOLEAN]
           /\ outstanding' \in [Endpoints -> Int]
           /\ delayed' \in [Endpoints -> Seq(1..MaxQueries)]
           /\ sent' \in [Endpoints -> Seq(1..MaxQueries)]
           /\ can_pool' \in [Endpoints -> BOOLEAN] /\ poolcall' \in [Endpoints -> BOOLEAN]
           /\ routed' \in [Endpoints -> 0..MaxQueries]
  BY SizesAssumption, SMTT(120) DEF FunTypes, Closed, Status

LEMMA ConnectedTypes ==
    ASSUME NEW w \in Workers, FunTypes, pc[w] # "idle", PlaceInv(w),
           PacketInv(ep[w]), Connected(w)
    PROVE  /\ WorkerTypes'
           /\ waiting' \in [Workers -> Seq(Endpoints)]
           /\ scheduled' \in [Workers -> BOOLEAN] /\ posted' \in [Workers -> BOOLEAN]
           /\ connstatus' \in [Endpoints -> Status]
           /\ ready' \in [Endpoints -> BOOLEAN]
           /\ outstanding' \in [Endpoints -> Int]
           /\ delayed' \in [Endpoints -> Seq(1..MaxQueries)]
           /\ sent' \in [Endpoints -> Seq(1..MaxQueries)]
           /\ UNCHANGED <<routed, can_pool, poolcall, faults>>
  <1> DEFINE e == ep[w]
             unsent == CASE caller[w] = "connect" -> <<>>
                         [] caller[w] = "route" -> <<routed[e]>>
                         [] caller[w] = "continue" -> delayed[e]
  <1>1. e \in Endpoints /\ home[e] = w
    BY ZenonT(120) DEF PlaceInv
  <1>2. unsent \in Seq(1..MaxQueries)
    <2>1. caller[w] = "route" => routed[e] \in 1..MaxQueries
      BY <1>1, SizesAssumption, SMTT(120) DEF PacketInv, Routing, FunTypes
    <2>2. caller[w] \in {"connect", "route", "continue"} /\ delayed[e] \in Seq(1..MaxQueries)
      BY <1>1, ZenonT(120) DEF FunTypes
    <2>3. CASE caller[w] = "connect"
      BY <2>3, SMTT(120)
    <2>4. CASE caller[w] = "route"
      <3>1. unsent = <<routed[e]>>
        BY <2>4, ZenonT(120)
      <3>2. QED
        BY <2>1, <2>4, <3>1, SMTT(120)
    <2>5. CASE caller[w] = "continue"
      BY <2>2, <2>5, ZenonT(120)
    <2>6. QED
      BY <2>2, <2>3, <2>4, <2>5, ZenonT(120)
  <1>3. /\ connstatus' = [connstatus EXCEPT ![e] = "CONNECTED"]
        /\ ready' = [ready EXCEPT ![e] = FALSE]
        /\ sent' = [sent EXCEPT ![e] = @ \o unsent]
        /\ outstanding' = [outstanding EXCEPT ![e] = Len(unsent)]
        /\ UNCHANGED <<routed, can_pool, poolcall, faults>>
    BY ZenonT(120) DEF Connected
  <1>4. \/ /\ caller[w] = "continue" /\ delayed' = [delayed EXCEPT ![e] = <<>>]
           /\ EraseFirst(w, scheduled[w]) /\ UNCHANGED posted
        \/ caller[w] # "continue" /\ Return(w) /\ UNCHANGED <<delayed, queues>>
    BY ZenonT(120) DEF Connected
  <1> HIDE DEF e, unsent
  <1>5. /\ connstatus' \in [Endpoints -> Status]
        /\ ready' \in [Endpoints -> BOOLEAN]
        /\ outstanding' \in [Endpoints -> Int]
        /\ sent' \in [Endpoints -> Seq(1..MaxQueries)]
    BY <1>1, <1>2, <1>3, SMTT(120) DEF FunTypes, Status
  <1>6. CASE caller[w] = "continue"
    <2>1. delayed' \in [Endpoints -> Seq(1..MaxQueries)] /\ posted' \in [Workers -> BOOLEAN]
      <3>1. delayed' = [delayed EXCEPT ![e] = <<>>] /\ posted' = posted
        BY <1>4, <1>6, ZenonT(120)
      <3>2. QED
        BY <1>1, <3>1, SMTT(120) DEF FunTypes
    <2>2. scheduled[w] \in BOOLEAN /\ waiting[w] # <<>>
      BY <1>6, ZenonT(120) DEF FunTypes, PlaceInv
    <2>3. /\ WorkerTypes' /\ waiting' \in [Workers -> Seq(Endpoints)]
          /\ scheduled' \in [Workers -> BOOLEAN]
      BY <1>4, <1>6, <2>2, EraseFirstTypes, ZenonT(120)
    <2>4. QED
      BY <1>3, <1>5, <2>1, <2>3, ZenonT(120)
  <1>7. CASE caller[w] # "continue"
    <2>1. WorkerTypes'
      BY <1>4, <1>7, ReturnTypes, ZenonT(120) DEF FunTypes, WorkerTypes
    <2>2. QED
      BY <1>3, <1>4, <1>5, <1>7, <2>1, ZenonT(120) DEF FunTypes, queues
  <1>8. QED
    BY <1>6, <1>7, ZenonT(120)

LEMMA WriteFailsTypes ==
    ASSUME NEW w \in Workers, FunTypes, pc[w] # "idle", PlaceInv(w), WriteFails(w)
    PROVE  /\ WorkerTypes'
           /\ connstatus' \in [Endpoints -> Status]
           /\ delayed' \in [Endpoints -> Seq(1..MaxQueries)]
           /\ sent' \in [Endpoints -> Seq(1..MaxQueries)]
           /\ faults' \in 0..MaxFaults
           /\ UNCHANGED <<ready, outstanding, routed, can_pool, poolcall, queues>>
  <1>1. ep[w] \in Endpoints
    BY ZenonT(120) DEF PlaceInv
  <1>2. PICK i \in 1..Len(delayed[ep[w]]) :
            sent' = [sent EXCEPT ![ep[w]] = @ \o SubSeq(delayed[ep[w]], 1, i - 1)]
    BY ZenonT(120) DEF WriteFails
  <1>3. SubSeq(delayed[ep[w]], 1, i - 1) \in Seq(1..MaxQueries)
    <2>1. delayed[ep[w]] \in Seq(1..MaxQueries)
      BY <1>1, ZenonT(120) DEF FunTypes
    <2>2. \A k \in 1..Len(delayed[ep[w]]) : delayed[ep[w]][k] \in 1..MaxQueries
      BY <2>1, ElementOfSeq, ZenonT(120)
    <2>3. Len(delayed[ep[w]]) \in Nat /\ 1 \in Int /\ i - 1 \in Int
      BY <2>1, SMTT(120)
    <2>4. \A k \in 1..i - 1 : k \in 1..Len(delayed[ep[w]])
      BY <2>3, SMTT(120)
    <2>5. QED
      BY <2>1, <2>2, <2>3, <2>4, SubSeqProperties, ZenonT(120)
  <1>4. sent' \in [Endpoints -> Seq(1..MaxQueries)]
    BY <1>1, <1>2, <1>3, SMTT(120) DEF FunTypes
  <1>5. WorkerTypes'
    BY ZenonT(120) DEF WriteFails, GoTo, FunTypes, WorkerTypes, Getting
  <1>6. /\ connstatus' \in [Endpoints -> Status]
        /\ delayed' \in [Endpoints -> Seq(1..MaxQueries)]
    BY <1>1, SMTT(120) DEF WriteFails, FunTypes, Status
  <1>7. faults' \in 0..MaxFaults
    BY SizesAssumption, SMTT(120) DEF WriteFails, FunTypes
  <1>8. QED
    BY <1>4, <1>5, <1>6, <1>7, ZenonT(120) DEF WriteFails

LEMMA LimitReachedTypes ==
    ASSUME NEW w \in Workers, FunTypes, pc[w] # "idle", PlaceInv(w),
           PacketInv(ep[w]), LimitReached(w), UNCHANGED <<pool, session>>
    PROVE  FunTypes'
  <1>1. ep[w] \in Endpoints /\ home[ep[w]] = w
    BY ZenonT(120) DEF PlaceInv
  <1>2. WorkerTypes
    BY ZenonT(120) DEF FunTypes, WorkerTypes
  <1>3. CASE caller[w] # "continue" /\ ep[w] \in Sharing
    <2>1. /\ connstatus' = [connstatus EXCEPT ![ep[w]] = "WAITING_FOR_CONN"]
          /\ waiting' = [waiting EXCEPT ![w] = Append(@, ep[w])]
          /\ delayed' = IF caller[w] = "route"
                        THEN [delayed EXCEPT ![ep[w]] = Append(@, routed[ep[w]])]
                        ELSE delayed
          /\ Return(w)
          /\ UNCHANGED <<scheduled, ready, outstanding, routed, sent, can_pool, poolcall, posted, faults>>
      BY <1>3, ZenonT(120) DEF LimitReached
    <2>2. caller[w] = "route" => routed[ep[w]] \in 1..MaxQueries
      BY <1>1, SizesAssumption, SMTT(120) DEF PacketInv, Routing, FunTypes
    <2>3. delayed' \in [Endpoints -> Seq(1..MaxQueries)]
      BY <1>1, <2>1, <2>2, SMTT(120) DEF FunTypes
    <2>4. WorkerTypes'
      BY <1>2, <2>1, ReturnTypes, ZenonT(120)
    <2>5. connstatus' \in [Endpoints -> Status] /\ waiting' \in [Workers -> Seq(Endpoints)]
      BY <1>1, <2>1, SMTT(120) DEF FunTypes, Status
    <2>6. QED
      BY <2>1, <2>3, <2>4, <2>5, ZenonT(120) DEF FunTypes, WorkerTypes, session
  <1>4. CASE caller[w] # "continue" /\ ep[w] \notin Sharing
    <2>1. Closed(ep[w]) /\ Return(w) /\ UNCHANGED <<waiting, scheduled, posted, faults>>
      BY <1>4, ZenonT(120) DEF LimitReached
    <2>2. QED
      BY <1>1, <1>2, <2>1, ClosedTypes, ReturnTypes, ZenonT(120) DEF FunTypes, WorkerTypes, session
  <1>5. CASE caller[w] = "continue"
    <2>1. ActivationEnds(w, scheduled[w]) /\ UNCHANGED <<waiting, endpoint, posted, faults>>
      BY <1>5, ZenonT(120) DEF LimitReached
    <2>2. WorkerTypes'
      BY <1>2, <2>1, ReturnTypes, ZenonT(120) DEF ActivationEnds
    <2>3. scheduled' \in [Workers -> BOOLEAN]
      BY <2>1, ZenonT(120) DEF ActivationEnds, FunTypes
    <2>4. QED
      BY <2>1, <2>2, <2>3, ZenonT(120) DEF FunTypes, WorkerTypes, session, endpoint, packets
  <1>6. QED
    BY <1>3, <1>4, <1>5, ZenonT(120)

LEMMA ConnectionFailsTypes ==
    ASSUME NEW w \in Workers, FunTypes, pc[w] # "idle", PlaceInv(w),
           ConnectionFails(w), UNCHANGED <<pool, session>>
    PROVE  FunTypes'
  <1>1. ep[w] \in Endpoints
    BY ZenonT(120) DEF PlaceInv
  <1>2. WorkerTypes
    BY ZenonT(120) DEF FunTypes, WorkerTypes
  <1>3. Closed(ep[w]) /\ UNCHANGED <<posted, faults>>
    BY ZenonT(120) DEF ConnectionFails
  <1>4. CASE caller[w] # "continue"
    <2>1. Return(w) /\ UNCHANGED <<waiting, scheduled>>
      BY <1>4, ZenonT(120) DEF ConnectionFails
    <2>2. QED
      BY <1>1, <1>2, <1>3, <2>1, ClosedTypes, ReturnTypes, ZenonT(120) DEF FunTypes, WorkerTypes, session
  <1>5. CASE caller[w] = "continue"
    <2>1. EraseFirst(w, scheduled[w]) /\ scheduled[w] \in BOOLEAN /\ waiting[w] # <<>>
      BY <1>5, ZenonT(120) DEF ConnectionFails, FunTypes, PlaceInv
    <2>2. QED
      BY <1>1, <1>3, <2>1, ClosedTypes, EraseFirstTypes, ZenonT(120) DEF FunTypes, WorkerTypes, session
  <1>6. QED
    BY <1>4, <1>5, ZenonT(120)

(* A pool without one of its connections. *)
LEMMA PoolWithout ==
    ASSUME FunTypes, NEW w \in Workers, NEW i \in DOMAIN pool[w],
           pool' = [pool EXCEPT ![w] = WithoutPlace(@, i)]
    PROVE  /\ pool' \in [Workers -> Seq(Kinds)]
           /\ Len(pool'[w]) = Len(pool[w]) - 1
           /\ \A k \in DOMAIN pool'[w] : \E j \in DOMAIN pool[w] : pool'[w][k] = pool[w][j]
           /\ \A u \in Workers \ {w} : pool'[u] = pool[u]
  <1> DEFINE p == pool[w]
             r == WithoutPlace(p, i)
  <1>1. p \in Seq(Kinds) /\ DOMAIN p = 1..Len(p) /\ Len(p) \in Nat
    BY SMTT(120) DEF FunTypes
  <1>2. /\ r \in Seq(Kinds) /\ Len(r) = Len(p) - 1
        /\ \A k \in 1..Len(p) - 1 : r[k] = IF k < i THEN p[k] ELSE p[k + 1]
    BY <1>1, WithoutPlaceIs, ZenonT(120)
  <1>3. pool'[w] = r /\ pool' \in [Workers -> Seq(Kinds)] /\ \A u \in Workers \ {w} : pool'[u] = pool[u]
    BY <1>2, ZenonT(120) DEF FunTypes
  <1> HIDE DEF p, r
  <1>4. ASSUME NEW k \in DOMAIN r PROVE \E j \in DOMAIN p : r[k] = p[j]
    <2>1. k \in 1..Len(p) - 1
      BY <1>1, <1>2, SMTT(120)
    <2>2. k \in DOMAIN p /\ k + 1 \in DOMAIN p
      BY <1>1, <2>1, SMTT(120)
    <2>3. r[k] = p[k] \/ r[k] = p[k + 1]
      BY <1>2, <2>1, ZenonT(120)
    <2>4. QED
      BY <2>2, <2>3, ZenonT(120)
  <1>5. QED
    BY <1>2, <1>3, <1>4, ZenonT(120) DEF p

LEMMA TypesGetConnection ==
    ASSUME QInv, n_current_conns \in Nat, n_conn_intents \in Nat, NEW w \in Workers, GetConnection(w)
    PROVE  FunTypes'
  <1>1. FunTypes /\ PlaceInv(w) /\ \A e \in Endpoints : PacketInv(e)
    BY ZenonT(120) DEF QInv, WorkerInv
  <1>2. pc[w] # "idle"
    BY ZenonT(120) DEF GetConnection, Reuse, ReuseFails, ReadConns, PreCheck, add_conn_intent, Recheck, Create,
           CreateFails, remove_conn_intent, handle_failed_continue
  <1>3. ep[w] \in Endpoints /\ PacketInv(ep[w])
    BY <1>1, <1>2, ZenonT(120) DEF PlaceInv
  <1>4. CASE Reuse(w)
    <2>1. PICK i \in Reusable(w, ep[w]) : pool' = [pool EXCEPT ![w] = WithoutPlace(@, i)]
      BY <1>4, ZenonT(120) DEF Reuse
    <2>2. pool' \in [Workers -> Seq(Kinds)]
      BY <1>1, <2>1, PoolWithout, ZenonT(120) DEF Reusable
    <2>3. CASE Connected(w)
      BY <1>1, <1>2, <1>3, <1>4, <2>2, <2>3, ConnectedTypes, ZenonT(120) DEF FunTypes, WorkerTypes, Reuse, session
    <2>4. CASE WriteFails(w)
      BY <1>1, <1>2, <1>3, <1>4, <2>2, <2>4, WriteFailsTypes, ZenonT(120) DEF FunTypes, WorkerTypes, Reuse, session, queues
    <2>5. QED
      BY <1>4, <2>3, <2>4, ZenonT(120) DEF Reuse
  <1>5. CASE ReuseFails(w)
    <2>1. PICK i \in Reusable(w, ep[w]) : pool' = [pool EXCEPT ![w] = WithoutPlace(@, i)]
      BY <1>5, ZenonT(120) DEF ReuseFails
    <2>2. pool' \in [Workers -> Seq(Kinds)]
      BY <1>1, <2>1, PoolWithout, ZenonT(120) DEF Reusable
    <2>3. scheduled' \in [Workers -> BOOLEAN] /\ posted' \in [Workers -> BOOLEAN]
      BY <1>1, <1>5, ZenonT(120) DEF ReuseFails, notify_connection_available, FunTypes
    <2>4. faults' \in 0..MaxFaults
      BY <1>1, <1>5, SizesAssumption, SMTT(120) DEF ReuseFails, FunTypes
    <2>5. QED
      BY <1>1, <1>5, <2>2, <2>3, <2>4, ZenonT(120) DEF FunTypes, ReuseFails, worker, endpoint, packets, session
  <1>6. CASE ReadConns(w)
    BY <1>1, <1>6, ZenonT(120) DEF FunTypes, ReadConns, GoTo, endpoint, packets, session, queues, Getting
  <1>7. CASE PreCheck(w)
    <2>1. CASE LimitReached(w)
      BY <1>1, <1>2, <1>3, <1>7, <2>1, LimitReachedTypes, ZenonT(120) DEF PreCheck
    <2>2. CASE ~(value[w] + n_conn_intents >= max_routing_connections)
      BY <1>1, <1>7, <2>2, ZenonT(120) DEF FunTypes, PreCheck, GoTo, endpoint, packets, session, queues, Getting
    <2>3. QED
      BY <1>7, <2>1, <2>2, ZenonT(120) DEF PreCheck
  <1>8. CASE add_conn_intent(w)
    BY <1>1, <1>8, SMTT(120) DEF FunTypes, add_conn_intent, GoTo, endpoint, packets, session, queues, Getting
  <1>9. CASE Recheck(w)
    BY <1>1, <1>9, ZenonT(120) DEF FunTypes, Recheck, GoTo, endpoint, packets, session, queues, Getting
  <1>10. CASE Create(w)
    BY <1>1, <1>10, ZenonT(120) DEF FunTypes, Create, GoTo, endpoint, packets, session, queues, Getting
  <1>11. CASE CreateFails(w)
    <2>1. faults' \in 0..MaxFaults
      BY <1>1, <1>11, SizesAssumption, SMTT(120) DEF CreateFails, FunTypes
    <2>2. QED
      BY <1>1, <1>11, <2>1, ZenonT(120) DEF FunTypes, CreateFails, GoTo, endpoint, packets, session, queues, Getting
  <1>12. CASE remove_conn_intent(w)
    <2>1. UNCHANGED <<pool, session>>
      BY <1>12, ZenonT(120) DEF remove_conn_intent
    <2>2. CASE Connected(w)
      BY <1>1, <1>2, <1>3, <2>1, <2>2, ConnectedTypes, ZenonT(120) DEF FunTypes, WorkerTypes, session
    <2>3. CASE WriteFails(w)
      BY <1>1, <1>2, <1>3, <2>1, <2>3, WriteFailsTypes, ZenonT(120) DEF FunTypes, WorkerTypes, session, queues
    <2>4. CASE LimitReached(w)
      BY <1>1, <1>2, <1>3, <2>1, <2>4, LimitReachedTypes, ZenonT(120)
    <2>5. CASE ConnectionFails(w)
      BY <1>1, <1>2, <2>1, <2>5, ConnectionFailsTypes, ZenonT(120)
    <2>6. QED
      BY <1>12, <2>2, <2>3, <2>4, <2>5, ZenonT(120) DEF remove_conn_intent
  <1>13. CASE handle_failed_continue(w)
    <2>1. Closed(ep[w]) /\ EraseFirst(w, TRUE) /\ waiting[w] # <<>> /\ UNCHANGED <<pool, session, faults>>
      BY <1>1, <1>13, ZenonT(120) DEF handle_failed_continue, PlaceInv
    <2>2. posted' \in [Workers -> BOOLEAN]
      BY <1>1, <1>13, ZenonT(120) DEF handle_failed_continue, FunTypes
    <2>3. QED
      BY <1>1, <1>3, <2>1, <2>2, ClosedTypes, EraseFirstTypes, ZenonT(120) DEF FunTypes, WorkerTypes, session
  <1>14. QED
    BY <1>4, <1>5, <1>6, <1>7, <1>8, <1>9, <1>10, <1>11, <1>12, <1>13, ZenonT(120) DEF GetConnection

LEMMA NotifyTypes ==
    ASSUME NEW w \in Workers, FunTypes, notify_connection_available(w)
    PROVE  scheduled' \in [Workers -> BOOLEAN] /\ posted' \in [Workers -> BOOLEAN]
  BY ZenonT(120) DEF notify_connection_available, FunTypes

LEMMA KindOf == ASSUME FunTypes, NEW e \in Endpoints PROVE kind[e] \in Kinds
  <1>1. kind \in KindChoices
    BY ZenonT(120) DEF FunTypes
  <1>2. QED
    BY <1>1, SetsAssumption, ZenonT(120)

(* An element is appended to one of a family of sequences. *)
LEMMA AppendType ==
    ASSUME NEW A, NEW S, NEW f \in [A -> Seq(S)], NEW a \in A, NEW x \in S
    PROVE  [f EXCEPT ![a] = Append(f[a], x)] \in [A -> Seq(S)]
  BY SMTT(120)

LEMMA OpenTypes ==
    ASSUME FunTypes, NEW e \in Endpoints, Open(e), WorkerTypes', opens' \in [Endpoints -> 0..MaxOpens]
    PROVE  FunTypes'
  <1>1. /\ UNCHANGED <<pool, waiting, scheduled, posted, connstatus, ready, outstanding>>
        /\ UNCHANGED <<routed, delayed, sent, kind, faults>>
    BY ZenonT(120) DEF Open, packets, queues
  <1>2. can_pool' \in [Endpoints -> BOOLEAN] /\ poolcall' \in [Endpoints -> BOOLEAN]
    BY SMTT(120) DEF Open, FunTypes
  <1>3. QED
    BY <1>1, <1>2, ZenonT(120) DEF FunTypes, WorkerTypes

LEMMA TypesSession ==
    ASSUME QInv, NEW e \in Endpoints, SessionEvent(e)
    PROVE  FunTypes'
  <1>1. FunTypes /\ PacketInv(e) /\ home[e] \in Workers
    BY SetsAssumption, ZenonT(120) DEF QInv
  <1>2. CASE Open(e)
    <2>1. opens' \in [Endpoints -> 0..MaxOpens]
      <3>1. opens \in [Endpoints -> 0..MaxOpens]
        BY <1>1, ZenonT(120) DEF FunTypes
      <3>2. opens[e] < MaxOpens /\ opens' = [opens EXCEPT ![e] = @ + 1]
        BY <1>2, ZenonT(120) DEF Open
      <3>3. QED
        BY <3>1, <3>2, SizesAssumption, SMTT(120)
    <2>2. WorkerTypes'
      BY <1>1, <1>2, ZenonT(120) DEF Open, get_backend_connection, FunTypes, WorkerTypes, Getting
    <2>3. QED
      BY <1>1, <1>2, <2>1, <2>2, OpenTypes, ZenonT(120)
  <1>3. CASE routeQuery(e)
    <2>1. routed' \in [Endpoints -> 0..MaxQueries] /\ routed[e] + 1 \in 1..MaxQueries
      <3>1. routed \in [Endpoints -> 0..MaxQueries]
        BY <1>1, ZenonT(120) DEF FunTypes
      <3>2. routed[e] < MaxQueries /\ routed' = [routed EXCEPT ![e] = @ + 1]
        BY <1>3, ZenonT(120) DEF routeQuery
      <3>3. QED
        BY <3>1, <3>2, SizesAssumption, SMTT(120)
    <2>2. UNCHANGED <<pool, waiting, scheduled, posted, connstatus, ready, can_pool, poolcall, kind, opens, faults>>
      BY <1>3, ZenonT(120) DEF routeQuery, queues, session
    <2>3. CASE RouteConnected(e)
      <3>1. sent' \in [Endpoints -> Seq(1..MaxQueries)] /\ outstanding' \in [Endpoints -> Int]
        <4>1. sent \in [Endpoints -> Seq(1..MaxQueries)] /\ outstanding \in [Endpoints -> Int]
          BY <1>1, ZenonT(120) DEF FunTypes
        <4>2. /\ sent' = [sent EXCEPT ![e] = Append(@, routed[e] + 1)]
              /\ outstanding' = [outstanding EXCEPT ![e] = @ + 1]
          BY <2>3, ZenonT(120) DEF RouteConnected
        <4>3. sent' \in [Endpoints -> Seq(1..MaxQueries)]
          BY <2>1, <4>1, <4>2, AppendType, SMTT(120)
        <4>4. outstanding' \in [Endpoints -> Int]
          BY <4>1, <4>2, SMTT(120)
        <4>5. QED
          BY <4>3, <4>4, ZenonT(120)
      <3>2. QED
        BY <1>1, <2>1, <2>2, <2>3, <3>1, ZenonT(120) DEF RouteConnected, FunTypes, worker
    <2>4. CASE RoutePooled(e)
      <3>1. WorkerTypes'
        BY <1>1, <2>4, ZenonT(120) DEF RoutePooled, get_backend_connection, FunTypes, WorkerTypes, Getting
      <3>2. QED
        BY <1>1, <2>1, <2>2, <2>4, <3>1, ZenonT(120) DEF RoutePooled, FunTypes, WorkerTypes
    <2>5. CASE RouteWaiting(e)
      <3>1. delayed' \in [Endpoints -> Seq(1..MaxQueries)]
        <4>1. delayed \in [Endpoints -> Seq(1..MaxQueries)]
          BY <1>1, ZenonT(120) DEF FunTypes
        <4>2. delayed' = [delayed EXCEPT ![e] = Append(@, routed[e] + 1)]
          BY <2>5, ZenonT(120) DEF RouteWaiting
        <4>3. QED
          BY <2>1, <4>1, <4>2, AppendType, SMTT(120)
      <3>2. QED
        BY <1>1, <2>1, <2>2, <2>5, <3>1, ZenonT(120) DEF RouteWaiting, FunTypes, worker
    <2>6. QED
      BY <1>3, <2>3, <2>4, <2>5, ZenonT(120) DEF routeQuery
  <1>4. CASE ConnectionReady(e)
    BY <1>1, <1>4, ZenonT(120) DEF ConnectionReady, FunTypes, worker, queues, packets, session
  <1>5. CASE clientReply(e)
    <2>1. outstanding' \in [Endpoints -> Int]
      BY <1>1, <1>5, SMTT(120) DEF clientReply, FunTypes
    <2>2. can_pool' \in [Endpoints -> BOOLEAN] /\ poolcall' \in [Endpoints -> BOOLEAN]
      BY <1>1, <1>5, ZenonT(120) DEF clientReply, FunTypes
    <2>3. QED
      BY <1>1, <1>5, <2>1, <2>2, ZenonT(120) DEF clientReply, FunTypes, worker, queues, packets, session
  <1>6. CASE try_to_pool(e)
    <2>1. kind[e] \in Kinds
      BY <1>1, KindOf, ZenonT(120)
    <2>2. pool' \in [Workers -> Seq(Kinds)]
      <3>1. pool \in [Workers -> Seq(Kinds)]
        BY <1>1, ZenonT(120) DEF FunTypes
      <3>2. pool' = [pool EXCEPT ![home[e]] = Append(@, kind[e])]
        BY <1>6, ZenonT(120) DEF try_to_pool
      <3>3. QED
        BY <1>1, <2>1, <3>1, <3>2, AppendType, ZenonT(120)
    <2>3. scheduled' \in [Workers -> BOOLEAN] /\ posted' \in [Workers -> BOOLEAN]
      BY <1>1, <1>6, NotifyTypes, ZenonT(120) DEF try_to_pool
    <2>4. QED
      BY <1>1, <1>6, <2>2, <2>3, ZenonT(120) DEF try_to_pool, FunTypes, worker, packets, session, Status
  <1>7. CASE NothingToPool(e)
    BY <1>1, <1>7, ZenonT(120) DEF NothingToPool, FunTypes, worker, queues, packets, session
  <1>8. CASE Close(e)
    <2>1. kind[e] \in Kinds
      BY <1>1, SetsAssumption, SMTT(120) DEF FunTypes
    <2>2. CASE \E quit \in BOOLEAN : CloseConnected(e, quit)
      <3>1. /\ pool' = [pool EXCEPT ![home[e]] = Append(@, kind[e])] \/ pool' = pool
            /\ UNCHANGED waiting /\ notify_connection_available(home[e])
        BY <2>2, ZenonT(120) DEF CloseConnected
      <3>2. pool' \in [Workers -> Seq(Kinds)]
        <4>1. pool \in [Workers -> Seq(Kinds)]
          BY <1>1, ZenonT(120) DEF FunTypes
        <4>2. Append(pool[home[e]], kind[e]) \in Seq(Kinds)
          BY <1>1, <2>1, <4>1, SMTT(120)
        <4>3. QED
          BY <1>1, <3>1, <4>1, <4>2, ZenonT(120)
      <3>3. QED
        BY <1>1, <1>8, <3>1, <3>2, ClosedTypes, NotifyTypes, ZenonT(120) DEF Close, FunTypes, worker, session
    <2>3. CASE CloseWaiting(e)
      <3>1. PICK i \in DOMAIN waiting[home[e]] :
                waiting' = [waiting EXCEPT ![home[e]] = WithoutPlace(@, i)]
        BY <2>3, ZenonT(120) DEF CloseWaiting
      <3>2. WithoutPlace(waiting[home[e]], i) \in Seq(Endpoints)
        BY <1>1, WithoutPlaceIs, SMTT(120) DEF FunTypes
      <3>3. waiting' \in [Workers -> Seq(Endpoints)]
        BY <1>1, <3>1, <3>2, ZenonT(120) DEF FunTypes
      <3>4. QED
        BY <1>1, <1>8, <2>3, <3>3, ClosedTypes, ZenonT(120) DEF Close, CloseWaiting, FunTypes, worker, session
    <2>4. CASE ClosePooled(e)
      BY <1>1, <1>8, <2>4, ClosedTypes, ZenonT(120) DEF Close, ClosePooled, FunTypes, worker, session, queues
    <2>5. QED
      BY <1>8, <2>2, <2>3, <2>4, ZenonT(120) DEF Close
  <1>9. QED
    BY <1>2, <1>3, <1>4, <1>5, <1>6, <1>7, <1>8, ZenonT(120) DEF SessionEvent

LEMMA TypesWorker ==
    ASSUME QInv, NEW w \in Workers, WorkerEvent(w)
    PROVE  FunTypes'
  <1>1. FunTypes
    BY ZenonT(120) DEF QInv
  <1>2. CASE close_pooled_dcb(w)
    <2>1. PICK i \in DOMAIN pool[w] : pool' = [pool EXCEPT ![w] = WithoutPlace(@, i)]
      BY <1>2, ZenonT(120) DEF close_pooled_dcb
    <2>2. pool' \in [Workers -> Seq(Kinds)]
      BY <1>1, <2>1, PoolWithout, ZenonT(120)
    <2>3. QED
      BY <1>1, <1>2, <2>2, NotifyTypes, ZenonT(120) DEF close_pooled_dcb, FunTypes, worker, endpoint, packets, session
  <1>3. waiting[w] # <<>> => Head(waiting[w]) \in Endpoints
    BY <1>1, SMTT(120) DEF FunTypes
  <1>4. ASSUME NEW b \in BOOLEAN, activate_waiting_endpoints(w, b)
        PROVE  WorkerTypes' /\ UNCHANGED scheduled
    BY <1>1, <1>3, <1>4, ZenonT(120) DEF activate_waiting_endpoints, get_backend_connection, FunTypes, WorkerTypes, Getting
  <1>5. CASE Activate(w)
    <2>1. posted' \in [Workers -> BOOLEAN] /\ scheduled' \in [Workers -> BOOLEAN]
      BY <1>1, <1>5, ZenonT(120) DEF Activate, activate_waiting_endpoints, FunTypes
    <2>2. WorkerTypes'
      BY <1>1, <1>4, <1>5, ZenonT(120) DEF Activate, FunTypes, WorkerTypes, worker
    <2>3. QED
      BY <1>1, <1>5, <2>1, <2>2, ZenonT(120) DEF Activate, FunTypes, WorkerTypes, endpoint, packets, session
  <1>6. CASE ActivateTimer(w)
    BY <1>1, <1>4, <1>6, ZenonT(120) DEF ActivateTimer, FunTypes, WorkerTypes, endpoint, packets, session
  <1>7. CASE PostFails(w)
    <2>1. faults' \in 0..MaxFaults
      BY <1>1, <1>7, SizesAssumption, SMTT(120) DEF PostFails, FunTypes
    <2>2. QED
      BY <1>1, <1>7, <2>1, ZenonT(120) DEF PostFails, FunTypes, worker, endpoint, packets, session
  <1>8. CASE fail_timed_out_endpoints(w)
    <2>1. waiting' \in [Workers -> Seq(Endpoints)]
      BY <1>1, <1>8, SMTT(120) DEF fail_timed_out_endpoints, FunTypes
    <2>2. QED
      BY <1>1, <1>3, <1>8, <2>1, ClosedTypes, ZenonT(120) DEF fail_timed_out_endpoints, FunTypes, worker, session
  <1>9. QED
    BY <1>2, <1>5, <1>6, <1>7, <1>8, ZenonT(120) DEF WorkerEvent

LEMMA TypesKept == QInv /\ n_current_conns \in Nat /\ n_conn_intents \in Nat /\ Next => FunTypes'
  BY TypesGetConnection, TypesSession, TypesWorker, ZenonT(120) DEF Next

-----------------------------------------------------------------------------
(* Places and queues. *)

(* r is q without its i-th element. *)
Without(r, q, i) ==
    /\ Len(r) = Len(q) - 1
    /\ \A k \in 1..Len(q) - 1 : r[k] = IF k < i THEN q[k] ELSE q[k + 1]

LEMMA WithoutElement ==
    ASSUME NEW S, NEW q \in Seq(S), NEW r \in Seq(S), NEW i \in DOMAIN q, Without(r, q, i)
    PROVE  /\ \A k \in DOMAIN r : \E j \in DOMAIN q : j # i /\ r[k] = q[j] /\ (k < i => j = k)
           /\ \A j \in DOMAIN q : j # i => \E k \in DOMAIN r : r[k] = q[j]
           /\ (\A k, l \in DOMAIN q : q[k] = q[l] => k = l) =>
                 \A k, l \in DOMAIN r : r[k] = r[l] => k = l
  <1>1. /\ DOMAIN q = 1..Len(q) /\ DOMAIN r = 1..Len(r) /\ Len(q) \in Nat
        /\ Len(r) = Len(q) - 1 /\ i \in 1..Len(q)
    BY SMTT(120) DEF Without
  <1>2. \A k \in DOMAIN r : r[k] = IF k < i THEN q[k] ELSE q[k + 1]
    BY <1>1, ZenonT(120) DEF Without
  <1>3. ASSUME NEW k \in DOMAIN r PROVE \E j \in DOMAIN q : j # i /\ r[k] = q[j] /\ (k < i => j = k)
    <2>1. CASE k < i
      BY <1>1, <1>2, <2>1, SMTT(120)
    <2>2. CASE ~(k < i)
      <3>1. k + 1 \in DOMAIN q /\ k + 1 # i
        BY <1>1, <2>2, SMTT(120)
      <3>2. QED
        BY <1>2, <2>2, <3>1, ZenonT(120)
    <2>3. QED
      BY <2>1, <2>2, ZenonT(120)
  <1>4. ASSUME NEW j \in DOMAIN q, j # i PROVE \E k \in DOMAIN r : r[k] = q[j]
    <2>1. CASE j < i
      BY <1>1, <1>2, <2>1, SMTT(120)
    <2>2. CASE ~(j < i)
      <3>1. j - 1 \in DOMAIN r /\ ~(j - 1 < i) /\ (j - 1) + 1 = j
        BY <1>1, <1>4, <2>2, SMTT(120)
      <3>2. r[j - 1] = q[(j - 1) + 1]
        BY <1>2, <3>1, ZenonT(120)
      <3>3. QED
        BY <3>1, <3>2, ZenonT(120)
    <2>3. QED
      BY <2>1, <2>2, ZenonT(120)
  <1>5. ASSUME \A k, l \in DOMAIN q : q[k] = q[l] => k = l,
               NEW k \in DOMAIN r, NEW l \in DOMAIN r, r[k] = r[l]
        PROVE  k = l
    <2> DEFINE from(n) == IF n < i THEN n ELSE n + 1
    <2>1. from(k) \in DOMAIN q /\ from(l) \in DOMAIN q
      BY <1>1, SMTT(120)
    <2>2. r[k] = q[from(k)] /\ r[l] = q[from(l)]
      BY <1>2, ZenonT(120)
    <2>3. from(k) = from(l)
      BY <1>5, <2>1, <2>2, ZenonT(120)
    <2>4. QED
      BY <1>1, <2>3, SMTT(120)
  <1>6. QED
    BY <1>3, <1>4, <1>5, ZenonT(120)

(* The first endpoint of the queue is served and erased. *)
LEMMA EraseFirstPlaces ==
    ASSUME FunTypes, NEW w \in Workers, PlaceInv(w), QueueInv(w), pc[w] # "idle", caller[w] = "continue",
           NEW flag, EraseFirst(w, flag), NEW st \in {"CONNECTED", "NO_CONN"}, StatusGets(ep[w], st)
    PROVE  PlaceInv(w)' /\ QueueInv(w)'
  <1>1. /\ waiting[w] \in Seq(Endpoints) /\ waiting[w] # <<>> /\ ep[w] = waiting[w][1]
        /\ ep[w] \in Endpoints /\ home[ep[w]] = w
    BY ZenonT(120) DEF FunTypes, PlaceInv
  <1>2. waiting'[w] = Tail(waiting[w]) /\ waiting'[w] \in Seq(Endpoints)
    BY <1>1, SMTT(120) DEF EraseFirst, FunTypes
  <1>3. 1 \in DOMAIN waiting[w] /\ Without(waiting'[w], waiting[w], 1)
    <2>1. /\ 1 \in DOMAIN waiting[w] /\ Len(waiting[w]) \in Nat
          /\ Len(waiting'[w]) = Len(waiting[w]) - 1
          /\ \A k \in 1..Len(waiting[w]) - 1 : waiting'[w][k] = waiting[w][k + 1]
      BY <1>1, <1>2, TailIs, SMTT(120)
    <2>2. QED
      BY <2>1, SMTT(120) DEF Without
  <1>4. /\ \A k \in DOMAIN waiting'[w] : \E j \in DOMAIN waiting[w] : j # 1 /\ waiting'[w][k] = waiting[w][j]
        /\ \A j \in DOMAIN waiting[w] : j # 1 => \E k \in DOMAIN waiting'[w] : waiting'[w][k] = waiting[w][j]
        /\ \A k, l \in DOMAIN waiting'[w] : waiting'[w][k] = waiting'[w][l] => k = l
    <2>1. /\ \A k \in DOMAIN waiting'[w] : \E j \in DOMAIN waiting[w] :
                j # 1 /\ waiting'[w][k] = waiting[w][j] /\ (k < 1 => j = k)
          /\ \A j \in DOMAIN waiting[w] : j # 1 => \E k \in DOMAIN waiting'[w] : waiting'[w][k] = waiting[w][j]
          /\ (\A k, l \in DOMAIN waiting[w] : waiting[w][k] = waiting[w][l] => k = l) =>
                \A k, l \in DOMAIN waiting'[w] : waiting'[w][k] = waiting'[w][l] => k = l
      BY <1>1, <1>2, <1>3, WithoutElement, ZenonT(120)
    <2>2. \A k, l \in DOMAIN waiting[w] : waiting[w][k] = waiting[w][l] => k = l
      BY ZenonT(120) DEF QueueInv
    <2>3. QED
      BY <2>1, <2>2, ZenonT(120)
  <1>5. /\ \A e \in Endpoints : e # ep[w] => connstatus'[e] = connstatus[e]
        /\ connstatus'[ep[w]] = st
    BY <1>1, ZenonT(120) DEF StatusGets, FunTypes
  <1>6. \A k \in DOMAIN waiting'[w] : /\ waiting'[w][k] \in Endpoints /\ home[waiting'[w][k]] = w
                                       /\ connstatus'[waiting'[w][k]] = "WAITING_FOR_CONN"
    <2>1. SUFFICES ASSUME NEW k \in DOMAIN waiting'[w]
                   PROVE  /\ waiting'[w][k] \in Endpoints /\ home[waiting'[w][k]] = w
                          /\ connstatus'[waiting'[w][k]] = "WAITING_FOR_CONN"
      BY ZenonT(120)
    <2>2. PICK j \in DOMAIN waiting[w] : j # 1 /\ waiting'[w][k] = waiting[w][j]
      BY <1>4, ZenonT(120)
    <2>3. waiting[w][j] # waiting[w][1] /\ waiting[w][j] \in Endpoints
      BY <1>1, <1>3, <2>2, SMTT(120) DEF QueueInv
    <2>4. home[waiting[w][j]] = w /\ connstatus[waiting[w][j]] = "WAITING_FOR_CONN"
      BY <2>2, ZenonT(120) DEF QueueInv
    <2>5. QED
      BY <1>1, <1>5, <2>2, <2>3, <2>4, ZenonT(120)
  <1>7. QueueInv(w)'
    <2>1. ASSUME NEW e \in Endpoints, home[e] = w, connstatus'[e] = "WAITING_FOR_CONN"
          PROVE  \E i \in DOMAIN waiting'[w] : waiting'[w][i] = e
      <3>1. e # ep[w] /\ connstatus[e] = "WAITING_FOR_CONN"
        BY <1>5, <2>1, ZenonT(120)
      <3>2. PICK j \in DOMAIN waiting[w] : waiting[w][j] = e
        BY <2>1, <3>1, ZenonT(120) DEF QueueInv
      <3>3. QED
        BY <1>1, <1>4, <3>1, <3>2, ZenonT(120)
    <2>2. QED
      BY <1>4, <1>6, <2>1, ZenonT(120) DEF QueueInv
  <1>8. \A e \in Endpoints : ~(home[e] = w /\ connstatus'[e] = "CONNECTED_FAILED")
    BY <1>5, ZenonT(120) DEF PlaceInv
  <1>9. CASE Tail(waiting[w]) = <<>>
    <2>1. pc'[w] = "idle" /\ caller'[w] = "connect"
      BY <1>9, ZenonT(120) DEF EraseFirst, ActivationEnds, Return, FunTypes
    <2>2. PlaceInv(w)'
      BY <1>8, <2>1, ZenonT(120) DEF PlaceInv, Getting
    <2>3. QED
      BY <1>7, <2>2, ZenonT(120)
  <1>10. CASE Tail(waiting[w]) # <<>>
    <2>1. pc'[w] = "pool" /\ caller'[w] = "continue" /\ ep'[w] = Head(waiting'[w])
      BY <1>2, <1>10, ZenonT(120) DEF EraseFirst, get_backend_connection, FunTypes
    <2>2. ep'[w] = waiting'[w][1] /\ 1 \in DOMAIN waiting'[w] /\ waiting'[w] # <<>>
      BY <1>2, <1>10, <2>1, TailIs, ZenonT(120)
    <2>3. PlaceInv(w)'
      BY <1>6, <1>8, <2>1, <2>2, ZenonT(120) DEF PlaceInv, Getting, CallerStatus
    <2>4. QED
      BY <1>7, <2>3, ZenonT(120)
  <1>11. QED
    BY <1>9, <1>10, ZenonT(120)

(* What the queue says of its members while the worker has not failed to write. *)
LEMMA QueueWaits ==
    ASSUME NEW w \in Workers, QueueInv(w), pc[w] # "failed", NEW i \in DOMAIN waiting[w]
    PROVE  home[waiting[w][i]] = w /\ connstatus[waiting[w][i]] = "WAITING_FOR_CONN"
  BY ZenonT(120) DEF QueueInv

LEMMA QueueDistinct ==
    ASSUME NEW w \in Workers, QueueInv(w), NEW i \in DOMAIN waiting[w], NEW j \in DOMAIN waiting[w],
           waiting[w][i] = waiting[w][j]
    PROVE  i = j
  BY ZenonT(120) DEF QueueInv

(* The queue of a worker is as it was, and no other endpoint waits. *)
LEMMA QueueSame ==
    ASSUME NEW w \in Workers, QueueInv(w), waiting'[w] = waiting[w],
           \A e \in Endpoints : connstatus'[e] = "WAITING_FOR_CONN" => connstatus[e] = "WAITING_FOR_CONN",
           \A i \in DOMAIN waiting[w] :
              /\ home[waiting[w][i]] = w
              /\ \/ connstatus'[waiting[w][i]] = "WAITING_FOR_CONN"
                 \/ i = 1 /\ pc'[w] = "failed" /\ connstatus'[waiting[w][i]] = "CONNECTED_FAILED"
    PROVE  QueueInv(w)'
  <1>1. ASSUME NEW i \in DOMAIN waiting'[w], NEW j \in DOMAIN waiting'[w], waiting'[w][i] = waiting'[w][j]
        PROVE  i = j
    <2>1. i \in DOMAIN waiting[w] /\ j \in DOMAIN waiting[w] /\ waiting[w][i] = waiting[w][j]
      BY <1>1, SMTT(120)
    <2>2. QED
      BY <2>1, QueueDistinct, SMTT(120)
  <1>2. \A e \in Endpoints : home[e] = w /\ connstatus'[e] = "WAITING_FOR_CONN" =>
           \E i \in DOMAIN waiting'[w] : waiting'[w][i] = e
    <2>1. SUFFICES ASSUME NEW e \in Endpoints, home[e] = w, connstatus'[e] = "WAITING_FOR_CONN"
                   PROVE  \E i \in DOMAIN waiting'[w] : waiting'[w][i] = e
      BY ZenonT(120)
    <2>2. PICK i \in DOMAIN waiting[w] : waiting[w][i] = e
      BY <2>1, ZenonT(120) DEF QueueInv
    <2>3. QED
      BY <2>2, ZenonT(120)
  <1>3. QED
    BY <1>1, <1>2, ZenonT(120) DEF QueueInv

(* ... and the endpoints in it wait on. *)
LEMMA QueueKept ==
    ASSUME NEW w \in Workers, QueueInv(w), pc[w] # "failed", waiting'[w] = waiting[w],
           \A i \in DOMAIN waiting[w] : connstatus'[waiting[w][i]] = connstatus[waiting[w][i]],
           \A e \in Endpoints : connstatus'[e] = "WAITING_FOR_CONN" => connstatus[e] = "WAITING_FOR_CONN"
    PROVE  QueueInv(w)'
  <1>1. ASSUME NEW i \in DOMAIN waiting[w]
        PROVE  home[waiting[w][i]] = w /\ connstatus'[waiting[w][i]] = "WAITING_FOR_CONN"
    BY QueueWaits, ZenonT(120)
  <1>2. QED
    BY <1>1, QueueSame, ZenonT(120)

(* An endpoint that did not wait gets a status that does not wait. *)
LEMMA QueueStatus ==
    ASSUME NEW w \in Workers, QueueInv(w), pc[w] # "failed", waiting'[w] = waiting[w],
           \A i \in DOMAIN waiting[w] : waiting[w][i] \in Endpoints,
           NEW e \in Endpoints, connstatus[e] # "WAITING_FOR_CONN", connstatus'[e] # "WAITING_FOR_CONN",
           \A f \in Endpoints : f # e => connstatus'[f] = connstatus[f]
    PROVE  QueueInv(w)'
  <1>1. ASSUME NEW i \in DOMAIN waiting[w] PROVE connstatus'[waiting[w][i]] = connstatus[waiting[w][i]]
    <2>1. connstatus[waiting[w][i]] = "WAITING_FOR_CONN"
      BY QueueWaits, ZenonT(120)
    <2>2. waiting[w][i] # e
      BY <2>1, ZenonT(120)
    <2>3. QED
      BY <2>2, ZenonT(120)
  <1>2. \A f \in Endpoints : connstatus'[f] = "WAITING_FOR_CONN" => connstatus[f] = "WAITING_FOR_CONN"
    BY ZenonT(120)
  <1>3. QED
    BY <1>1, <1>2, QueueKept, ZenonT(120)

LEMMA ElementIs == ASSUME NEW S, NEW s \in Seq(S), NEW i \in DOMAIN s PROVE s[i] \in S
  BY SMTT(120)

(* What Append does, for a queue and for a pool. *)
LEMMA AppendIs ==
    ASSUME NEW S, NEW s \in Seq(S), NEW x \in S, NEW r, r = Append(s, x)
    PROVE  /\ DOMAIN s = 1..Len(s) /\ Len(s) \in Nat /\ Len(r) = Len(s) + 1
           /\ DOMAIN r = 1..Len(s) + 1 /\ r[Len(s) + 1] = x
           /\ \A i \in 1..Len(s) : r[i] = s[i] /\ s[i] \in S
  BY SMTT(120)

(* connect() or routeQuery() returns, and the endpoint does not wait. *)
LEMMA ReturnPlaces ==
    ASSUME FunTypes, NEW w \in Workers, PlaceInv(w), QueueInv(w), pc[w] \in Getting,
           caller[w] # "continue", Return(w), waiting'[w] = waiting[w],
           NEW st \in {"CONNECTED", "NO_CONN"}, StatusGets(ep[w], st)
    PROVE  PlaceInv(w)' /\ QueueInv(w)'
  <1>1. pc[w] # "idle" /\ pc[w] # "failed"
    BY ZenonT(120) DEF Getting
  <1>2. ep[w] \in Endpoints /\ home[ep[w]] = w /\ connstatus[ep[w]] \in {"NO_CONN", "IDLE_POOLED"}
    BY <1>1, ZenonT(120) DEF FunTypes, PlaceInv, CallerStatus
  <1>3. /\ \A e \in Endpoints : e # ep[w] => connstatus'[e] = connstatus[e]
        /\ connstatus'[ep[w]] = st
    BY <1>2, ZenonT(120) DEF StatusGets, FunTypes
  <1>4. pc'[w] = "idle" /\ caller'[w] = "connect"
    BY ZenonT(120) DEF Return, FunTypes
  <1>5. PlaceInv(w)'
    BY <1>1, <1>3, <1>4, ZenonT(120) DEF PlaceInv, Getting
  <1>6. \A i \in DOMAIN waiting[w] : waiting[w][i] \in Endpoints
    <2>1. waiting[w] \in Seq(Endpoints)
      BY ZenonT(120) DEF FunTypes
    <2>2. QED
      BY <2>1, ElementIs, ZenonT(120)
  <1>7. connstatus[ep[w]] # "WAITING_FOR_CONN" /\ connstatus'[ep[w]] # "WAITING_FOR_CONN"
    BY <1>2, <1>3, ZenonT(120)
  <1>8. QueueInv(w)'
    BY <1>1, <1>2, <1>3, <1>6, <1>7, QueueStatus, ZenonT(120)
  <1>9. QED
    BY <1>5, <1>8, ZenonT(120)

(* The endpoint joins those that wait. *)
LEMMA WaitPlaces ==
    ASSUME FunTypes, NEW w \in Workers, PlaceInv(w), QueueInv(w), pc[w] \in Getting,
           caller[w] # "continue", Return(w), StatusGets(ep[w], "WAITING_FOR_CONN"),
           waiting' = [waiting EXCEPT ![w] = Append(@, ep[w])]
    PROVE  PlaceInv(w)' /\ QueueInv(w)'
  <1>1. pc[w] # "idle" /\ pc[w] # "failed"
    BY ZenonT(120) DEF Getting
  <1>2. ep[w] \in Endpoints /\ home[ep[w]] = w /\ connstatus[ep[w]] \in {"NO_CONN", "IDLE_POOLED"}
    BY <1>1, ZenonT(120) DEF FunTypes, PlaceInv, CallerStatus
  <1>3. /\ \A e \in Endpoints : e # ep[w] => connstatus'[e] = connstatus[e]
        /\ connstatus'[ep[w]] = "WAITING_FOR_CONN"
    BY <1>2, ZenonT(120) DEF StatusGets, FunTypes
  <1>4. pc'[w] = "idle" /\ caller'[w] = "connect"
    BY ZenonT(120) DEF Return, FunTypes
  <1>5. PlaceInv(w)'
    BY <1>1, <1>3, <1>4, ZenonT(120) DEF PlaceInv, Getting
  <1>6. waiting[w] \in Seq(Endpoints) /\ waiting'[w] = Append(waiting[w], ep[w])
    BY ZenonT(120) DEF FunTypes
  <1>7. /\ DOMAIN waiting[w] = 1..Len(waiting[w]) /\ Len(waiting[w]) \in Nat
        /\ DOMAIN waiting'[w] = 1..Len(waiting[w]) + 1
        /\ waiting'[w][Len(waiting[w]) + 1] = ep[w]
        /\ \A i \in 1..Len(waiting[w]) : waiting'[w][i] = waiting[w][i] /\ waiting[w][i] \in Endpoints
    BY <1>2, <1>6, AppendIs, SMTT(120)
  <1>8. \A i \in 1..Len(waiting[w]) : /\ connstatus[waiting[w][i]] = "WAITING_FOR_CONN"
                                      /\ waiting[w][i] # ep[w] /\ home[waiting[w][i]] = w
    BY <1>1, <1>2, <1>7, ZenonT(120) DEF QueueInv
  <1>9. ASSUME NEW i \in DOMAIN waiting'[w], NEW j \in DOMAIN waiting'[w], waiting'[w][i] = waiting'[w][j]
        PROVE  i = j
    <2>1. i \in 1..Len(waiting[w]) \/ i = Len(waiting[w]) + 1
      BY <1>7, SMTT(120)
    <2>2. j \in 1..Len(waiting[w]) \/ j = Len(waiting[w]) + 1
      BY <1>7, SMTT(120)
    <2>3. CASE i \in 1..Len(waiting[w]) /\ j \in 1..Len(waiting[w])
      <3>1. waiting[w][i] = waiting[w][j] /\ i \in DOMAIN waiting[w] /\ j \in DOMAIN waiting[w]
        BY <1>7, <1>9, <2>3, ZenonT(120)
      <3>2. QED
        BY <3>1, ZenonT(120) DEF QueueInv
    <2>4. QED
      BY <1>7, <1>8, <1>9, <2>1, <2>2, <2>3, ZenonT(120)
  <1>10. ASSUME NEW i \in DOMAIN waiting'[w]
         PROVE  home[waiting'[w][i]] = w /\ connstatus'[waiting'[w][i]] = "WAITING_FOR_CONN"
    <2>1. i \in 1..Len(waiting[w]) \/ i = Len(waiting[w]) + 1
      BY <1>7, SMTT(120)
    <2>2. QED
      BY <1>2, <1>3, <1>7, <1>8, <2>1, ZenonT(120)
  <1>11. ASSUME NEW e \in Endpoints, home[e] = w, connstatus'[e] = "WAITING_FOR_CONN"
         PROVE  \E i \in DOMAIN waiting'[w] : waiting'[w][i] = e
    <2>1. CASE e = ep[w]
      <3>1. Len(waiting[w]) + 1 \in DOMAIN waiting'[w]
        BY <1>7, SMTT(120)
      <3>2. QED
        BY <1>7, <2>1, <3>1, ZenonT(120)
    <2>2. CASE e # ep[w]
      <3>1. PICK i \in DOMAIN waiting[w] : waiting[w][i] = e
        BY <1>3, <1>11, <2>2, ZenonT(120) DEF QueueInv
      <3>2. i \in DOMAIN waiting'[w] /\ waiting'[w][i] = e
        BY <1>7, <3>1, SMTT(120)
      <3>3. QED
        BY <3>2, ZenonT(120)
    <2>3. QED
      BY <2>1, <2>2, ZenonT(120)
  <1>12. QueueInv(w)'
    BY <1>9, <1>10, <1>11, ZenonT(120) DEF QueueInv
  <1>13. QED
    BY <1>5, <1>12, ZenonT(120)

(* The endpoint goes on waiting. *)
LEMMA StillWaitingPlaces ==
    ASSUME FunTypes, NEW w \in Workers, PlaceInv(w), QueueInv(w), pc[w] \in Getting,
           Return(w), waiting'[w] = waiting[w], connstatus' = connstatus
    PROVE  PlaceInv(w)' /\ QueueInv(w)'
  <1>1. pc[w] # "idle" /\ pc[w] # "failed"
    BY ZenonT(120) DEF Getting
  <1>2. pc'[w] = "idle" /\ caller'[w] = "connect"
    BY ZenonT(120) DEF Return, FunTypes
  <1>3. PlaceInv(w)'
    BY <1>1, <1>2, ZenonT(120) DEF PlaceInv, Getting
  <1>4. QueueInv(w)'
    BY <1>1, QueueKept, ZenonT(120)
  <1>5. QED
    BY <1>3, <1>4, ZenonT(120)

(* The write to the endpoint that was first in the queue has failed. *)
LEMMA WriteFailsPlaces ==
    ASSUME FunTypes, NEW w \in Workers, PlaceInv(w), QueueInv(w), pc[w] \in Getting, WriteFails(w)
    PROVE  PlaceInv(w)' /\ QueueInv(w)'
  <1>1. pc[w] # "idle" /\ pc[w] # "failed"
    BY ZenonT(120) DEF Getting
  <1>2. /\ ep[w] \in Endpoints /\ home[ep[w]] = w /\ caller[w] = "continue"
        /\ waiting[w] # <<>> /\ ep[w] = waiting[w][1] /\ 1 \in DOMAIN waiting[w]
        /\ waiting[w] \in Seq(Endpoints)
    BY <1>1, TailIs, ZenonT(120) DEF FunTypes, PlaceInv, WriteFails
  <1>3. /\ pc'[w] = "failed" /\ ep'[w] = ep[w] /\ caller'[w] = "continue" /\ waiting'[w] = waiting[w]
        /\ \A e \in Endpoints : e # ep[w] => connstatus'[e] = connstatus[e]
        /\ connstatus'[ep[w]] = "CONNECTED_FAILED"
    BY <1>2, ZenonT(120) DEF WriteFails, GoTo, FunTypes, queues
  <1>4. PlaceInv(w)'
    BY <1>1, <1>2, <1>3, ZenonT(120) DEF PlaceInv, Getting
  <1>5. \A i \in DOMAIN waiting[w] : waiting[w][i] \in Endpoints /\ (waiting[w][i] = ep[w] => i = 1)
    <2>1. ASSUME NEW i \in DOMAIN waiting[w] PROVE waiting[w][i] \in Endpoints
      BY <1>2, ElementIs, ZenonT(120)
    <2>2. ASSUME NEW i \in DOMAIN waiting[w], waiting[w][i] = ep[w] PROVE i = 1
      <3>1. waiting[w][i] = waiting[w][1]
        BY <1>2, <2>2, ZenonT(120)
      <3>2. QED
        BY <1>2, <3>1, QueueDistinct, ZenonT(120)
    <2>3. QED
      BY <2>1, <2>2, ZenonT(120)
  <1>6. ASSUME NEW i \in DOMAIN waiting[w]
        PROVE  /\ home[waiting[w][i]] = w
               /\ \/ connstatus'[waiting[w][i]] = "WAITING_FOR_CONN"
                  \/ i = 1 /\ pc'[w] = "failed" /\ connstatus'[waiting[w][i]] = "CONNECTED_FAILED"
    <2>1. home[waiting[w][i]] = w /\ connstatus[waiting[w][i]] = "WAITING_FOR_CONN"
      BY <1>1, QueueWaits, ZenonT(120)
    <2>2. CASE waiting[w][i] = ep[w]
      BY <1>3, <1>5, <2>1, <2>2, ZenonT(120)
    <2>3. CASE waiting[w][i] # ep[w]
      BY <1>3, <1>5, <2>1, <2>3, ZenonT(120)
    <2>4. QED
      BY <2>2, <2>3, ZenonT(120)
  <1>7. \A e \in Endpoints : connstatus'[e] = "WAITING_FOR_CONN" => connstatus[e] = "WAITING_FOR_CONN"
    BY <1>3, ZenonT(120)
  <1>8. waiting'[w] = waiting[w]
    BY <1>3, ZenonT(120)
  <1>9. QueueInv(w)'
    BY <1>6, <1>7, <1>8, QueueSame, ZenonT(120)
  <1>10. QED
    BY <1>4, <1>9, ZenonT(120)

(* The worker goes on inside of get_backend_connection. *)
LEMMA MovePlaces ==
    ASSUME FunTypes, NEW w \in Workers, PlaceInv(w), QueueInv(w), pc[w] \in Getting, pc'[w] \in Getting,
           ep'[w] = ep[w], caller'[w] = caller[w], waiting'[w] = waiting[w], connstatus' = connstatus
    PROVE  PlaceInv(w)' /\ QueueInv(w)'
  <1>1. pc[w] # "idle" /\ pc[w] # "failed" /\ pc'[w] # "idle" /\ pc'[w] # "failed"
    BY ZenonT(120) DEF Getting
  <1>2. PlaceInv(w)'
    BY <1>1, ZenonT(120) DEF PlaceInv
  <1>3. QueueInv(w)'
    BY <1>1, QueueKept, ZenonT(120)
  <1>4. QED
    BY <1>2, <1>3, ZenonT(120)

(* The worker starts to get a connection. *)
LEMMA StartPlaces ==
    ASSUME FunTypes, NEW w \in Workers, PlaceInv(w), QueueInv(w), Idle(w),
           NEW e \in Endpoints, home[e] = w, NEW why \in {"connect", "route", "continue"},
           get_backend_connection(w, e, why),
           connstatus[e] = CallerStatus(why), connstatus' = connstatus, waiting' = waiting,
           why = "continue" => waiting[w] # <<>> /\ e = waiting[w][1]
    PROVE  PlaceInv(w)' /\ QueueInv(w)'
  <1>1. pc'[w] = "pool" /\ ep'[w] = e /\ caller'[w] = why /\ pc[w] = "idle"
    BY ZenonT(120) DEF get_backend_connection, FunTypes, Idle
  <1>2. PlaceInv(w)'
    BY <1>1, ZenonT(120) DEF PlaceInv, Getting
  <1>3. QueueInv(w)'
    BY <1>1, ZenonT(120) DEF QueueInv
  <1>4. QED
    BY <1>2, <1>3, ZenonT(120)

(* The session of an idle worker changes the status of its endpoint. *)
LEMMA StatusPlaces ==
    ASSUME FunTypes, NEW w \in Workers, PlaceInv(w), QueueInv(w), Idle(w),
           NEW e \in Endpoints, home[e] = w, connstatus[e] # "WAITING_FOR_CONN",
           NEW st \in {"NO_CONN", "IDLE_POOLED", "CONNECTED"}, StatusGets(e, st),
           UNCHANGED <<worker, waiting>>
    PROVE  PlaceInv(w)' /\ QueueInv(w)'
  <1>1. pc'[w] = "idle" /\ caller'[w] = caller[w] /\ ep' = ep /\ waiting' = waiting /\ pc[w] = "idle"
    BY ZenonT(120) DEF Idle, worker
  <1>2. /\ \A f \in Endpoints : f # e => connstatus'[f] = connstatus[f]
        /\ connstatus'[e] = st
    BY ZenonT(120) DEF StatusGets, FunTypes
  <1>3. PlaceInv(w)'
    BY <1>1, <1>2, ZenonT(120) DEF PlaceInv, Getting
  <1>4. \A i \in DOMAIN waiting[w] : waiting[w][i] \in Endpoints
    <2>1. waiting[w] \in Seq(Endpoints)
      BY ZenonT(120) DEF FunTypes
    <2>2. QED
      BY <2>1, ElementIs, ZenonT(120)
  <1>5. QueueInv(w)'
    BY <1>1, <1>2, <1>4, QueueStatus, ZenonT(120)
  <1>6. QED
    BY <1>3, <1>5, ZenonT(120)

(* An endpoint that waits is closed and erased from the queue. *)
LEMMA RemovePlaces ==
    ASSUME FunTypes, FunTypes', NEW w \in Workers, PlaceInv(w), QueueInv(w), Idle(w),
           NEW i \in DOMAIN waiting[w], Without(waiting'[w], waiting[w], i),
           StatusGets(waiting[w][i], "NO_CONN"), UNCHANGED worker
    PROVE  PlaceInv(w)' /\ QueueInv(w)'
  <1> DEFINE e == waiting[w][i]
  <1>1. pc'[w] = "idle" /\ caller'[w] = "connect" /\ pc[w] = "idle"
    BY ZenonT(120) DEF Idle, worker, PlaceInv
  <1>2. waiting[w] \in Seq(Endpoints) /\ waiting'[w] \in Seq(Endpoints) /\ e \in Endpoints
    BY SMTT(120) DEF FunTypes
  <1>3. /\ \A f \in Endpoints : f # e => connstatus'[f] = connstatus[f]
        /\ connstatus'[e] = "NO_CONN"
    BY <1>2, ZenonT(120) DEF StatusGets, FunTypes
  <1>4. PlaceInv(w)'
    BY <1>1, <1>3, ZenonT(120) DEF PlaceInv, Getting
  <1>5. \A k, l \in DOMAIN waiting[w] : waiting[w][k] = waiting[w][l] => k = l
    BY ZenonT(120) DEF QueueInv
  <1>6. /\ \A k \in DOMAIN waiting'[w] : \E j \in DOMAIN waiting[w] :
              j # i /\ waiting'[w][k] = waiting[w][j] /\ (k < i => j = k)
        /\ \A j \in DOMAIN waiting[w] : j # i => \E k \in DOMAIN waiting'[w] : waiting'[w][k] = waiting[w][j]
        /\ \A k, l \in DOMAIN waiting'[w] : waiting'[w][k] = waiting'[w][l] => k = l
    <2>1. /\ \A k \in DOMAIN waiting'[w] : \E j \in DOMAIN waiting[w] :
                j # i /\ waiting'[w][k] = waiting[w][j] /\ (k < i => j = k)
          /\ \A j \in DOMAIN waiting[w] : j # i => \E k \in DOMAIN waiting'[w] : waiting'[w][k] = waiting[w][j]
          /\ (\A k, l \in DOMAIN waiting[w] : waiting[w][k] = waiting[w][l] => k = l) =>
                \A k, l \in DOMAIN waiting'[w] : waiting'[w][k] = waiting'[w][l] => k = l
      BY <1>2, WithoutElement, ZenonT(120)
    <2>2. QED
      BY <1>5, <2>1, ZenonT(120)
  <1>7. ASSUME NEW k \in DOMAIN waiting'[w]
        PROVE  home[waiting'[w][k]] = w /\ connstatus'[waiting'[w][k]] = "WAITING_FOR_CONN"
    <2>1. PICK j \in DOMAIN waiting[w] : j # i /\ waiting'[w][k] = waiting[w][j]
      BY <1>6, ZenonT(120)
    <2>2. /\ home[waiting[w][j]] = w /\ connstatus[waiting[w][j]] = "WAITING_FOR_CONN"
          /\ waiting[w][j] # e /\ waiting[w][j] \in Endpoints
      <3>1. waiting[w][j] \in Endpoints
        BY <1>2, ElementIs, ZenonT(120)
      <3>2. waiting[w][j] # e
        BY <1>5, <2>1, ZenonT(120)
      <3>3. QED
        BY <1>1, <3>1, <3>2, QueueWaits, ZenonT(120)
    <2>3. QED
      BY <1>3, <2>1, <2>2, ZenonT(120)
  <1>8. ASSUME NEW f \in Endpoints, home[f] = w, connstatus'[f] = "WAITING_FOR_CONN"
        PROVE  \E k \in DOMAIN waiting'[w] : waiting'[w][k] = f
    <2>1. f # e /\ connstatus[f] = "WAITING_FOR_CONN"
      BY <1>3, <1>8, ZenonT(120)
    <2>2. PICK j \in DOMAIN waiting[w] : waiting[w][j] = f
      BY <1>8, <2>1, ZenonT(120) DEF QueueInv
    <2>3. QED
      BY <1>6, <2>1, <2>2, ZenonT(120)
  <1>9. QueueInv(w)'
    BY <1>6, <1>7, <1>8, ZenonT(120) DEF QueueInv
  <1>10. QED
    BY <1>4, <1>9, ZenonT(120)

-----------------------------------------------------------------------------
(* Pools and wakeups. *)

(* The pool holds nothing that it did not hold before. *)
PoolPart(w) ==
    /\ Len(pool'[w]) <= Len(pool[w])
    /\ \A k \in DOMAIN pool'[w] : \E j \in DOMAIN pool[w] : pool'[w][k] = pool[w][j]

PoolKinds(w) == \A i \in DOMAIN pool[w] : \E e \in Endpoints : home[e] = w /\ pool[w][i] = kind[e]

LEMMA PoolPartKeeps ==
    ASSUME FunTypes, FunTypes', NEW w \in Workers, WakeInv(w), PoolInv(w), PoolPart(w), kind' = kind
    PROVE  PoolKinds(w)' /\ PoolInv(w)' /\ (pool'[w] # <<>> => pool[w] # <<>>)
  <1>1. pool[w] \in Seq(Kinds) /\ pool'[w] \in Seq(Kinds)
    BY ZenonT(120) DEF FunTypes
  <1>2. PoolKinds(w)'
    <2>1. SUFFICES ASSUME NEW k \in DOMAIN pool'[w]
                   PROVE  \E e \in Endpoints : home[e] = w /\ pool'[w][k] = kind[e]
      BY ZenonT(120) DEF PoolKinds
    <2>2. PICK j \in DOMAIN pool[w] : pool'[w][k] = pool[w][j]
      BY ZenonT(120) DEF PoolPart
    <2>3. QED
      BY <2>2, ZenonT(120) DEF WakeInv
  <1>3. PoolInv(w)'
    BY <1>1, SizesAssumption, SMTT(120) DEF PoolInv, PoolPart
  <1>4. ASSUME pool[w] = <<>> PROVE pool'[w] = <<>>
    BY <1>1, <1>4, SMTT(120) DEF PoolPart
  <1>5. QED
    BY <1>2, <1>3, <1>4, ZenonT(120)

LEMMA PoolSame ==
    ASSUME FunTypes, NEW w \in Workers, pool'[w] = pool[w]
    PROVE  PoolPart(w)
  BY SMTT(120) DEF FunTypes, PoolPart

LEMMA PoolShrinks ==
    ASSUME FunTypes, NEW w \in Workers, NEW i \in DOMAIN pool[w],
           pool' = [pool EXCEPT ![w] = WithoutPlace(@, i)]
    PROVE  PoolPart(w)
  <1>1. pool[w] \in Seq(Kinds) /\ Len(pool[w]) \in Nat
    BY SMTT(120) DEF FunTypes
  <1>2. /\ Len(pool'[w]) = Len(pool[w]) - 1
        /\ \A k \in DOMAIN pool'[w] : \E j \in DOMAIN pool[w] : pool'[w][k] = pool[w][j]
    BY PoolWithout, ZenonT(120)
  <1>3. Len(pool'[w]) <= Len(pool[w])
    BY <1>1, <1>2, SMTT(120)
  <1>4. QED
    BY <1>2, <1>3, ZenonT(120) DEF PoolPart

(* A check that has looked at the pool without finding a connection leaves *)
(* none that the sessions of the worker could use.                         *)
LEMMA AfterLookWake ==
    ASSUME FunTypes, NEW w \in Workers, PlaceInv(w), WakeInv(w), PoolInv(w),
           pc[w] \in Getting \ {"pool"}, pc'[w] = "idle", pool'[w] = pool[w], kind' = kind
    PROVE  WakeInv(w)' /\ PoolInv(w)'
  <1>1. ep[w] \in Endpoints /\ home[ep[w]] = w
    BY ZenonT(120) DEF PlaceInv, Getting
  <1>2. ASSUME SameKind(w), pool[w] # <<>> PROVE FALSE
    <2>1. pool[w] \in Seq(Kinds)
      BY ZenonT(120) DEF FunTypes
    <2>2. 1 \in DOMAIN pool[w]
      BY <1>2, <2>1, TailIs, ZenonT(120)
    <2>3. PICK e \in Endpoints : home[e] = w /\ pool[w][1] = kind[e]
      BY <2>2, ZenonT(120) DEF WakeInv
    <2>4. kind[e] = kind[ep[w]]
      BY <1>1, <1>2, <2>3, ZenonT(120) DEF SameKind
    <2>5. 1 \in Reusable(w, ep[w])
      BY <2>2, <2>3, <2>4, ZenonT(120) DEF Reusable
    <2>6. QED
      BY <2>5, ZenonT(120) DEF WakeInv
  <1>3. SameKind(w)' = SameKind(w)
    BY ZenonT(120) DEF SameKind
  <1>4. QED
    BY <1>2, <1>3, ZenonT(120) DEF WakeInv, PoolInv, Getting

LEMMA EraseFirstWake ==
    ASSUME FunTypes, FunTypes', NEW w \in Workers, WakeInv(w), PoolInv(w), PoolPart(w), kind' = kind,
           NEW flag, EraseFirst(w, flag)
    PROVE  WakeInv(w)' /\ PoolInv(w)'
  <1>1. PoolKinds(w)' /\ PoolInv(w)'
    BY PoolPartKeeps, ZenonT(120)
  <1>2. \/ pc'[w] = "idle" /\ waiting'[w] = <<>>
        \/ pc'[w] = "pool" /\ caller'[w] = "continue"
    <2>1. CASE Tail(waiting[w]) = <<>>
      <3>1. waiting'[w] = Tail(waiting[w])
        BY SMTT(120) DEF EraseFirst, FunTypes
      <3>2. pc'[w] = "idle"
        <4>1. Return(w)
          BY <2>1, ZenonT(120) DEF EraseFirst, ActivationEnds
        <4>2. pc' = [pc EXCEPT ![w] = "idle"] /\ w \in DOMAIN pc
          BY <4>1, ZenonT(120) DEF Return, FunTypes
        <4>3. QED
          BY <4>2, ZenonT(120)
      <3>3. QED
        BY <2>1, <3>1, <3>2, ZenonT(120)
    <2>2. CASE Tail(waiting[w]) # <<>>
      BY <2>2, SMTT(120) DEF EraseFirst, get_backend_connection, FunTypes
    <2>3. QED
      BY <2>1, <2>2, ZenonT(120)
  <1>3. QED
    BY <1>1, <1>2, ZenonT(120) DEF WakeInv, PoolKinds, Getting

LEMMA ReturnWake ==
    ASSUME FunTypes, FunTypes', NEW w \in Workers, WakeInv(w), PoolInv(w), PoolPart(w), kind' = kind,
           caller[w] # "continue", pc'[w] \in {"idle", "pool"},
           waiting'[w] # <<>> => waiting[w] # <<>>, scheduled'[w] = scheduled[w]
    PROVE  WakeInv(w)' /\ PoolInv(w)'
  <1>1. PoolKinds(w)' /\ PoolInv(w)' /\ (pool'[w] # <<>> => pool[w] # <<>>)
    BY PoolPartKeeps, ZenonT(120)
  <1>2. SameKind(w)' = SameKind(w)
    BY ZenonT(120) DEF SameKind
  <1>3. QED
    BY <1>1, <1>2, ZenonT(120) DEF WakeInv, PoolKinds, Getting

LEMMA NotifyWake ==
    ASSUME FunTypes, NEW w \in Workers, PoolKinds(w)', waiting' = waiting,
           notify_connection_available(w), pc'[w] \in {"idle", "pool"}
    PROVE  WakeInv(w)'
  <1>1. waiting[w] # <<>> => scheduled'[w]
    BY ZenonT(120) DEF notify_connection_available, FunTypes
  <1>2. QED
    BY <1>1, ZenonT(120) DEF WakeInv, PoolKinds, Getting

-----------------------------------------------------------------------------
(* What the caller does keeps the invariant of the worker. *)
LEMMA ConnectedKeeps ==
    ASSUME FunTypes, FunTypes', NEW w \in Workers, WorkerInv(w), pc[w] \in Getting,
           PoolPart(w), kind' = kind, Connected(w)
    PROVE  WorkerInv(w)'
  <1>1. PlaceInv(w) /\ QueueInv(w) /\ WakeInv(w) /\ PoolInv(w) /\ pc[w] # "idle"
    BY ZenonT(120) DEF WorkerInv, Getting
  <1>2. StatusGets(ep[w], "CONNECTED")
    BY ZenonT(120) DEF Connected, StatusGets
  <1>3. CASE caller[w] = "continue"
    <2>1. EraseFirst(w, scheduled[w])
      BY <1>3, ZenonT(120) DEF Connected
    <2>2. PlaceInv(w)' /\ QueueInv(w)'
      BY <1>1, <1>2, <1>3, <2>1, EraseFirstPlaces, ZenonT(120)
    <2>3. WakeInv(w)' /\ PoolInv(w)'
      BY <1>1, <2>1, EraseFirstWake, ZenonT(120)
    <2>4. QED
      BY <2>2, <2>3, ZenonT(120) DEF WorkerInv
  <1>4. CASE caller[w] # "continue"
    <2>1. Return(w) /\ waiting' = waiting /\ scheduled' = scheduled
      BY <1>4, ZenonT(120) DEF Connected, queues
    <2>2. PlaceInv(w)' /\ QueueInv(w)'
      BY <1>1, <1>2, <1>4, <2>1, ReturnPlaces, ZenonT(120)
    <2>3. pc'[w] = "idle"
      BY <2>1, ZenonT(120) DEF Return, FunTypes
    <2>4. WakeInv(w)' /\ PoolInv(w)'
      BY <1>1, <1>4, <2>1, <2>3, ReturnWake, ZenonT(120)
    <2>5. QED
      BY <2>2, <2>4, ZenonT(120) DEF WorkerInv
  <1>5. QED
    BY <1>3, <1>4, ZenonT(120)

LEMMA WriteFailsKeeps ==
    ASSUME FunTypes, FunTypes', NEW w \in Workers, WorkerInv(w), pc[w] \in Getting,
           PoolPart(w), kind' = kind, WriteFails(w)
    PROVE  WorkerInv(w)'
  <1>1. PlaceInv(w)' /\ QueueInv(w)'
    BY WriteFailsPlaces, ZenonT(120) DEF WorkerInv
  <1>2. PoolKinds(w)' /\ PoolInv(w)'
    BY PoolPartKeeps, ZenonT(120) DEF WorkerInv
  <1>3. pc'[w] = "failed" /\ caller'[w] = "continue"
    BY ZenonT(120) DEF WriteFails, GoTo, FunTypes
  <1>4. WakeInv(w)'
    BY <1>2, <1>3, ZenonT(120) DEF WakeInv, PoolKinds, Getting
  <1>5. QED
    BY <1>1, <1>2, <1>4, ZenonT(120) DEF WorkerInv

LEMMA LimitReachedKeeps ==
    ASSUME FunTypes, FunTypes', NEW w \in Workers, WorkerInv(w), pc[w] \in Getting \ {"pool"},
           pool' = pool, kind' = kind, LimitReached(w)
    PROVE  WorkerInv(w)'
  <1>1. PlaceInv(w) /\ QueueInv(w) /\ WakeInv(w) /\ PoolInv(w) /\ pc[w] # "idle"
    BY ZenonT(120) DEF WorkerInv, Getting
  <1>2. Return(w)
    BY ZenonT(120) DEF LimitReached, ActivationEnds
  <1>3. WakeInv(w)' /\ PoolInv(w)'
    <2>1. pc'[w] = "idle"
      BY <1>2, ZenonT(120) DEF Return, FunTypes
    <2>2. QED
      BY <1>1, <2>1, AfterLookWake, ZenonT(120)
  <1>4. CASE caller[w] # "continue" /\ ep[w] \in Sharing
    <2>1. /\ StatusGets(ep[w], "WAITING_FOR_CONN")
          /\ waiting' = [waiting EXCEPT ![w] = Append(@, ep[w])]
      BY <1>4, ZenonT(120) DEF LimitReached, StatusGets
    <2>2. QED
      BY <1>1, <1>2, <1>3, <1>4, <2>1, WaitPlaces, ZenonT(120) DEF WorkerInv
  <1>5. CASE caller[w] # "continue" /\ ep[w] \notin Sharing
    <2>1. StatusGets(ep[w], "NO_CONN") /\ waiting' = waiting
      BY <1>5, ZenonT(120) DEF LimitReached, StatusGets, Closed
    <2>2. PlaceInv(w)' /\ QueueInv(w)'
      BY <1>1, <1>2, <1>5, <2>1, ReturnPlaces, ZenonT(120)
    <2>3. QED
      BY <1>3, <2>2, ZenonT(120) DEF WorkerInv
  <1>6. CASE caller[w] = "continue"
    <2>1. waiting' = waiting /\ connstatus' = connstatus
      BY <1>6, ZenonT(120) DEF LimitReached, endpoint
    <2>2. QED
      BY <1>1, <1>2, <1>3, <2>1, StillWaitingPlaces, ZenonT(120) DEF WorkerInv
  <1>7. QED
    BY <1>4, <1>5, <1>6, ZenonT(120)

LEMMA ConnectionFailsKeeps ==
    ASSUME FunTypes, FunTypes', NEW w \in Workers, WorkerInv(w), pc[w] \in Getting,
           pool' = pool, kind' = kind, ConnectionFails(w)
    PROVE  WorkerInv(w)'
  <1>1. /\ PlaceInv(w) /\ QueueInv(w) /\ WakeInv(w) /\ PoolInv(w) /\ pc[w] # "idle"
        /\ PoolPart(w)
    BY PoolSame, ZenonT(120) DEF WorkerInv, Getting
  <1>2. StatusGets(ep[w], "NO_CONN")
    BY ZenonT(120) DEF ConnectionFails, StatusGets, Closed
  <1>3. CASE caller[w] = "continue"
    <2>1. EraseFirst(w, scheduled[w])
      BY <1>3, ZenonT(120) DEF ConnectionFails
    <2>2. PlaceInv(w)' /\ QueueInv(w)'
      BY <1>1, <1>2, <1>3, <2>1, EraseFirstPlaces, ZenonT(120)
    <2>3. WakeInv(w)' /\ PoolInv(w)'
      BY <1>1, <2>1, EraseFirstWake, ZenonT(120)
    <2>4. QED
      BY <2>2, <2>3, ZenonT(120) DEF WorkerInv
  <1>4. CASE caller[w] # "continue"
    <2>1. Return(w) /\ waiting' = waiting /\ scheduled' = scheduled
      BY <1>4, ZenonT(120) DEF ConnectionFails
    <2>2. PlaceInv(w)' /\ QueueInv(w)'
      BY <1>1, <1>2, <1>4, <2>1, ReturnPlaces, ZenonT(120)
    <2>3. pc'[w] = "idle"
      BY <2>1, ZenonT(120) DEF Return, FunTypes
    <2>4. WakeInv(w)' /\ PoolInv(w)'
      BY <1>1, <1>4, <2>1, <2>3, ReturnWake, ZenonT(120)
    <2>5. QED
      BY <2>2, <2>4, ZenonT(120) DEF WorkerInv
  <1>5. QED
    BY <1>3, <1>4, ZenonT(120)

(* A worker that gets a connection keeps its own invariant. *)
LEMMA GetConnectionKeeps ==
    ASSUME FunTypes, FunTypes', NEW w \in Workers, WorkerInv(w), GetConnection(w)
    PROVE  WorkerInv(w)'
  <1>1. PlaceInv(w) /\ QueueInv(w) /\ WakeInv(w) /\ PoolInv(w)
    BY ZenonT(120) DEF WorkerInv
  <1>2. kind' = kind
    BY ZenonT(120) DEF GetConnection, Reuse, ReuseFails, ReadConns, PreCheck, add_conn_intent, Recheck, Create,
           CreateFails, remove_conn_intent, handle_failed_continue, session
  <1>3. CASE Reuse(w)
    <2>1. PICK i \in DOMAIN pool[w] : pool' = [pool EXCEPT ![w] = WithoutPlace(@, i)]
      BY <1>3, ZenonT(120) DEF Reuse, Reusable
    <2>2. PoolPart(w)
      BY <2>1, PoolShrinks, ZenonT(120)
    <2>3. pc[w] \in Getting /\ (Connected(w) \/ WriteFails(w))
      BY <1>3, ZenonT(120) DEF Reuse, Getting
    <2>4. QED
      BY <1>2, <2>2, <2>3, ConnectedKeeps, WriteFailsKeeps, ZenonT(120)
  <1>4. CASE ReuseFails(w)
    <2>1. PICK i \in DOMAIN pool[w] : pool' = [pool EXCEPT ![w] = WithoutPlace(@, i)]
      BY <1>4, ZenonT(120) DEF ReuseFails, Reusable
    <2>2. PoolPart(w)
      BY <2>1, PoolShrinks, ZenonT(120)
    <2>3. /\ pc[w] = "pool" /\ UNCHANGED <<pc, ep, caller, waiting, connstatus>>
          /\ notify_connection_available(w)
      BY <1>4, ZenonT(120) DEF ReuseFails, worker, endpoint
    <2>4. PoolKinds(w)' /\ PoolInv(w)'
      BY <1>1, <1>2, <2>2, PoolPartKeeps, ZenonT(120)
    <2>5. WakeInv(w)'
      BY <2>3, <2>4, NotifyWake, ZenonT(120)
    <2>6. PlaceInv(w)' /\ QueueInv(w)'
      BY <1>1, <2>3, MovePlaces, ZenonT(120) DEF Getting
    <2>7. QED
      BY <2>4, <2>5, <2>6, ZenonT(120) DEF WorkerInv
  <1>5. ASSUME pc[w] \in Getting, pc'[w] \in Getting \ {"pool"},
               pc[w] # "pool" \/ Reusable(w, ep[w]) = {},
               UNCHANGED <<ep, caller, pool, waiting, scheduled, connstatus>>
        PROVE  WorkerInv(w)'
    <2>1. PlaceInv(w)' /\ QueueInv(w)'
      BY <1>1, <1>5, MovePlaces, ZenonT(120)
    <2>2. Reusable(w, ep[w]) = {}
      BY <1>1, <1>5, ZenonT(120) DEF WakeInv
    <2>3. WakeInv(w)' /\ PoolInv(w)'
      BY <1>1, <1>2, <1>5, <2>2, ZenonT(120) DEF WakeInv, PoolInv, SameKind, Reusable
    <2>4. QED
      BY <2>1, <2>3, ZenonT(120) DEF WorkerInv
  <1>6. CASE ReadConns(w)
    <2>1. pc[w] \in Getting /\ pc'[w] \in Getting \ {"pool"}
      BY <1>6, ZenonT(120) DEF ReadConns, GoTo, Getting, FunTypes
    <2>2. Reusable(w, ep[w]) = {} /\ UNCHANGED <<ep, caller, pool, waiting, scheduled, connstatus>>
      BY <1>6, ZenonT(120) DEF ReadConns, GoTo, queues, endpoint
    <2>3. QED
      BY <1>5, <2>1, <2>2, ZenonT(120)
  <1>7. CASE PreCheck(w)
    <2>1. pc[w] \in Getting \ {"pool"} /\ pool' = pool
      BY <1>7, ZenonT(120) DEF PreCheck, Getting
    <2>2. CASE LimitReached(w)
      BY <1>2, <2>1, <2>2, LimitReachedKeeps, ZenonT(120)
    <2>3. CASE ~(value[w] + n_conn_intents >= max_routing_connections)
      <3>1. pc'[w] \in Getting \ {"pool"}
        BY <1>7, <2>3, ZenonT(120) DEF PreCheck, GoTo, Getting, FunTypes
      <3>2. UNCHANGED <<ep, caller, waiting, scheduled, connstatus>>
        BY <1>7, <2>3, ZenonT(120) DEF PreCheck, GoTo, queues, endpoint
      <3>3. QED
        BY <1>5, <2>1, <3>1, <3>2, ZenonT(120)
    <2>4. QED
      BY <1>7, <2>2, <2>3, ZenonT(120) DEF PreCheck
  <1>8. CASE add_conn_intent(w) \/ Recheck(w) \/ Create(w) \/ CreateFails(w)
    <2>1. pc[w] \in Getting \ {"pool"} /\ pc'[w] \in Getting \ {"pool"}
      BY <1>8, ZenonT(120) DEF add_conn_intent, Recheck, Create, CreateFails, GoTo, Getting, FunTypes
    <2>2. UNCHANGED <<ep, caller, pool, waiting, scheduled, connstatus>>
      BY <1>8, ZenonT(120) DEF add_conn_intent, Recheck, Create, CreateFails, GoTo, queues, endpoint
    <2>3. QED
      BY <1>5, <2>1, <2>2, ZenonT(120)
  <1>9. CASE remove_conn_intent(w)
    <2>1. pc[w] \in Getting \ {"pool"} /\ pool' = pool /\ PoolPart(w)
      BY <1>9, PoolSame, ZenonT(120) DEF remove_conn_intent, Getting
    <2>2. Connected(w) \/ WriteFails(w) \/ LimitReached(w) \/ ConnectionFails(w)
      BY <1>9, ZenonT(120) DEF remove_conn_intent
    <2>3. QED
      BY <1>2, <2>1, <2>2, ConnectedKeeps, WriteFailsKeeps, LimitReachedKeeps, ConnectionFailsKeeps, ZenonT(120)
  <1>10. CASE handle_failed_continue(w)
    <2>1. /\ StatusGets(ep[w], "NO_CONN") /\ EraseFirst(w, TRUE) /\ pool' = pool
          /\ pc[w] = "failed"
      BY <1>10, ZenonT(120) DEF handle_failed_continue, Closed, StatusGets
    <2>2. PoolPart(w) /\ caller[w] = "continue"
      BY <1>1, <2>1, PoolSame, ZenonT(120) DEF PlaceInv
    <2>3. PlaceInv(w)' /\ QueueInv(w)'
      BY <1>1, <2>1, <2>2, EraseFirstPlaces, ZenonT(120)
    <2>4. WakeInv(w)' /\ PoolInv(w)'
      BY <1>1, <1>2, <2>1, <2>2, EraseFirstWake, ZenonT(120)
    <2>5. QED
      BY <2>3, <2>4, ZenonT(120) DEF WorkerInv
  <1>11. QED
    BY <1>3, <1>4, <1>6, <1>7, <1>8, <1>9, <1>10, ZenonT(120) DEF GetConnection

(* So does the worker of a session with an event. *)
LEMMA PoolAppend ==
    ASSUME NEW w \in Workers, NEW x \in Kinds, pool[w] \in Seq(Kinds), pool'[w] = Append(pool[w], x)
    PROVE  /\ Len(pool'[w]) = Len(pool[w]) + 1 /\ DOMAIN pool'[w] = 1..Len(pool[w]) + 1
           /\ DOMAIN pool[w] = 1..Len(pool[w]) /\ Len(pool[w]) \in Nat
           /\ \A i \in 1..Len(pool[w]) : pool'[w][i] = pool[w][i]
           /\ pool'[w][Len(pool[w]) + 1] = x
  BY AppendIs, SMTT(120)

LEMMA SessionKeeps ==
    ASSUME FunTypes, FunTypes', NEW e \in Endpoints, WorkerInv(home[e]), SessionEvent(e)
    PROVE  WorkerInv(home[e])'
  <1> DEFINE w == home[e]
  <1>1. w \in Workers /\ PlaceInv(w) /\ QueueInv(w) /\ WakeInv(w) /\ PoolInv(w)
    BY SetsAssumption, ZenonT(120) DEF WorkerInv
  <1>2. kind' = kind /\ Idle(w) /\ pc[w] = "idle" /\ caller[w] = "connect"
    BY <1>1, ZenonT(120) DEF SessionEvent, Open, routeQuery, ConnectionReady, clientReply, try_to_pool,
                            NothingToPool, Close, session, Idle, PlaceInv
  <1>3. waiting[w] \in Seq(Endpoints)
    BY <1>1, ZenonT(120) DEF FunTypes
  <1>4. CASE UNCHANGED <<worker, pool, waiting, scheduled, connstatus>>
    <2>1. SameWorker(w)
      BY <1>4, ZenonT(120) DEF SameWorker, worker
    <2>2. QED
      BY <1>1, <1>2, <1>3, <1>4, <2>1, OtherWorkers, ZenonT(120)
  <1>5. ASSUME NEW why \in {"connect", "route"}, get_backend_connection(w, e, why),
               connstatus[e] = CallerStatus(why), UNCHANGED <<connstatus, waiting, pool, scheduled>>
        PROVE  WorkerInv(w)'
    <2>1. PlaceInv(w)' /\ QueueInv(w)'
      BY <1>1, <1>2, <1>5, StartPlaces, ZenonT(120)
    <2>2. pc'[w] = "pool" /\ caller'[w] = why /\ PoolPart(w)
      BY <1>1, <1>5, PoolSame, ZenonT(120) DEF get_backend_connection, FunTypes
    <2>3. WakeInv(w)' /\ PoolInv(w)'
      BY <1>1, <1>2, <1>5, <2>2, ReturnWake, ZenonT(120)
    <2>4. QED
      BY <2>1, <2>3, ZenonT(120) DEF WorkerInv
  <1>6. ASSUME PoolKinds(w)', PoolInv(w)', connstatus[e] # "WAITING_FOR_CONN",
               NEW st \in {"NO_CONN", "IDLE_POOLED"}, StatusGets(e, st),
               UNCHANGED <<worker, waiting>>, notify_connection_available(w)
        PROVE  WorkerInv(w)'
    <2>1. PlaceInv(w)' /\ QueueInv(w)'
      BY <1>1, <1>2, <1>6, StatusPlaces, ZenonT(120)
    <2>2. pc'[w] = "idle"
      BY <1>2, <1>6, ZenonT(120) DEF worker
    <2>3. WakeInv(w)'
      BY <1>1, <1>6, <2>2, NotifyWake, ZenonT(120)
    <2>4. QED
      BY <1>6, <2>1, <2>3, ZenonT(120) DEF WorkerInv
  <1>7. ASSUME has_space(w), pool' = [pool EXCEPT ![w] = Append(@, kind[e])]
        PROVE  PoolKinds(w)' /\ PoolInv(w)'
    <2>1. pool[w] \in Seq(Kinds) /\ kind[e] \in Kinds
      <3>1. pool[w] \in Seq(Kinds)
        BY <1>1, ZenonT(120) DEF FunTypes
      <3>2. QED
        BY <3>1, KindOf, ZenonT(120)
    <2>2. pool'[w] = Append(pool[w], kind[e])
      BY <1>1, <1>7, ZenonT(120) DEF FunTypes
    <2>3. /\ Len(pool'[w]) = Len(pool[w]) + 1 /\ DOMAIN pool'[w] = 1..Len(pool[w]) + 1
          /\ DOMAIN pool[w] = 1..Len(pool[w]) /\ Len(pool[w]) \in Nat
          /\ \A i \in 1..Len(pool[w]) : pool'[w][i] = pool[w][i]
          /\ pool'[w][Len(pool[w]) + 1] = kind[e]
      BY <1>1, <2>1, <2>2, PoolAppend, ZenonT(120)
    <2>4. ASSUME NEW i \in DOMAIN pool'[w] PROVE \E f \in Endpoints : home[f] = w /\ pool'[w][i] = kind[f]
      <3>1. i \in DOMAIN pool[w] \/ i = Len(pool[w]) + 1
        <4>1. /\ i \in 1..Len(pool[w]) + 1 /\ Len(pool[w]) \in Nat
              /\ DOMAIN pool[w] = 1..Len(pool[w])
          BY <2>3, ZenonT(120)
        <4>2. QED
          BY <4>1, SMTT(120)
      <3>2. CASE i \in DOMAIN pool[w]
        <4>1. pool'[w][i] = pool[w][i]
          BY <2>3, <3>2, ZenonT(120)
        <4>2. QED
          BY <1>1, <3>2, <4>1, ZenonT(120) DEF WakeInv
      <3>3. CASE i = Len(pool[w]) + 1
        BY <2>3, <3>3, ZenonT(120)
      <3>4. QED
        BY <3>1, <3>2, <3>3, ZenonT(120)
    <2>5. PoolKinds(w)'
      BY <1>2, <2>4, ZenonT(120) DEF PoolKinds
    <2>6. PoolInv(w)'
      <3>1. Len(pool[w]) < capacity
        BY <1>7, ZenonT(120) DEF has_space
      <3>2. Len(pool'[w]) <= capacity
        BY <2>3, <3>1, SizesAssumption, SMTT(120)
      <3>3. QED
        BY <3>2, ZenonT(120) DEF PoolInv
    <2>7. QED
      BY <2>5, <2>6, ZenonT(120)
  <1>8. CASE Open(e)
    <2>1. /\ get_backend_connection(w, e, "connect") /\ connstatus[e] = CallerStatus("connect")
          /\ UNCHANGED <<connstatus, waiting, pool, scheduled>>
      BY <1>8, ZenonT(120) DEF Open, CallerStatus, queues
    <2>2. QED
      BY <1>5, <2>1, ZenonT(120)
  <1>9. CASE routeQuery(e)
    <2>1. UNCHANGED <<connstatus, waiting, pool, scheduled>>
      BY <1>9, ZenonT(120) DEF routeQuery, queues
    <2>2. CASE RoutePooled(e)
      <3>1. get_backend_connection(w, e, "route") /\ connstatus[e] = CallerStatus("route")
        BY <2>2, ZenonT(120) DEF RoutePooled, CallerStatus
      <3>2. QED
        BY <1>5, <2>1, <3>1, ZenonT(120)
    <2>3. CASE RouteConnected(e) \/ RouteWaiting(e)
      BY <1>4, <2>1, <2>3, ZenonT(120) DEF RouteConnected, RouteWaiting
    <2>4. QED
      BY <1>9, <2>2, <2>3, ZenonT(120) DEF routeQuery
  <1>10. CASE ConnectionReady(e) \/ clientReply(e) \/ NothingToPool(e)
    BY <1>4, <1>10, ZenonT(120) DEF ConnectionReady, clientReply, NothingToPool, queues
  <1>11. CASE try_to_pool(e)
    <2>1. /\ has_space(w) /\ pool' = [pool EXCEPT ![w] = Append(@, kind[e])]
          /\ connstatus[e] = "CONNECTED" /\ StatusGets(e, "IDLE_POOLED")
          /\ notify_connection_available(w) /\ UNCHANGED <<worker, waiting>>
      BY <1>11, ZenonT(120) DEF try_to_pool, StatusGets
    <2>2. QED
      BY <1>6, <1>7, <2>1, ZenonT(120)
  <1>12. CASE Close(e)
    <2>1. StatusGets(e, "NO_CONN") /\ UNCHANGED worker
      BY <1>12, ZenonT(120) DEF Close, Closed, StatusGets
    <2>2. CASE \E quit \in BOOLEAN : CloseConnected(e, quit)
      <3>1. /\ connstatus[e] = "CONNECTED" /\ notify_connection_available(w) /\ UNCHANGED waiting
            /\ \/ has_space(w) /\ pool' = [pool EXCEPT ![w] = Append(@, kind[e])]
               \/ pool' = pool
        BY <2>2, ZenonT(120) DEF CloseConnected
      <3>2. PoolKinds(w)' /\ PoolInv(w)'
        <4>1. CASE has_space(w) /\ pool' = [pool EXCEPT ![w] = Append(@, kind[e])]
          BY <1>7, <4>1, ZenonT(120)
        <4>2. CASE pool' = pool
          BY <1>1, <1>2, <4>2, PoolSame, PoolPartKeeps, ZenonT(120)
        <4>3. QED
          BY <3>1, <4>1, <4>2, ZenonT(120)
      <3>3. QED
        BY <1>6, <2>1, <3>1, <3>2, ZenonT(120)
    <2>3. CASE CloseWaiting(e)
      <3>1. PICK i \in DOMAIN waiting[w] :
                waiting[w][i] = e /\ waiting' = [waiting EXCEPT ![w] = WithoutPlace(@, i)]
        BY <2>3, ZenonT(120) DEF CloseWaiting
      <3>2. UNCHANGED <<pool, scheduled>>
        BY <2>3, ZenonT(120) DEF CloseWaiting
      <3>3. waiting'[w] = WithoutPlace(waiting[w], i)
        BY <1>1, <3>1, ZenonT(120) DEF FunTypes
      <3>4. Without(waiting'[w], waiting[w], i)
        BY <1>3, <3>3, WithoutPlaceIs, ZenonT(120) DEF Without
      <3>5. PlaceInv(w)' /\ QueueInv(w)'
        BY <1>1, <1>2, <2>1, <3>1, <3>4, RemovePlaces, ZenonT(120)
      <3>6. waiting[w] # <<>> /\ pc'[w] = "idle" /\ PoolPart(w)
        <4>1. waiting[w] # <<>>
          BY <3>1, SMTT(120)
        <4>2. pc'[w] = "idle"
          BY <1>2, <2>1, ZenonT(120) DEF worker
        <4>3. PoolPart(w)
          BY <1>1, <3>2, PoolSame, ZenonT(120)
        <4>4. QED
          BY <4>1, <4>2, <4>3, ZenonT(120)
      <3>7. WakeInv(w)' /\ PoolInv(w)'
        BY <1>1, <1>2, <3>2, <3>6, ReturnWake, ZenonT(120)
      <3>8. QED
        BY <3>5, <3>7, ZenonT(120) DEF WorkerInv
    <2>4. CASE ClosePooled(e)
      <3>1. connstatus[e] = "IDLE_POOLED" /\ UNCHANGED <<pool, waiting, scheduled>>
        BY <2>4, ZenonT(120) DEF ClosePooled, queues
      <3>2. PlaceInv(w)' /\ QueueInv(w)'
        BY <1>1, <1>2, <2>1, <3>1, StatusPlaces, ZenonT(120)
      <3>3. pc'[w] = "idle" /\ PoolPart(w)
        BY <1>1, <1>2, <2>1, <3>1, PoolSame, ZenonT(120) DEF worker
      <3>4. WakeInv(w)' /\ PoolInv(w)'
        BY <1>1, <1>2, <3>1, <3>3, ReturnWake, ZenonT(120)
      <3>5. QED
        BY <3>2, <3>4, ZenonT(120) DEF WorkerInv
    <2>5. QED
      BY <1>12, <2>2, <2>3, <2>4, ZenonT(120) DEF Close
  <1>13. QED
    BY <1>8, <1>9, <1>10, <1>11, <1>12, ZenonT(120) DEF SessionEvent

(* So does a worker with an event of its own. *)
LEMMA WorkerKeeps ==
    ASSUME FunTypes, FunTypes', NEW w \in Workers, WorkerInv(w), WorkerEvent(w)
    PROVE  WorkerInv(w)'
  <1>1. PlaceInv(w) /\ QueueInv(w) /\ WakeInv(w) /\ PoolInv(w) /\ waiting[w] \in Seq(Endpoints)
    BY ZenonT(120) DEF WorkerInv, FunTypes
  <1>2. kind' = kind
    BY ZenonT(120) DEF WorkerEvent, close_pooled_dcb, Activate, ActivateTimer, PostFails,
                      fail_timed_out_endpoints, session
  <1>3. CASE close_pooled_dcb(w)
    <2>1. PICK i \in DOMAIN pool[w] : pool' = [pool EXCEPT ![w] = WithoutPlace(@, i)]
      BY <1>3, ZenonT(120) DEF close_pooled_dcb
    <2>2. PoolPart(w)
      BY <2>1, PoolShrinks, ZenonT(120)
    <2>3. /\ pc[w] = "idle" /\ UNCHANGED <<pc, ep, caller, waiting, connstatus>>
          /\ notify_connection_available(w)
      BY <1>3, ZenonT(120) DEF close_pooled_dcb, worker, endpoint, Idle
    <2>4. PoolKinds(w)' /\ PoolInv(w)'
      BY <1>1, <1>2, <2>2, PoolPartKeeps, ZenonT(120)
    <2>5. WakeInv(w)'
      BY <2>3, <2>4, NotifyWake, ZenonT(120)
    <2>6. PlaceInv(w)' /\ QueueInv(w)'
      BY <1>1, <2>3, ZenonT(120) DEF PlaceInv, QueueInv
    <2>7. QED
      BY <2>4, <2>5, <2>6, ZenonT(120) DEF WorkerInv
  <1>4. ASSUME Idle(w), NEW b, activate_waiting_endpoints(w, b), UNCHANGED <<connstatus, waiting, pool>>
        PROVE  WorkerInv(w)'
    <2> DEFINE e == Head(waiting[w])
    <2>1. waiting[w] # <<>> /\ get_backend_connection(w, e, "continue")
      BY <1>4, ZenonT(120) DEF activate_waiting_endpoints
    <2>2. e = waiting[w][1] /\ e \in Endpoints /\ 1 \in DOMAIN waiting[w]
      BY <1>1, <2>1, TailIs, ZenonT(120)
    <2>3. home[e] = w /\ connstatus[e] = CallerStatus("continue")
      BY <1>1, <1>4, <2>2, SMTT(120) DEF QueueInv, Idle, CallerStatus
    <2>4. PlaceInv(w)' /\ QueueInv(w)'
      BY <1>1, <1>4, <2>1, <2>2, <2>3, StartPlaces, ZenonT(120)
    <2>5. pc'[w] = "pool" /\ caller'[w] = "continue"
      BY <2>1, ZenonT(120) DEF get_backend_connection, FunTypes
    <2>6. WakeInv(w)' /\ PoolInv(w)'
      BY <1>1, <1>2, <1>4, <2>5, ZenonT(120) DEF WakeInv, PoolInv, Getting
    <2>7. QED
      BY <2>4, <2>6, ZenonT(120) DEF WorkerInv
  <1>5. CASE Activate(w)
    <2>1. Idle(w) /\ UNCHANGED <<connstatus, waiting, pool>>
      BY <1>5, ZenonT(120) DEF Activate, endpoint
    <2>2. CASE activate_waiting_endpoints(w, TRUE)
      BY <1>4, <2>1, <2>2, ZenonT(120)
    <2>3. CASE waiting[w] = <<>> /\ UNCHANGED worker
      <3>1. pc[w] = "idle" /\ UNCHANGED <<pc, ep, caller>>
        BY <2>1, <2>3, ZenonT(120) DEF worker, Idle
      <3>2. PlaceInv(w)' /\ QueueInv(w)'
        BY <1>1, <2>1, <3>1, ZenonT(120) DEF PlaceInv, QueueInv
      <3>3. WakeInv(w)' /\ PoolInv(w)'
        BY <1>1, <1>2, <2>1, <2>3, <3>1, ZenonT(120) DEF WakeInv, PoolInv, Getting
      <3>4. QED
        BY <3>2, <3>3, ZenonT(120) DEF WorkerInv
    <2>4. QED
      BY <1>5, <2>2, <2>3, ZenonT(120) DEF Activate
  <1>6. CASE ActivateTimer(w)
    BY <1>4, <1>6, ZenonT(120) DEF ActivateTimer, endpoint
  <1>7. CASE PostFails(w)
    <2>1. SameWorker(w) /\ connstatus' = connstatus
      BY <1>7, ZenonT(120) DEF PostFails, SameWorker, worker, endpoint
    <2>2. QED
      BY <1>1, <1>2, <2>1, OtherWorkers, ZenonT(120)
  <1>8. CASE fail_timed_out_endpoints(w)
    <2>1. /\ Idle(w) /\ waiting[w] # <<>> /\ StatusGets(Head(waiting[w]), "NO_CONN")
          /\ waiting' = [waiting EXCEPT ![w] = Tail(@)] /\ UNCHANGED <<worker, pool, scheduled>>
      BY <1>8, ZenonT(120) DEF fail_timed_out_endpoints, Closed, StatusGets
    <2>2. /\ Head(waiting[w]) = waiting[w][1] /\ 1 \in DOMAIN waiting[w]
          /\ Len(Tail(waiting[w])) = Len(waiting[w]) - 1
          /\ \A k \in 1..Len(waiting[w]) - 1 : Tail(waiting[w])[k] = waiting[w][k + 1]
      BY <1>1, <2>1, TailIs, ZenonT(120)
    <2>3. Without(waiting'[w], waiting[w], 1)
      <3>1. waiting'[w] = Tail(waiting[w]) /\ Len(waiting[w]) \in Nat
        BY <1>1, <2>1, SMTT(120) DEF FunTypes
      <3>2. QED
        BY <2>2, <3>1, SMTT(120) DEF Without
    <2>4. PlaceInv(w)' /\ QueueInv(w)'
      BY <1>1, <2>1, <2>2, <2>3, RemovePlaces, ZenonT(120)
    <2>5. pc'[w] = "idle" /\ PoolPart(w) /\ caller[w] # "continue"
      BY <1>1, <2>1, PoolSame, ZenonT(120) DEF worker, Idle, PlaceInv
    <2>6. WakeInv(w)' /\ PoolInv(w)'
      BY <1>1, <1>2, <2>1, <2>5, ReturnWake, ZenonT(120)
    <2>7. QED
      BY <2>4, <2>6, ZenonT(120) DEF WorkerInv
  <1>9. QED
    BY <1>3, <1>5, <1>6, <1>7, <1>8, ZenonT(120) DEF WorkerEvent
=============================================================================
