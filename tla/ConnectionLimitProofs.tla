------------------------ MODULE ConnectionLimitProofs ------------------------
(***************************************************************************)
(* The limit on the connections holds for every number of workers and      *)
(* sessions.  A worker compares the limit with a number of intents that    *)
(* may be out of date when it creates its connection.  It is enough that   *)
(* the workers can be put in an order, that in which they announced their  *)
(* intents, such that every one of them has counted those before it.       *)
(***************************************************************************)
EXTENDS ConnectionLimitInvariant, FiniteSetTheorems, TLAPS

Outside == {"idle", "pool", "check", "intent", "failed"}
Inside == {"recheck", "create", "retract"}

(* The types of what the proof is about. *)
CounterTypes ==
    /\ n_current_conns \in Int
    /\ pc \in [Workers -> Outside \union Inside]
    /\ value \in [Workers -> Int]
    /\ result \in [Workers -> {"none", "conn", "limit", "fail"}]

(* The workers between add_conn_intent and remove_conn_intent, and those   *)
(* of them that may still create a connection or have not got one.         *)
Marked == {w \in Workers : pc[w] \in Inside}
OpenIntents == {w \in Marked : pc[w] # "retract" \/ result[w] # "conn"}

IntentInv == n_conn_intents = Cardinality(Marked)

(* The open intents of w and of those before it. *)
UpTo(since, w) == {r \in OpenIntents : since[r] <= since[w]}

(* Every worker has counted the intents before its own, and when it was    *)
(* told to create a connection there was room for all of them.             *)
Counted(since) ==
    \A w \in Workers :
        /\ pc[w] = "recheck" => value[w] >= Cardinality(UpTo(since, w))
        /\ pc[w] = "create" =>
              Cardinality(UpTo(since, w)) + n_current_conns <= max_routing_connections

OrderInv ==
    \E since \in [Workers -> Nat], clock \in Nat :
        /\ \A w \in Workers : since[w] < clock
        /\ Counted(since)

IInv == CounterTypes /\ IntentInv /\ OrderInv /\ LimitHolds

(* A step outside of the part of get_backend_connection with intents. *)
Calm ==
    /\ n_current_conns' \in Int /\ n_current_conns' <= n_current_conns
    /\ n_conn_intents' = n_conn_intents
    /\ pc' \in [Workers -> Outside \union Inside]
    /\ value' \in [Workers -> Int]
    /\ result' \in [Workers -> {"none", "conn", "limit", "fail"}]
    /\ \A w \in Workers :
          \/ pc'[w] = pc[w] /\ value'[w] = value[w] /\ result'[w] = result[w]
          \/ pc[w] \in Outside /\ pc'[w] \in Outside

-----------------------------------------------------------------------------
(* A part of a finite set is not larger, and smaller without some element. *)
LEMMA PartSmaller ==
    ASSUME NEW S, NEW T, IsFiniteSet(T), S \subseteq T
    PROVE  /\ IsFiniteSet(S)
           /\ Cardinality(S) \in Nat
           /\ Cardinality(T) \in Nat
           /\ Cardinality(S) <= Cardinality(T)
           /\ \A x \in T : x \notin S => Cardinality(S) + 1 <= Cardinality(T)
  <1>1. /\ IsFiniteSet(S) /\ Cardinality(S) \in Nat /\ Cardinality(T) \in Nat
        /\ Cardinality(S) <= Cardinality(T)
    BY FS_Subset, FS_CardinalityType, ZenonT(120)
  <1>2. ASSUME NEW x \in T, x \notin S
        PROVE  Cardinality(S) + 1 <= Cardinality(T)
    <2>1. S \subseteq T \ {x}
      BY <1>2, ZenonT(120)
    <2>2. IsFiniteSet(T \ {x}) /\ Cardinality(T \ {x}) = Cardinality(T) - 1
      BY <1>2, FS_RemoveElement, ZenonT(120)
    <2>3. Cardinality(S) <= Cardinality(T \ {x})
      BY <2>1, <2>2, FS_Subset, ZenonT(120)
    <2>4. QED
      BY <1>1, <2>2, <2>3, SMTT(120)
  <1>3. QED
    BY <1>1, <1>2, ZenonT(120)

(* The sets of the invariant are finite. *)
LEMMA SetsFinite ==
    /\ IsFiniteSet(Marked)
    /\ IsFiniteSet(OpenIntents)
    /\ \A since : \A w \in Workers : IsFiniteSet(UpTo(since, w))
  <1>1. Marked \subseteq Workers /\ OpenIntents \subseteq Workers
    BY ZenonT(120) DEF Marked, OpenIntents
  <1>2. \A since : \A w \in Workers : UpTo(since, w) \subseteq Workers
    BY <1>1, ZenonT(120) DEF UpTo
  <1>3. QED
    BY <1>1, <1>2, FS_Subset, SetsAssumption, ZenonT(120)

(* The invariant holds at first: no worker has announced an intent. *)
LEMMA InitIInv == Init => IInv
  <1>1. SUFFICES ASSUME Init PROVE IInv
    BY ZenonT(120)
  <1>2. CounterTypes
    BY <1>1, SMTT(120) DEF Init, CounterTypes, Outside, Inside
  <1>3. Marked = {}
    BY <1>1, ZenonT(120) DEF Init, Marked, Inside
  <1>4. IntentInv
    BY <1>1, <1>3, FS_EmptySet, ZenonT(120) DEF Init, IntentInv
  <1>5. OrderInv
    <2>1. /\ [w \in Workers |-> 0] \in [Workers -> Nat] /\ 1 \in Nat
          /\ \A w \in Workers : [u \in Workers |-> 0][w] < 1
      BY SMTT(120)
    <2>2. Counted([w \in Workers |-> 0])
      BY <1>1, ZenonT(120) DEF Init, Counted
    <2>3. QED
      BY <2>1, <2>2, ZenonT(120) DEF OrderInv
  <1>6. LimitHolds
    BY <1>1, SizesAssumption, SMTT(120) DEF Init, LimitHolds
  <1>7. QED
    BY <1>2, <1>4, <1>5, <1>6, ZenonT(120) DEF IInv

(* When no intent is opened, the order is kept as long as the connections  *)
(* do not become more and no worker gets past one of its checks.           *)
LEMMA OrderKept ==
    ASSUME IInv, OpenIntents' \subseteq OpenIntents,
           n_current_conns' \in Int, n_current_conns' <= n_current_conns,
           \A w \in Workers : /\ pc'[w] = "recheck" => pc[w] = "recheck" /\ value'[w] = value[w]
                              /\ pc'[w] = "create" => pc[w] = "create"
    PROVE  OrderInv'
  <1>1. PICK since \in [Workers -> Nat], clock \in Nat :
            (\A w \in Workers : since[w] < clock) /\ Counted(since)
    BY ZenonT(120) DEF IInv, OrderInv
  <1>2. ASSUME NEW w \in Workers
        PROVE  /\ Cardinality(UpTo(since, w)') \in Nat
               /\ Cardinality(UpTo(since, w)) \in Nat
               /\ Cardinality(UpTo(since, w)') <= Cardinality(UpTo(since, w))
    <2>1. UpTo(since, w)' \subseteq UpTo(since, w)
      BY ZenonT(120) DEF UpTo
    <2>2. QED
      BY <2>1, SetsFinite, PartSmaller, ZenonT(120)
  <1>3. Counted(since)'
    <2>1. SUFFICES ASSUME NEW w \in Workers
                   PROVE  /\ pc'[w] = "recheck" => value'[w] >= Cardinality(UpTo(since, w)')
                          /\ pc'[w] = "create" =>
                                Cardinality(UpTo(since, w)') + n_current_conns' <= max_routing_connections
      BY ZenonT(120) DEF Counted
    <2>2. value[w] \in Int /\ n_current_conns \in Int /\ max_routing_connections \in Int
      BY SizesAssumption, SMTT(120) DEF IInv, CounterTypes
    <2>3. QED
      BY <1>1, <1>2, <2>2, SMTT(120) DEF Counted
  <1>4. QED
    BY <1>1, <1>3, ZenonT(120) DEF OrderInv

(* Calm steps keep the invariant. *)
LEMMA CalmKeeps == IInv /\ Calm => IInv'
  <1>1. SUFFICES ASSUME IInv, Calm PROVE IInv'
    BY ZenonT(120)
  <1>2. Marked' = Marked /\ OpenIntents' = OpenIntents
    BY <1>1, ZenonT(120) DEF Calm, Marked, OpenIntents, Inside, Outside
  <1>3. CounterTypes'
    BY <1>1, ZenonT(120) DEF Calm, CounterTypes
  <1>4. IntentInv'
    BY <1>1, <1>2, ZenonT(120) DEF IInv, IntentInv, Calm
  <1>5. OrderInv'
    <2>1. \A w \in Workers : /\ pc'[w] = "recheck" => pc[w] = "recheck" /\ value'[w] = value[w]
                             /\ pc'[w] = "create" => pc[w] = "create"
      BY <1>1, ZenonT(120) DEF Calm, Outside
    <2>2. n_current_conns' \in Int /\ n_current_conns' <= n_current_conns
      BY <1>1, ZenonT(120) DEF Calm
    <2>3. QED
      BY <1>1, <1>2, <2>1, <2>2, OrderKept, ZenonT(120)
  <1>6. LimitHolds'
    BY <1>1, SizesAssumption, SMTT(120) DEF IInv, Calm, CounterTypes, LimitHolds
  <1>7. QED
    BY <1>3, <1>4, <1>5, <1>6, ZenonT(120) DEF IInv

-----------------------------------------------------------------------------
(* A worker announces its intent: it counts all that are open, and its own *)
(* is the last one in the order.                                           *)
LEMMA IntentStep ==
    ASSUME IInv, NEW w \in Workers, add_conn_intent(w)
    PROVE  IInv'
  <1>1. /\ pc[w] = "intent"
        /\ n_conn_intents' = n_conn_intents + 1
        /\ value' = [value EXCEPT ![w] = n_conn_intents + 1]
        /\ pc' = [pc EXCEPT ![w] = "recheck"]
        /\ n_current_conns' = n_current_conns /\ result' = result
    BY ZenonT(120) DEF add_conn_intent, GoTo
  <1>2. CounterTypes /\ IntentInv /\ LimitHolds
    BY ZenonT(120) DEF IInv
  <1>3. Cardinality(Marked) \in Nat
    BY SetsFinite, FS_CardinalityType, ZenonT(120)
  <1>4. w \notin Marked /\ Marked' = Marked \union {w} /\ OpenIntents' = OpenIntents \union {w}
    BY <1>1, <1>2, ZenonT(120) DEF Marked, OpenIntents, CounterTypes, Inside, Outside
  <1>5. CounterTypes'
    BY <1>1, <1>2, <1>3, SMTT(120) DEF CounterTypes, IntentInv, Inside
  <1>6. Cardinality(Marked') = Cardinality(Marked) + 1
    BY <1>4, SetsFinite, FS_AddElement, ZenonT(120)
  <1>7. IntentInv'
    BY <1>1, <1>2, <1>6, ZenonT(120) DEF IntentInv
  <1>8. LimitHolds'
    BY <1>1, <1>2, ZenonT(120) DEF LimitHolds
  <1>9. OrderInv'
    <2>1. PICK since \in [Workers -> Nat], clock \in Nat :
              (\A u \in Workers : since[u] < clock) /\ Counted(since)
      BY ZenonT(120) DEF IInv, OrderInv
    <2> DEFINE after == [since EXCEPT ![w] = clock]
    <2>2. /\ after \in [Workers -> Nat] /\ clock + 1 \in Nat
          /\ \A u \in Workers : after[u] < clock + 1
      BY <2>1, SMTT(120)
    <2>3. ASSUME NEW u \in Workers, u # w
          PROVE  UpTo(after, u)' = {r \in UpTo(since, u) : r # w}
      <3>1. after[u] = since[u] /\ after[w] = clock /\ ~(clock <= since[u])
        BY <2>1, <2>3, SMTT(120)
      <3>2. \A r \in Workers : r # w => after[r] = since[r]
        BY <2>1, ZenonT(120)
      <3>3. OpenIntents \subseteq Workers
        BY ZenonT(120) DEF OpenIntents, Marked
      <3>4. UpTo(after, u)' = {r \in OpenIntents' : after[r] <= after[u]}
        BY ZenonT(120) DEF UpTo
      <3>5. \A r : r \in OpenIntents' /\ after[r] <= after[u] <=> r \in OpenIntents /\ since[r] <= since[u] /\ r # w
        BY <1>4, <3>1, <3>2, <3>3, ZenonT(120)
      <3>6. QED
        BY <3>4, <3>5, ZenonT(120) DEF UpTo
    <2>4. UpTo(after, w)' \subseteq Marked'
      BY ZenonT(120) DEF UpTo, OpenIntents
    <2>5. Cardinality(UpTo(after, w)') <= Cardinality(Marked') /\ Cardinality(UpTo(after, w)') \in Nat
      <3>1. IsFiniteSet(Marked')
        BY <1>4, SetsFinite, FS_AddElement, ZenonT(120)
      <3>2. QED
        BY <2>4, <3>1, PartSmaller, ZenonT(120)
    <2>6. ASSUME NEW u \in Workers, u # w
          PROVE  /\ Cardinality(UpTo(after, u)') \in Nat
                 /\ Cardinality(UpTo(since, u)) \in Nat
                 /\ Cardinality(UpTo(after, u)') <= Cardinality(UpTo(since, u))
      BY <2>3, <2>6, SetsFinite, PartSmaller, ZenonT(120)
    <2>7. Counted(after)'
      <3>1. SUFFICES ASSUME NEW u \in Workers
                     PROVE  /\ pc'[u] = "recheck" => value'[u] >= Cardinality(UpTo(after, u)')
                            /\ pc'[u] = "create" =>
                                  Cardinality(UpTo(after, u)') + n_current_conns' <= max_routing_connections
        BY ZenonT(120) DEF Counted
      <3>2. value[u] \in Int /\ n_current_conns \in Int /\ max_routing_connections \in Int
        BY <1>2, SizesAssumption, SMTT(120) DEF CounterTypes
      <3>3. CASE u = w
        <4>1. pc'[u] = "recheck" /\ value'[u] = n_conn_intents + 1
          BY <1>1, <1>2, <3>3, ZenonT(120) DEF CounterTypes
        <4>2. n_conn_intents + 1 = Cardinality(Marked')
          BY <1>2, <1>6, ZenonT(120) DEF IntentInv
        <4>3. value'[u] >= Cardinality(UpTo(after, w)')
          BY <1>3, <1>6, <2>5, <4>1, <4>2, ZenonT(120)
        <4>4. UpTo(after, u)' = UpTo(after, w)'
          BY <3>3, ZenonT(120)
        <4>5. pc'[u] # "create"
          BY <4>1, ZenonT(120)
        <4>6. QED
          BY <4>3, <4>4, <4>5, ZenonT(120)
      <3>4. CASE u # w
        <4>1. pc'[u] = pc[u] /\ value'[u] = value[u]
          BY <1>1, <1>2, <3>4, ZenonT(120) DEF CounterTypes
        <4>2. /\ pc[u] = "recheck" => value[u] >= Cardinality(UpTo(since, u))
              /\ pc[u] = "create" =>
                    Cardinality(UpTo(since, u)) + n_current_conns <= max_routing_connections
          BY <2>1, ZenonT(120) DEF Counted
        <4>3. /\ Cardinality(UpTo(after, u)') \in Nat
              /\ Cardinality(UpTo(since, u)) \in Nat
              /\ Cardinality(UpTo(after, u)') <= Cardinality(UpTo(since, u))
          BY <2>6, <3>4, ZenonT(120)
        <4>4. n_current_conns' = n_current_conns
          BY <1>1, ZenonT(120)
        <4> HIDE DEF after
        <4>5. pc'[u] = "recheck" => value'[u] >= Cardinality(UpTo(after, u)')
          BY <3>2, <4>1, <4>2, <4>3, SMTT(120)
        <4>6. QED
          BY <3>2, <4>1, <4>2, <4>3, <4>4, <4>5, SMTT(120)
      <3>5. QED
        BY <3>3, <3>4, ZenonT(120)
    <2>8. QED
      BY <2>2, <2>7, ZenonT(120) DEF OrderInv
  <1>10. QED
    BY <1>5, <1>7, <1>8, <1>9, ZenonT(120) DEF IInv

(* The second check: there is room for the worker and those before it. *)
LEMMA RecheckStep ==
    ASSUME IInv, NEW w \in Workers, Recheck(w)
    PROVE  IInv'
  <1>1. /\ pc[w] = "recheck"
        /\ n_conn_intents' = n_conn_intents
        /\ value' = value
        /\ n_current_conns' = n_current_conns
        /\ \/ /\ value[w] + n_current_conns <= max_routing_connections
              /\ pc' = [pc EXCEPT ![w] = "create"] /\ result' = result
           \/ pc' = [pc EXCEPT ![w] = "retract"] /\ result' = [result EXCEPT ![w] = "limit"]
    BY ZenonT(120) DEF Recheck, GoTo
  <1>2. CounterTypes /\ IntentInv /\ LimitHolds
    BY ZenonT(120) DEF IInv
  <1>3. CounterTypes'
    BY <1>1, <1>2, ZenonT(120) DEF CounterTypes, Inside, Outside
  <1>4. Marked' = Marked /\ OpenIntents' = OpenIntents
    BY <1>1, <1>2, ZenonT(120) DEF Marked, OpenIntents, CounterTypes, Inside
  <1>5. IntentInv' /\ LimitHolds'
    BY <1>1, <1>2, <1>4, ZenonT(120) DEF IntentInv, LimitHolds
  <1>6. OrderInv'
    <2>1. PICK since \in [Workers -> Nat], clock \in Nat :
              (\A u \in Workers : since[u] < clock) /\ Counted(since)
      BY ZenonT(120) DEF IInv, OrderInv
    <2>2. \A u \in Workers : UpTo(since, u)' = UpTo(since, u) /\ Cardinality(UpTo(since, u)) \in Nat
      BY <1>4, SetsFinite, FS_CardinalityType, ZenonT(120) DEF UpTo
    <2>3. Counted(since)'
      <3>1. SUFFICES ASSUME NEW u \in Workers
                     PROVE  /\ pc'[u] = "recheck" => value'[u] >= Cardinality(UpTo(since, u)')
                            /\ pc'[u] = "create" =>
                                  Cardinality(UpTo(since, u)') + n_current_conns' <= max_routing_connections
        BY ZenonT(120) DEF Counted
      <3>2. value[u] \in Int /\ n_current_conns \in Int /\ max_routing_connections \in Int
        BY <1>2, SizesAssumption, SMTT(120) DEF CounterTypes
      <3>3. /\ pc[u] = "recheck" => value[u] >= Cardinality(UpTo(since, u))
            /\ pc[u] = "create" =>
                  Cardinality(UpTo(since, u)) + n_current_conns <= max_routing_connections
        BY <2>1, ZenonT(120) DEF Counted
      <3>4. CASE u # w
        BY <1>1, <1>2, <2>2, <3>3, <3>4, ZenonT(120) DEF CounterTypes
      <3>5. CASE u = w
        BY <1>1, <1>2, <2>2, <3>2, <3>3, <3>5, SMTT(120) DEF CounterTypes
      <3>6. QED
        BY <3>4, <3>5, ZenonT(120)
    <2>4. QED
      BY <2>1, <2>3, ZenonT(120) DEF OrderInv
  <1>7. QED
    BY <1>3, <1>5, <1>6, ZenonT(120) DEF IInv

(* A connection is created: there was room for it and for those before it. *)
(* For those after it there still is, for they have counted its intent.    *)
LEMMA CreateStep ==
    ASSUME IInv, NEW w \in Workers, Create(w)
    PROVE  IInv'
  <1>1. /\ pc[w] = "create"
        /\ n_conn_intents' = n_conn_intents
        /\ value' = value
        /\ n_current_conns' = n_current_conns + 1
        /\ pc' = [pc EXCEPT ![w] = "retract"]
        /\ result' = [result EXCEPT ![w] = "conn"]
    BY ZenonT(120) DEF Create, GoTo
  <1>2. CounterTypes /\ IntentInv /\ LimitHolds
    BY ZenonT(120) DEF IInv
  <1>3. CounterTypes'
    BY <1>1, <1>2, SMTT(120) DEF CounterTypes, Inside, Outside
  <1>4. Marked' = Marked /\ OpenIntents' = OpenIntents \ {w} /\ w \in OpenIntents
    BY <1>1, <1>2, ZenonT(120) DEF Marked, OpenIntents, CounterTypes, Inside
  <1>5. IntentInv'
    BY <1>1, <1>2, <1>4, ZenonT(120) DEF IntentInv
  <1>6. PICK since \in [Workers -> Nat], clock \in Nat :
            (\A u \in Workers : since[u] < clock) /\ Counted(since)
    BY ZenonT(120) DEF IInv, OrderInv
  <1>7. n_current_conns \in Int /\ max_routing_connections \in Int
    BY <1>2, SizesAssumption, SMTT(120) DEF CounterTypes
  <1>8. \A u \in Workers : IsFiniteSet(UpTo(since, u)) /\ Cardinality(UpTo(since, u)) \in Nat
    BY SetsFinite, FS_CardinalityType, ZenonT(120)
  <1>9. Cardinality(UpTo(since, w)) + n_current_conns <= max_routing_connections
    BY <1>1, <1>6, ZenonT(120) DEF Counted
  <1>10. w \in UpTo(since, w)
    BY <1>4, <1>6, SMTT(120) DEF UpTo
  <1>11. Cardinality(UpTo(since, w)) >= 1
    <2>1. {} \subseteq UpTo(since, w) /\ w \notin {}
      BY ZenonT(120)
    <2>2. Cardinality({}) + 1 <= Cardinality(UpTo(since, w))
      BY <1>8, <1>10, <2>1, PartSmaller, ZenonT(120)
    <2>3. QED
      BY <1>8, <2>2, FS_EmptySet, SMTT(120)
  <1>12. LimitHolds'
    BY <1>1, <1>7, <1>8, <1>9, <1>11, SMTT(120) DEF LimitHolds
  <1>13. ASSUME NEW u \in Workers, u # w
         PROVE  UpTo(since, u)' = UpTo(since, u) \ {w}
    BY <1>4, ZenonT(120) DEF UpTo
  <1>14. ASSUME NEW u \in Workers, u # w
         PROVE  /\ Cardinality(UpTo(since, u)') \in Nat
                /\ Cardinality(UpTo(since, u)') <= Cardinality(UpTo(since, u))
    BY <1>8, <1>13, <1>14, PartSmaller, ZenonT(120)
  <1>15. ASSUME NEW u \in Workers, u # w, pc[u] = "create"
         PROVE  Cardinality(UpTo(since, u)') + n_current_conns + 1 <= max_routing_connections
    <2>1. Cardinality(UpTo(since, u)) + n_current_conns <= max_routing_connections
      BY <1>6, <1>15, ZenonT(120) DEF Counted
    <2>2. CASE w \in UpTo(since, u)
      <3>1. Cardinality(UpTo(since, u)') = Cardinality(UpTo(since, u)) - 1
        BY <1>8, <1>13, <1>15, <2>2, FS_RemoveElement, ZenonT(120)
      <3>2. QED
        BY <1>7, <1>8, <2>1, <3>1, SMTT(120)
    <2>3. CASE w \notin UpTo(since, u)
      <3>1. ~(since[w] <= since[u]) /\ since[u] <= since[w]
        <4>1. since[w] \in Nat /\ since[u] \in Nat
          BY <1>6, ZenonT(120)
        <4>2. ~(since[w] <= since[u])
          BY <1>4, <2>3, ZenonT(120) DEF UpTo
        <4>3. QED
          BY <4>1, <4>2, SMTT(120)
      <3>2. UpTo(since, u) \subseteq UpTo(since, w)
        <4>1. \A r \in OpenIntents : since[r] \in Nat
          BY <1>6, ZenonT(120) DEF OpenIntents, Marked
        <4>2. since[w] \in Nat /\ since[u] \in Nat
          BY <1>6, ZenonT(120)
        <4>3. QED
          BY <3>1, <4>1, <4>2, SMTT(120) DEF UpTo
      <3>3. Cardinality(UpTo(since, u)) + 1 <= Cardinality(UpTo(since, w))
        BY <1>8, <1>10, <2>3, <3>2, PartSmaller, ZenonT(120)
      <3>4. Cardinality(UpTo(since, u)') <= Cardinality(UpTo(since, u))
        BY <1>14, <1>15, ZenonT(120)
      <3>5. Cardinality(UpTo(since, u)') \in Nat
        BY <1>14, <1>15, ZenonT(120)
      <3>6. QED
        BY <1>7, <1>8, <1>9, <3>3, <3>4, <3>5, SMTT(120)
    <2>4. QED
      BY <2>2, <2>3, ZenonT(120)
  <1>16. Counted(since)'
    <2>1. SUFFICES ASSUME NEW u \in Workers
                   PROVE  /\ pc'[u] = "recheck" => value'[u] >= Cardinality(UpTo(since, u)')
                          /\ pc'[u] = "create" =>
                                Cardinality(UpTo(since, u)') + n_current_conns' <= max_routing_connections
      BY ZenonT(120) DEF Counted
    <2>2. CASE u = w
      BY <1>1, <1>2, <2>2, ZenonT(120) DEF CounterTypes
    <2>3. CASE u # w
      <3>1. pc'[u] = pc[u] /\ value'[u] = value[u] /\ value[u] \in Int
        BY <1>1, <1>2, <2>3, ZenonT(120) DEF CounterTypes
      <3>2. pc[u] = "recheck" => value[u] >= Cardinality(UpTo(since, u))
        BY <1>6, ZenonT(120) DEF Counted
      <3>3. Cardinality(UpTo(since, u)') \in Nat
            /\ Cardinality(UpTo(since, u)') <= Cardinality(UpTo(since, u))
        BY <1>14, <2>3, ZenonT(120)
      <3>4. pc'[u] = "recheck" => value'[u] >= Cardinality(UpTo(since, u)')
        BY <1>8, <3>1, <3>2, <3>3, SMTT(120)
      <3>5. pc'[u] = "create" =>
                Cardinality(UpTo(since, u)') + n_current_conns' <= max_routing_connections
        BY <1>1, <1>7, <1>15, <2>3, <3>1, <3>3, SMTT(120)
      <3>6. QED
        BY <3>4, <3>5, ZenonT(120)
    <2>4. QED
      BY <2>2, <2>3, ZenonT(120)
  <1>17. OrderInv'
    BY <1>6, <1>16, ZenonT(120) DEF OrderInv
  <1>18. QED
    BY <1>3, <1>5, <1>12, <1>17, ZenonT(120) DEF IInv

-----------------------------------------------------------------------------
(* Only w moves, to a place outside of the part with intents. *)
Goes(w) ==
    /\ pc' \in [Workers -> Outside \union Inside]
    /\ value' \in [Workers -> Int]
    /\ result' \in [Workers -> {"none", "conn", "limit", "fail"}]
    /\ pc'[w] \in Outside
    /\ \A u \in Workers : u # w => pc'[u] = pc[u] /\ value'[u] = value[u] /\ result'[u] = result[u]

(* The ways in which a callback goes on or ends are such moves. *)
LEMMA MovesGo ==
    ASSUME CounterTypes, NEW w \in Workers
    PROVE  /\ Return(w) => Goes(w)
           /\ \A e, why : get_backend_connection(w, e, why) => Goes(w)
           /\ \A place \in Outside : GoTo(w, place) /\ UNCHANGED <<value, result>> => Goes(w)
           /\ \A flag : ActivationEnds(w, flag) => Goes(w)
           /\ \A flag : EraseFirst(w, flag) => Goes(w)
  <1>1. Return(w) => Goes(w)
    BY SMTT(120) DEF Return, Goes, CounterTypes, Outside, Inside
  <1>2. \A e, why : get_backend_connection(w, e, why) => Goes(w)
    BY ZenonT(120) DEF get_backend_connection, Goes, CounterTypes, Outside, Inside
  <1>3. \A place \in Outside : GoTo(w, place) /\ UNCHANGED <<value, result>> => Goes(w)
    BY ZenonT(120) DEF GoTo, Goes, CounterTypes
  <1>4. \A flag : ActivationEnds(w, flag) => Goes(w)
    BY <1>1, ZenonT(120) DEF ActivationEnds
  <1>5. \A flag : EraseFirst(w, flag) => Goes(w)
    BY <1>2, <1>4, ZenonT(120) DEF EraseFirst
  <1>6. QED
    BY <1>1, <1>2, <1>3, <1>4, <1>5, ZenonT(120)

(* Whatever the caller does with the result, it leaves that part. *)
LEMMA CallersGo ==
    ASSUME CounterTypes, NEW w \in Workers,
           Connected(w) \/ WriteFails(w) \/ LimitReached(w) \/ ConnectionFails(w)
    PROVE  Goes(w)
  <1>1. CASE Connected(w)
    BY <1>1, MovesGo, ZenonT(120) DEF Connected
  <1>2. CASE WriteFails(w)
    <2>1. "failed" \in Outside
      BY ZenonT(120) DEF Outside
    <2>2. GoTo(w, "failed") /\ UNCHANGED <<value, result>>
      BY <1>2, ZenonT(120) DEF WriteFails
    <2>3. QED
      BY <2>1, <2>2, MovesGo, ZenonT(120)
  <1>3. CASE LimitReached(w)
    BY <1>3, MovesGo, ZenonT(120) DEF LimitReached
  <1>4. CASE ConnectionFails(w)
    BY <1>4, MovesGo, ZenonT(120) DEF ConnectionFails
  <1>5. QED
    BY <1>1, <1>2, <1>3, <1>4, ZenonT(120)

(* A worker that moves outside of the part with intents is calm. *)
LEMMA GoingIsCalm ==
    ASSUME IInv, NEW w \in Workers, pc[w] \in Outside, Goes(w),
           n_current_conns' = n_current_conns \/ remove_connection,
           n_conn_intents' = n_conn_intents
    PROVE  Calm
  <1>1. n_current_conns \in Int
    BY ZenonT(120) DEF IInv, CounterTypes
  <1>2. n_current_conns' \in Int /\ n_current_conns' <= n_current_conns
    BY <1>1, SMTT(120) DEF remove_connection
  <1>3. QED
    BY <1>2, ZenonT(120) DEF Calm, Goes

(* So is a step that moves no worker. *)
LEMMA StayingIsCalm ==
    ASSUME IInv, UNCHANGED <<pc, value, result>>,
           n_current_conns' = n_current_conns \/ remove_connection,
           n_conn_intents' = n_conn_intents
    PROVE  Calm
  <1>1. n_current_conns \in Int
    BY ZenonT(120) DEF IInv, CounterTypes
  <1>2. n_current_conns' \in Int /\ n_current_conns' <= n_current_conns
    BY <1>1, SMTT(120) DEF remove_connection
  <1>3. QED
    BY <1>2, ZenonT(120) DEF Calm, IInv, CounterTypes

-----------------------------------------------------------------------------
(* A connection that cannot be created leaves the intent open. *)
LEMMA CreateFailsStep ==
    ASSUME IInv, NEW w \in Workers, CreateFails(w)
    PROVE  IInv'
  <1>1. /\ pc[w] = "create"
        /\ n_conn_intents' = n_conn_intents
        /\ value' = value
        /\ n_current_conns' = n_current_conns
        /\ pc' = [pc EXCEPT ![w] = "retract"]
        /\ result' = [result EXCEPT ![w] = "fail"]
    BY ZenonT(120) DEF CreateFails, GoTo
  <1>2. CounterTypes /\ IntentInv /\ LimitHolds
    BY ZenonT(120) DEF IInv
  <1>3. CounterTypes'
    BY <1>1, <1>2, ZenonT(120) DEF CounterTypes, Inside, Outside
  <1>4. Marked' = Marked /\ OpenIntents' = OpenIntents
    BY <1>1, <1>2, ZenonT(120) DEF Marked, OpenIntents, CounterTypes, Inside
  <1>5. IntentInv' /\ LimitHolds'
    BY <1>1, <1>2, <1>4, ZenonT(120) DEF IntentInv, LimitHolds
  <1>6. /\ n_current_conns' \in Int /\ n_current_conns' <= n_current_conns
        /\ \A u \in Workers : /\ pc'[u] = "recheck" => pc[u] = "recheck" /\ value'[u] = value[u]
                              /\ pc'[u] = "create" => pc[u] = "create"
    BY <1>1, <1>2, SMTT(120) DEF CounterTypes
  <1>7. OrderInv'
    BY <1>4, <1>6, OrderKept, ZenonT(120)
  <1>8. QED
    BY <1>3, <1>5, <1>7, ZenonT(120) DEF IInv

(* The intent is taken back. *)
LEMMA RetractStep ==
    ASSUME IInv, NEW w \in Workers, remove_conn_intent(w)
    PROVE  IInv'
  <1>1. /\ pc[w] = "retract"
        /\ n_conn_intents' = n_conn_intents - 1
        /\ n_current_conns' = n_current_conns
    BY ZenonT(120) DEF remove_conn_intent
  <1>2. CounterTypes /\ IntentInv /\ LimitHolds
    BY ZenonT(120) DEF IInv
  <1>3. Goes(w)
    BY <1>2, CallersGo, ZenonT(120) DEF remove_conn_intent
  <1>4. w \in Marked /\ Marked' = Marked \ {w} /\ OpenIntents' \subseteq OpenIntents
    BY <1>1, <1>3, ZenonT(120) DEF Goes, Marked, OpenIntents, Inside, Outside
  <1>5. CounterTypes'
    BY <1>1, <1>2, <1>3, ZenonT(120) DEF Goes, CounterTypes
  <1>6. IntentInv'
    BY <1>1, <1>2, <1>4, SetsFinite, FS_RemoveElement, ZenonT(120) DEF IntentInv
  <1>7. LimitHolds'
    BY <1>1, <1>2, ZenonT(120) DEF LimitHolds
  <1>8. /\ n_current_conns' \in Int /\ n_current_conns' <= n_current_conns
        /\ \A u \in Workers : /\ pc'[u] = "recheck" => pc[u] = "recheck" /\ value'[u] = value[u]
                              /\ pc'[u] = "create" => pc[u] = "create"
    BY <1>1, <1>2, <1>3, SMTT(120) DEF Goes, CounterTypes, Outside
  <1>9. OrderInv'
    BY <1>4, <1>8, OrderKept, ZenonT(120)
  <1>10. QED
    BY <1>5, <1>6, <1>7, <1>9, ZenonT(120) DEF IInv

(* The other steps of get_backend_connection. *)
LEMMA GetConnectionStep ==
    ASSUME IInv, NEW w \in Workers, GetConnection(w)
    PROVE  IInv'
  <1>1. CounterTypes /\ \A x \in {"pool", "check", "intent", "failed"} : x \in Outside
    BY ZenonT(120) DEF IInv, Outside
  <1>2. CASE Reuse(w)
    BY <1>1, <1>2, CallersGo, GoingIsCalm, CalmKeeps, ZenonT(120) DEF Reuse
  <1>3. CASE ReuseFails(w)
    BY <1>3, StayingIsCalm, CalmKeeps, ZenonT(120) DEF ReuseFails, worker
  <1>4. CASE ReadConns(w)
    <2>1. pc[w] \in Outside /\ Goes(w)
      BY <1>1, <1>4, ZenonT(120) DEF ReadConns, GoTo, Goes, CounterTypes
    <2>2. QED
      BY <1>4, <2>1, GoingIsCalm, CalmKeeps, ZenonT(120) DEF ReadConns
  <1>5. CASE PreCheck(w)
    <2>1. pc[w] \in Outside
      BY <1>1, <1>5, ZenonT(120) DEF PreCheck
    <2>2. Goes(w)
      BY <1>1, <1>5, CallersGo, MovesGo, ZenonT(120) DEF PreCheck
    <2>3. QED
      BY <1>5, <2>1, <2>2, GoingIsCalm, CalmKeeps, ZenonT(120) DEF PreCheck
  <1>6. CASE handle_failed_continue(w)
    <2>1. pc[w] \in Outside /\ Goes(w)
      BY <1>1, <1>6, MovesGo, ZenonT(120) DEF handle_failed_continue
    <2>2. QED
      BY <1>6, <2>1, GoingIsCalm, CalmKeeps, ZenonT(120) DEF handle_failed_continue
  <1>7. QED
    BY <1>2, <1>3, <1>4, <1>5, <1>6, IntentStep, RecheckStep, CreateStep, CreateFailsStep,
       RetractStep, SMTT(120) DEF GetConnection

(* The events of a session. *)
LEMMA SessionStep ==
    ASSUME IInv, NEW e \in Endpoints, SessionEvent(e)
    PROVE  IInv'
  <1>1. CounterTypes /\ home[e] \in Workers /\ "idle" \in Outside
    BY SetsAssumption, ZenonT(120) DEF IInv, Outside
  <1>2. CASE Open(e)
    BY <1>1, <1>2, MovesGo, GoingIsCalm, CalmKeeps, ZenonT(120) DEF Open, Idle
  <1>3. CASE routeQuery(e)
    <2>1. CASE RoutePooled(e)
      BY <1>1, <1>3, <2>1, MovesGo, GoingIsCalm, CalmKeeps, ZenonT(120) DEF routeQuery, RoutePooled, Idle
    <2>2. CASE RouteConnected(e) \/ RouteWaiting(e)
      BY <1>3, <2>2, StayingIsCalm, CalmKeeps, ZenonT(120) DEF routeQuery, RouteConnected, RouteWaiting, worker
    <2>3. QED
      BY <1>3, <2>1, <2>2, ZenonT(120) DEF routeQuery
  <1>4. CASE ConnectionReady(e) \/ clientReply(e) \/ NothingToPool(e)
    BY <1>4, StayingIsCalm, CalmKeeps, ZenonT(120) DEF ConnectionReady, clientReply, NothingToPool, worker
  <1>5. CASE try_to_pool(e)
    BY <1>5, StayingIsCalm, CalmKeeps, ZenonT(120) DEF try_to_pool, worker
  <1>6. CASE Close(e)
    <2>1. n_current_conns' = n_current_conns \/ remove_connection
      BY <1>6, ZenonT(120) DEF Close, CloseConnected, CloseWaiting, ClosePooled
    <2>2. UNCHANGED <<pc, value, result, n_conn_intents>>
      BY <1>6, ZenonT(120) DEF Close, worker
    <2>3. QED
      BY <2>1, <2>2, StayingIsCalm, CalmKeeps, ZenonT(120)
  <1>7. QED
    BY <1>2, <1>3, <1>4, <1>5, <1>6, ZenonT(120) DEF SessionEvent

(* The events of a worker. *)
LEMMA WorkerStep ==
    ASSUME IInv, NEW w \in Workers, WorkerEvent(w)
    PROVE  IInv'
  <1>1. CounterTypes /\ "idle" \in Outside
    BY ZenonT(120) DEF IInv, Outside
  <1>2. CASE close_pooled_dcb(w)
    BY <1>2, StayingIsCalm, CalmKeeps, ZenonT(120) DEF close_pooled_dcb, worker
  <1>3. CASE Activate(w)
    <2>1. CASE activate_waiting_endpoints(w, TRUE)
      BY <1>1, <1>3, <2>1, MovesGo, GoingIsCalm, CalmKeeps, ZenonT(120)
      DEF Activate, activate_waiting_endpoints, Idle
    <2>2. CASE UNCHANGED worker
      BY <1>3, <2>2, StayingIsCalm, CalmKeeps, ZenonT(120) DEF Activate, worker
    <2>3. QED
      BY <1>3, <2>1, <2>2, ZenonT(120) DEF Activate
  <1>4. CASE ActivateTimer(w)
    BY <1>1, <1>4, MovesGo, GoingIsCalm, CalmKeeps, ZenonT(120)
    DEF ActivateTimer, activate_waiting_endpoints, Idle
  <1>5. CASE PostFails(w) \/ fail_timed_out_endpoints(w)
    BY <1>5, StayingIsCalm, CalmKeeps, ZenonT(120) DEF PostFails, fail_timed_out_endpoints, worker
  <1>6. QED
    BY <1>2, <1>3, <1>4, <1>5, ZenonT(120) DEF WorkerEvent

(* The invariant is inductive. *)
LEMMA Inductive == IInv /\ [Next]_vars => IInv'
  <1>1. SUFFICES ASSUME IInv, [Next]_vars PROVE IInv'
    BY ZenonT(120)
  <1>2. CASE Next
    BY <1>1, <1>2, GetConnectionStep, WorkerStep, SessionStep, ZenonT(120) DEF Next
  <1>3. CASE UNCHANGED vars
    BY <1>1, <1>3, StayingIsCalm, CalmKeeps, ZenonT(120) DEF vars, worker
  <1>4. QED
    BY <1>1, <1>2, <1>3, ZenonT(120)

(* With any number of workers, each of which checks the shared counters    *)
(* twice and creates a connection afterwards (get_backend_connection),     *)
(* there are never more connections than max_routing_connections.          *)
THEOREM LimitSafe == Spec => []LimitHolds
  <1>1. IInv => LimitHolds
    BY ZenonT(120) DEF IInv
  <1>2. QED
    BY <1>1, InitIInv, Inductive, PTL DEF Spec

-----------------------------------------------------------------------------
(* Connections. *)
HasConn == {"CONNECTED", "CONNECTED_FAILED"}

LEMMA ConnSetsFinite ==
    /\ IsFiniteSet(Held) /\ IsFiniteSet(Pooled) /\ IsFiniteSet(Coming)
    /\ Cardinality(Held) \in Nat /\ Cardinality(Pooled) \in Nat /\ Cardinality(Coming) \in Nat
  <1>1. Held \subseteq Endpoints /\ Coming \subseteq Workers /\ Pooled \subseteq Workers \X (1..capacity)
    BY ZenonT(120) DEF Held, Pooled, Coming
  <1>2. IsFiniteSet(1..capacity)
    BY FS_Interval, SizesAssumption, SMTT(120)
  <1>3. IsFiniteSet(Workers \X (1..capacity))
    BY <1>2, FS_Product, SetsAssumption, ZenonT(120)
  <1>4. QED
    BY <1>1, <1>3, FS_Subset, FS_CardinalityType, SetsAssumption, ZenonT(120)

(* An endpoint gets or loses a connection, or neither. *)
LEMMA HeldChanges ==
    ASSUME FunTypes, NEW e \in Endpoints, NEW st, StatusGets(e, st)
    PROVE  /\ connstatus[e] \notin HasConn /\ st \in HasConn => Cardinality(Held') = Cardinality(Held) + 1
           /\ connstatus[e] \in HasConn /\ st \notin HasConn => Cardinality(Held') = Cardinality(Held) - 1
           /\ connstatus[e] \notin HasConn /\ st \notin HasConn => Held' = Held
  <1>1. connstatus'[e] = st /\ \A f \in Endpoints : f # e => connstatus'[f] = connstatus[f]
    BY ZenonT(120) DEF FunTypes, StatusGets
  <1>2. ASSUME connstatus[e] \notin HasConn, st \in HasConn
        PROVE  Cardinality(Held') = Cardinality(Held) + 1
    <2>1. e \notin Held /\ Held' = Held \union {e}
      BY <1>1, <1>2, ZenonT(120) DEF Held, HasConn
    <2>2. QED
      BY <2>1, ConnSetsFinite, FS_AddElement, ZenonT(120)
  <1>3. ASSUME connstatus[e] \in HasConn, st \notin HasConn
        PROVE  Cardinality(Held') = Cardinality(Held) - 1
    <2>1. e \in Held /\ Held' = Held \ {e}
      BY <1>1, <1>3, ZenonT(120) DEF Held, HasConn
    <2>2. QED
      BY <2>1, ConnSetsFinite, FS_RemoveElement, ZenonT(120)
  <1>4. ASSUME connstatus[e] \notin HasConn, st \notin HasConn PROVE Held' = Held
    BY <1>1, <1>4, ZenonT(120) DEF Held, HasConn
  <1>5. QED
    BY <1>2, <1>3, <1>4, ZenonT(120)

(* A pool loses one of its connections ... *)
LEMMA PooledLess ==
    ASSUME FunTypes, NEW w \in Workers, PoolInv(w), NEW i \in DOMAIN pool[w],
           pool' = [pool EXCEPT ![w] = WithoutPlace(@, i)]
    PROVE  Cardinality(Pooled') = Cardinality(Pooled) - 1
  <1>1. Len(pool'[w]) = Len(pool[w]) - 1 /\ \A u \in Workers \ {w} : pool'[u] = pool[u]
    <2>1. pool[w] \in Seq(Kinds) /\ i \in 1..Len(pool[w]) /\ Len(pool[w]) \in Nat
      BY SMTT(120) DEF FunTypes
    <2>2. Len(WithoutPlace(pool[w], i)) = Len(pool[w]) - 1
      <3> DEFINE a == SubSeq(pool[w], 1, i - 1)
                 b == SubSeq(pool[w], i + 1, Len(pool[w]))
      <3>1. a \in Seq(Kinds) /\ Len(a) = i - 1
        BY <2>1, SMTT(120)
      <3>2. b \in Seq(Kinds) /\ Len(b) = Len(pool[w]) - i
        BY <2>1, SMTT(120)
      <3>3. WithoutPlace(pool[w], i) = a \o b
        BY ZenonT(120) DEF WithoutPlace
      <3> HIDE DEF a, b
      <3>4. Len(a \o b) = Len(a) + Len(b)
        BY <3>1, <3>2, SMTT(120)
      <3>5. QED
        BY <2>1, <3>1, <3>2, <3>3, <3>4, SMTT(120)
    <2>3. QED
      BY <2>2, ZenonT(120) DEF FunTypes
  <1>2. pool[w] \in Seq(Kinds) /\ Len(pool[w]) \in 1..capacity
    BY SizesAssumption, SMTT(120) DEF FunTypes, PoolInv
  <1> DEFINE p == <<w, Len(pool[w])>>
  <1>3. p \in Pooled
    BY <1>2, SMTT(120) DEF Pooled
  <1>4. Pooled' = Pooled \ {p}
    <2>1. SUFFICES ASSUME NEW u \in Workers, NEW k \in 1..capacity
                   PROVE  k <= Len(pool'[u]) <=> k <= Len(pool[u]) /\ ~(u = w /\ k = Len(pool[w]))
      BY SMTT(120) DEF Pooled
    <2>2. CASE u = w
      BY <1>1, <1>2, <2>2, SMTT(120)
    <2>3. CASE u # w
      BY <1>1, <2>3, ZenonT(120)
    <2>4. QED
      BY <2>2, <2>3, ZenonT(120)
  <1>5. QED
    BY <1>3, <1>4, ConnSetsFinite, FS_RemoveElement, ZenonT(120)

(* ... or gets one. *)
LEMMA PooledMore ==
    ASSUME FunTypes, NEW w \in Workers, has_space(w), NEW x \in Kinds,
           pool' = [pool EXCEPT ![w] = Append(@, x)]
    PROVE  Cardinality(Pooled') = Cardinality(Pooled) + 1
  <1>1. pool[w] \in Seq(Kinds) /\ Len(pool[w]) \in Nat /\ Len(pool[w]) + 1 \in 1..capacity
    BY SizesAssumption, SMTT(120) DEF FunTypes, has_space
  <1>2. Len(pool'[w]) = Len(pool[w]) + 1 /\ \A u \in Workers : u # w => pool'[u] = pool[u]
    BY <1>1, SMTT(120) DEF FunTypes
  <1> DEFINE p == <<w, Len(pool[w]) + 1>>
  <1>3. p \notin Pooled
    BY <1>1, SMTT(120) DEF Pooled
  <1>4. Pooled' = Pooled \union {p}
    <2>1. SUFFICES ASSUME NEW u \in Workers, NEW k \in 1..capacity
                   PROVE  k <= Len(pool'[u]) <=> k <= Len(pool[u]) \/ (u = w /\ k = Len(pool[w]) + 1)
      BY <1>1, SMTT(120) DEF Pooled
    <2>2. CASE u = w
      BY <1>1, <1>2, <2>2, SMTT(120)
    <2>3. CASE u # w
      BY <1>2, <2>3, ZenonT(120)
    <2>4. QED
      BY <2>2, <2>3, ZenonT(120)
  <1>5. QED
    BY <1>3, <1>4, ConnSetsFinite, FS_AddElement, ZenonT(120)

LEMMA PooledSame == ASSUME pool' = pool PROVE Pooled' = Pooled
  BY ZenonT(120) DEF Pooled

(* A worker that goes somewhere else has no connection on its way then. *)
LEMMA ComingChanges ==
    ASSUME NEW w \in Workers, Goes(w)
    PROVE  /\ pc[w] \in Outside \/ result[w] # "conn" => Coming' = Coming
           /\ pc[w] = "retract" /\ result[w] = "conn" => Cardinality(Coming') = Cardinality(Coming) - 1
  <1>1. ASSUME pc[w] \in Outside \/ result[w] # "conn" PROVE Coming' = Coming
    BY <1>1, ZenonT(120) DEF Goes, Coming, Outside
  <1>2. ASSUME pc[w] = "retract", result[w] = "conn"
        PROVE  Cardinality(Coming') = Cardinality(Coming) - 1
    <2>1. w \in Coming /\ Coming' = Coming \ {w}
      BY <1>2, ZenonT(120) DEF Goes, Coming, Outside
    <2>2. QED
      BY <2>1, ConnSetsFinite, FS_RemoveElement, ZenonT(120)
  <1>3. QED
    BY <1>1, <1>2, ZenonT(120)

LEMMA ConnsSame ==
    ASSUME ConnsInv, n_current_conns' = n_current_conns, Held' = Held, Pooled' = Pooled, Coming' = Coming
    PROVE  ConnsInv'
  BY ZenonT(120) DEF ConnsInv

(* What the caller does with the result: an endpoint holds the connection, *)
(* or there was none.                                                      *)
LEMMA ResultsHeld ==
    ASSUME FunTypes, NEW w \in Workers, PlaceInv(w), pc[w] \in Getting
    PROVE  /\ Connected(w) \/ WriteFails(w) => Cardinality(Held') = Cardinality(Held) + 1
           /\ LimitReached(w) \/ ConnectionFails(w) => Held' = Held
  <1>1. ep[w] \in Endpoints /\ connstatus[ep[w]] \notin HasConn
    BY ZenonT(120) DEF PlaceInv, Getting, CallerStatus, HasConn, FunTypes
  <1>2. ASSUME Connected(w) \/ WriteFails(w) PROVE Cardinality(Held') = Cardinality(Held) + 1
    <2>1. PICK st \in HasConn : StatusGets(ep[w], st)
      BY <1>2, ZenonT(120) DEF Connected, WriteFails, StatusGets, HasConn
    <2>2. QED
      BY <1>1, <2>1, HeldChanges, ZenonT(120)
  <1>3. ASSUME LimitReached(w) \/ ConnectionFails(w) PROVE Held' = Held
    <2>1. \/ StatusGets(ep[w], "WAITING_FOR_CONN") \/ StatusGets(ep[w], "NO_CONN")
          \/ connstatus' = connstatus
      BY <1>3, ZenonT(120) DEF LimitReached, ConnectionFails, Closed, StatusGets, endpoint
    <2>2. "WAITING_FOR_CONN" \notin HasConn /\ "NO_CONN" \notin HasConn
      BY ZenonT(120) DEF HasConn
    <2>3. CASE connstatus' = connstatus
      BY <2>3, ZenonT(120) DEF Held
    <2>4. QED
      BY <1>1, <2>1, <2>2, <2>3, HeldChanges, ZenonT(120)
  <1>4. QED
    BY <1>2, <1>3, ZenonT(120)

LEMMA GetConnectionConns ==
    ASSUME QInv, CounterTypes, NEW w \in Workers, GetConnection(w)
    PROVE  ConnsInv'
  <1>1. FunTypes /\ PlaceInv(w) /\ PoolInv(w) /\ ConnsInv
    BY ZenonT(120) DEF QInv, WorkerInv
  <1>2. /\ Cardinality(Held) \in Nat /\ Cardinality(Pooled) \in Nat /\ Cardinality(Coming) \in Nat
        /\ n_current_conns = Cardinality(Held) + Cardinality(Pooled) + Cardinality(Coming)
    BY <1>1, ConnSetsFinite, ZenonT(120) DEF ConnsInv
  <1>3. CASE Reuse(w)
    <2>1. PICK i \in DOMAIN pool[w] : pool' = [pool EXCEPT ![w] = WithoutPlace(@, i)]
      BY <1>3, ZenonT(120) DEF Reuse, Reusable
    <2>2. Cardinality(Pooled') = Cardinality(Pooled) - 1
      BY <1>1, <2>1, PooledLess, ZenonT(120)
    <2>3. pc[w] = "pool" /\ (Connected(w) \/ WriteFails(w)) /\ n_current_conns' = n_current_conns
      BY <1>3, ZenonT(120) DEF Reuse
    <2>4. Cardinality(Held') = Cardinality(Held) + 1
      BY <1>1, <2>3, ResultsHeld, ZenonT(120) DEF Getting
    <2>5. Coming' = Coming
      BY <2>3, CallersGo, ComingChanges, ZenonT(120) DEF Outside
    <2>6. QED
      BY <1>2, <2>2, <2>3, <2>4, <2>5, SMTT(120) DEF ConnsInv
  <1>4. CASE ReuseFails(w)
    <2>1. PICK i \in DOMAIN pool[w] : pool' = [pool EXCEPT ![w] = WithoutPlace(@, i)]
      BY <1>4, ZenonT(120) DEF ReuseFails, Reusable
    <2>2. Cardinality(Pooled') = Cardinality(Pooled) - 1
      BY <1>1, <2>1, PooledLess, ZenonT(120)
    <2>3. n_current_conns' = n_current_conns - 1 /\ UNCHANGED <<pc, result, connstatus>>
      BY <1>4, ZenonT(120) DEF ReuseFails, remove_connection, worker, endpoint
    <2>4. Held' = Held /\ Coming' = Coming
      BY <2>3, ZenonT(120) DEF Held, Coming
    <2>5. QED
      BY <1>2, <2>2, <2>3, <2>4, SMTT(120) DEF ConnsInv
  <1>5. CASE PreCheck(w) /\ LimitReached(w)
    <2>1. pc[w] = "check" /\ pool' = pool /\ n_current_conns' = n_current_conns
      BY <1>5, ZenonT(120) DEF PreCheck
    <2>2. Held' = Held
      BY <1>1, <1>5, <2>1, ResultsHeld, ZenonT(120) DEF Getting
    <2>3. Coming' = Coming
      BY <1>5, <2>1, CallersGo, ComingChanges, ZenonT(120) DEF Outside
    <2>4. QED
      BY <1>1, <2>1, <2>2, <2>3, PooledSame, ConnsSame, ZenonT(120)
  <1>6. ASSUME n_current_conns' = n_current_conns, UNCHANGED <<pool, connstatus>>, pc[w] # "retract",
               \A u \in Workers : u # w => pc'[u] = pc[u] /\ result'[u] = result[u],
               pc'[w] # "retract" \/ result'[w] # "conn"
        PROVE  ConnsInv'
    <2>1. Held' = Held
      BY <1>6, ZenonT(120) DEF Held
    <2>2. Coming' = Coming
      BY <1>6, ZenonT(120) DEF Coming
    <2>3. QED
      BY <1>1, <1>6, <2>1, <2>2, PooledSame, ConnsSame, ZenonT(120)
  <1>7. CASE ReadConns(w) \/ add_conn_intent(w) \/ Recheck(w) \/ CreateFails(w) \/ (PreCheck(w) /\ ~LimitReached(w))
    <2>1. n_current_conns' = n_current_conns /\ UNCHANGED <<pool, connstatus>> /\ pc[w] # "retract"
      BY <1>7, ZenonT(120) DEF ReadConns, add_conn_intent, Recheck, CreateFails, PreCheck, endpoint
    <2>2. /\ \A u \in Workers : u # w => pc'[u] = pc[u] /\ result'[u] = result[u]
          /\ pc'[w] # "retract" \/ result'[w] # "conn"
      BY <1>1, <1>7, ZenonT(120) DEF ReadConns, add_conn_intent, Recheck, CreateFails, PreCheck, GoTo, FunTypes
    <2>3. QED
      BY <1>6, <2>1, <2>2, ZenonT(120)
  <1>8. CASE Create(w)
    <2>1. /\ n_current_conns' = n_current_conns + 1 /\ UNCHANGED <<pool, connstatus>> /\ pc[w] = "create"
          /\ pc'[w] = "retract" /\ result'[w] = "conn"
          /\ \A u \in Workers : u # w => pc'[u] = pc[u] /\ result'[u] = result[u]
      BY <1>1, <1>8, ZenonT(120) DEF Create, GoTo, FunTypes, endpoint
    <2>2. w \notin Coming /\ Coming' = Coming \union {w}
      BY <2>1, ZenonT(120) DEF Coming
    <2>3. Cardinality(Coming') = Cardinality(Coming) + 1
      BY <2>2, ConnSetsFinite, FS_AddElement, ZenonT(120)
    <2>4. Held' = Held /\ Pooled' = Pooled
      BY <2>1, ZenonT(120) DEF Held, Pooled
    <2>5. QED
      BY <1>2, <2>1, <2>3, <2>4, SMTT(120) DEF ConnsInv
  <1>9. CASE remove_conn_intent(w)
    <2>1. pc[w] = "retract" /\ pool' = pool /\ n_current_conns' = n_current_conns /\ pc[w] \in Getting
      BY <1>9, ZenonT(120) DEF remove_conn_intent, Getting
    <2>2. Goes(w)
      BY <1>9, CallersGo, ZenonT(120) DEF remove_conn_intent
    <2>3. CASE result[w] = "conn"
      <3>1. Cardinality(Held') = Cardinality(Held) + 1
        BY <1>1, <1>9, <2>1, <2>3, ResultsHeld, ZenonT(120) DEF remove_conn_intent
      <3>2. Cardinality(Coming') = Cardinality(Coming) - 1
        BY <2>1, <2>2, <2>3, ComingChanges, ZenonT(120)
      <3>3. Pooled' = Pooled
        BY <2>1, PooledSame, ZenonT(120)
      <3>4. QED
        BY <1>2, <2>1, <3>1, <3>2, <3>3, SMTT(120) DEF ConnsInv
    <2>4. CASE result[w] # "conn"
      <3>1. Held' = Held
        BY <1>1, <1>9, <2>1, <2>4, ResultsHeld, ZenonT(120) DEF remove_conn_intent
      <3>2. Coming' = Coming
        BY <2>2, <2>4, ComingChanges, ZenonT(120)
      <3>3. QED
        BY <1>1, <2>1, <3>1, <3>2, PooledSame, ConnsSame, ZenonT(120)
    <2>5. QED
      BY <2>3, <2>4, ZenonT(120)
  <1>10. CASE handle_failed_continue(w)
    <2>1. /\ pc[w] = "failed" /\ n_current_conns' = n_current_conns - 1 /\ pool' = pool
          /\ StatusGets(ep[w], "NO_CONN") /\ EraseFirst(w, TRUE)
      BY <1>10, ZenonT(120) DEF handle_failed_continue, remove_connection, Closed, StatusGets
    <2>2. ep[w] \in Endpoints /\ connstatus[ep[w]] \in HasConn /\ "NO_CONN" \notin HasConn
      BY <1>1, <2>1, ZenonT(120) DEF PlaceInv, HasConn
    <2>3. Cardinality(Held') = Cardinality(Held) - 1
      BY <1>1, <2>1, <2>2, HeldChanges, ZenonT(120)
    <2>4. Coming' = Coming
      BY <2>1, MovesGo, ComingChanges, ZenonT(120) DEF Outside
    <2>5. Pooled' = Pooled
      BY <2>1, PooledSame, ZenonT(120)
    <2>6. QED
      BY <1>2, <2>1, <2>3, <2>4, <2>5, SMTT(120) DEF ConnsInv
  <1>11. QED
    BY <1>3, <1>4, <1>5, <1>7, <1>8, <1>9, <1>10, ZenonT(120) DEF GetConnection

LEMMA SessionConns ==
    ASSUME QInv, CounterTypes, NEW e \in Endpoints, SessionEvent(e)
    PROVE  ConnsInv'
  <1> DEFINE w == home[e]
  <1>1. FunTypes /\ ConnsInv /\ w \in Workers
    BY SetsAssumption, ZenonT(120) DEF QInv
  <1>2. /\ Cardinality(Held) \in Nat /\ Cardinality(Pooled) \in Nat /\ Cardinality(Coming) \in Nat
        /\ n_current_conns = Cardinality(Held) + Cardinality(Pooled) + Cardinality(Coming)
    BY <1>1, ConnSetsFinite, ZenonT(120) DEF ConnsInv
  <1>3. pc[w] = "idle" /\ pc[w] \in Outside
    BY ZenonT(120) DEF SessionEvent, Open, routeQuery, ConnectionReady, clientReply, try_to_pool,
                      NothingToPool, Close, Idle, Outside
  <1>4. UNCHANGED worker => Coming' = Coming
    BY ZenonT(120) DEF Coming, worker
  <1>5. \A why : get_backend_connection(w, e, why) => Coming' = Coming
    BY <1>1, <1>3, MovesGo, ComingChanges, ZenonT(120)
  <1>6. CASE Open(e) \/ routeQuery(e) \/ ConnectionReady(e) \/ clientReply(e) \/ NothingToPool(e)
    <2>1. /\ UNCHANGED <<pool, connstatus, n_current_conns>>
          /\ UNCHANGED worker \/ \E why : get_backend_connection(w, e, why)
      BY <1>6, ZenonT(120) DEF Open, routeQuery, RouteConnected, RoutePooled, RouteWaiting, ConnectionReady,
                              clientReply, NothingToPool
    <2>2. Held' = Held
      BY <2>1, ZenonT(120) DEF Held
    <2>3. QED
      BY <1>1, <1>4, <1>5, <2>1, <2>2, PooledSame, ConnsSame, ZenonT(120)
  <1>7. kind[e] \in Kinds
    BY <1>1, SetsAssumption, SMTT(120) DEF FunTypes
  <1>8. /\ "IDLE_POOLED" \notin HasConn /\ "NO_CONN" \notin HasConn /\ "CONNECTED" \in HasConn
        /\ "WAITING_FOR_CONN" \notin HasConn
    BY ZenonT(120) DEF HasConn
  <1>9. CASE try_to_pool(e)
    <2>1. /\ has_space(w) /\ pool' = [pool EXCEPT ![w] = Append(@, kind[e])]
          /\ connstatus[e] = "CONNECTED" /\ StatusGets(e, "IDLE_POOLED")
          /\ UNCHANGED <<worker, n_current_conns>>
      BY <1>9, ZenonT(120) DEF try_to_pool, StatusGets
    <2>2. Cardinality(Pooled') = Cardinality(Pooled) + 1
      BY <1>1, <1>7, <2>1, PooledMore, ZenonT(120)
    <2>3. Cardinality(Held') = Cardinality(Held) - 1
      BY <1>1, <1>8, <2>1, HeldChanges, ZenonT(120)
    <2>4. QED
      BY <1>2, <1>4, <2>1, <2>2, <2>3, SMTT(120) DEF ConnsInv
  <1>10. CASE Close(e)
    <2>1. StatusGets(e, "NO_CONN") /\ UNCHANGED worker
      BY <1>10, ZenonT(120) DEF Close, Closed, StatusGets
    <2>2. CASE \E quit \in BOOLEAN : CloseConnected(e, quit)
      <3>1. /\ connstatus[e] = "CONNECTED"
            /\ \/ /\ has_space(w) /\ pool' = [pool EXCEPT ![w] = Append(@, kind[e])]
                  /\ n_current_conns' = n_current_conns
               \/ pool' = pool /\ n_current_conns' = n_current_conns - 1
        BY <2>2, ZenonT(120) DEF CloseConnected, remove_connection
      <3>2. Cardinality(Held') = Cardinality(Held) - 1
        BY <1>1, <1>8, <2>1, <3>1, HeldChanges, ZenonT(120)
      <3>3. CASE /\ has_space(w) /\ pool' = [pool EXCEPT ![w] = Append(@, kind[e])]
                 /\ n_current_conns' = n_current_conns
        <4>1. Cardinality(Pooled') = Cardinality(Pooled) + 1
          BY <1>1, <1>7, <3>3, PooledMore, ZenonT(120)
        <4>2. QED
          BY <1>2, <1>4, <2>1, <3>2, <3>3, <4>1, SMTT(120) DEF ConnsInv
      <3>4. CASE pool' = pool /\ n_current_conns' = n_current_conns - 1
        <4>1. Pooled' = Pooled
          BY <3>4, PooledSame, ZenonT(120)
        <4>2. QED
          BY <1>2, <1>4, <2>1, <3>2, <3>4, <4>1, SMTT(120) DEF ConnsInv
      <3>5. QED
        BY <3>1, <3>3, <3>4, ZenonT(120)
    <2>3. CASE CloseWaiting(e) \/ ClosePooled(e)
      <3>1. connstatus[e] \notin HasConn /\ UNCHANGED <<n_current_conns, pool>>
        BY <1>8, <2>3, ZenonT(120) DEF CloseWaiting, ClosePooled
      <3>2. Held' = Held
        BY <1>1, <1>8, <2>1, <3>1, HeldChanges, ZenonT(120)
      <3>3. QED
        BY <1>1, <1>4, <2>1, <3>1, <3>2, PooledSame, ConnsSame, ZenonT(120)
    <2>4. QED
      BY <1>10, <2>2, <2>3, ZenonT(120) DEF Close
  <1>11. QED
    BY <1>6, <1>9, <1>10, ZenonT(120) DEF SessionEvent

LEMMA WorkerConns ==
    ASSUME QInv, CounterTypes, NEW w \in Workers, WorkerEvent(w)
    PROVE  ConnsInv'
  <1>1. FunTypes /\ QueueInv(w) /\ PoolInv(w) /\ ConnsInv
    BY ZenonT(120) DEF QInv, WorkerInv
  <1>2. /\ Cardinality(Held) \in Nat /\ Cardinality(Pooled) \in Nat /\ Cardinality(Coming) \in Nat
        /\ n_current_conns = Cardinality(Held) + Cardinality(Pooled) + Cardinality(Coming)
    BY <1>1, ConnSetsFinite, ZenonT(120) DEF ConnsInv
  <1>3. UNCHANGED worker => Coming' = Coming
    BY ZenonT(120) DEF Coming, worker
  <1>4. CASE close_pooled_dcb(w)
    <2>1. PICK i \in DOMAIN pool[w] : pool' = [pool EXCEPT ![w] = WithoutPlace(@, i)]
      BY <1>4, ZenonT(120) DEF close_pooled_dcb
    <2>2. Cardinality(Pooled') = Cardinality(Pooled) - 1
      BY <1>1, <2>1, PooledLess, ZenonT(120)
    <2>3. n_current_conns' = n_current_conns - 1 /\ UNCHANGED <<worker, connstatus>>
      BY <1>4, ZenonT(120) DEF close_pooled_dcb, remove_connection, endpoint
    <2>4. Held' = Held
      BY <2>3, ZenonT(120) DEF Held
    <2>5. QED
      BY <1>2, <1>3, <2>2, <2>3, <2>4, SMTT(120) DEF ConnsInv
  <1>5. CASE Activate(w) \/ ActivateTimer(w) \/ PostFails(w)
    <2>1. UNCHANGED <<pool, connstatus, n_current_conns>>
      BY <1>5, ZenonT(120) DEF Activate, ActivateTimer, PostFails, endpoint
    <2>2. Held' = Held
      BY <2>1, ZenonT(120) DEF Held
    <2>3. UNCHANGED worker \/ (pc[w] = "idle" /\ Goes(w))
      BY <1>5, MovesGo, ZenonT(120) DEF Activate, ActivateTimer, PostFails, activate_waiting_endpoints, Idle
    <2>4. Coming' = Coming
      BY <1>3, <2>3, ComingChanges, ZenonT(120) DEF Outside
    <2>5. QED
      BY <1>1, <2>1, <2>2, <2>4, PooledSame, ConnsSame, ZenonT(120)
  <1>6. CASE fail_timed_out_endpoints(w)
    <2>1. /\ pc[w] = "idle" /\ waiting[w] # <<>> /\ StatusGets(Head(waiting[w]), "NO_CONN")
          /\ UNCHANGED <<worker, pool, n_current_conns>>
      BY <1>6, ZenonT(120) DEF fail_timed_out_endpoints, Closed, StatusGets, Idle
    <2>2. Head(waiting[w]) \in Endpoints /\ connstatus[Head(waiting[w])] = "WAITING_FOR_CONN"
      <3>1. waiting[w] \in Seq(Endpoints)
        BY <1>1, ZenonT(120) DEF FunTypes
      <3>2. Head(waiting[w]) = waiting[w][1] /\ waiting[w][1] \in Endpoints /\ 1 \in DOMAIN waiting[w]
        BY <2>1, <3>1, SMTT(120)
      <3>3. QED
        BY <1>1, <2>1, <3>2, SMTT(120) DEF QueueInv
    <2>3. Held' = Held
      <3>1. "NO_CONN" \notin HasConn /\ "WAITING_FOR_CONN" \notin HasConn
        BY ZenonT(120) DEF HasConn
      <3>2. QED
        BY <1>1, <2>1, <2>2, <3>1, HeldChanges, ZenonT(120)
    <2>4. QED
      BY <1>1, <1>3, <2>1, <2>3, PooledSame, ConnsSame, ZenonT(120)
  <1>7. QED
    BY <1>4, <1>5, <1>6, ZenonT(120) DEF WorkerEvent
=============================================================================
