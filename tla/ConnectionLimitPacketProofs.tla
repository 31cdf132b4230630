-------------------- MODULE ConnectionLimitPacketProofs ---------------------
(***************************************************************************)
(* A step changes the packets of at most one session, which stay in order, *)
(* and of the workers only its own.                                        *)
(***************************************************************************)
EXTENDS ConnectionLimitInvariant, SequenceTheorems, TLAPS

(* The sessions of other workers keep their invariant. *)
LEMMA OtherSessions ==
    ASSUME NEW e \in Endpoints, PacketInv(e), SameSession(e), SameWorker(home[e])
    PROVE  PacketInv(e)'
  BY ZenonT(120) DEF PacketInv, SameSession, SameWorker, Routing

LEMMA NumbersNext ==
    ASSUME NEW n \in Nat
    PROVE  /\ Numbers(n) \in Seq(Int) /\ Len(Numbers(n)) = n
           /\ Append(Numbers(n), n + 1) = Numbers(n + 1)
           /\ Numbers(0) = <<>>
  <1>1. Numbers(n) \in Seq(Int) /\ Len(Numbers(n)) = n
    BY SMTT(120) DEF Numbers
  <1>2. Numbers(n + 1) \in Seq(Int) /\ Len(Numbers(n + 1)) = n + 1
    BY SMTT(120) DEF Numbers
  <1>3. ASSUME NEW i \in 1..n + 1 PROVE Append(Numbers(n), n + 1)[i] = Numbers(n + 1)[i]
    <2>1. i \in 1..n \/ i = n + 1
      BY SMTT(120)
    <2>2. QED
      BY <1>1, <2>1, SMTT(120) DEF Numbers
  <1>4. Append(Numbers(n), n + 1) \in Seq(Int) /\ Len(Append(Numbers(n), n + 1)) = n + 1
    BY <1>1, SMTT(120)
  <1>5. Append(Numbers(n), n + 1) = Numbers(n + 1)
    BY <1>2, <1>3, <1>4, SeqEqual, ZenonT(120)
  <1>6. Numbers(0) = <<>>
    BY SMTT(120) DEF Numbers
  <1>7. QED
    BY <1>1, <1>5, <1>6, ZenonT(120)

LEMMA AppendToConcat ==
    ASSUME NEW s \in Seq(Int), NEW t \in Seq(Int), NEW x \in Int
    PROVE  Append(s \o t, x) = s \o Append(t, x)
  <1> DEFINE a == Append(s \o t, x)
             b == s \o Append(t, x)
  <1>1. a \in Seq(Int) /\ b \in Seq(Int)
    BY SMTT(120)
  <1>2. Len(a) = Len(s) + Len(t) + 1 /\ Len(b) = Len(s) + Len(t) + 1
    BY SMTT(120)
  <1>3. ASSUME NEW i \in 1..Len(s) + Len(t) + 1 PROVE a[i] = b[i]
    <2>1. Len(s) \in Nat /\ Len(t) \in Nat
      BY SMTT(120)
    <2>2. i \in 1..Len(s) \/ i \in Len(s) + 1..Len(s) + Len(t) \/ i = Len(s) + Len(t) + 1
      BY <2>1, SMTT(120)
    <2>3. QED
      BY <2>2, SMTT(120)
  <1> HIDE DEF a, b
  <1>4. a = b
    BY <1>1, <1>2, <1>3, SeqEqual, ZenonT(120)
  <1>5. QED
    BY <1>4, ZenonT(120) DEF a, b

(* The packets of a session are all in sequences of numbers. *)
LEMMA PacketTypes ==
    ASSUME FunTypes, NEW e \in Endpoints
    PROVE  /\ sent[e] \in Seq(Int) /\ delayed[e] \in Seq(Int)
           /\ routed[e] \in Nat /\ outstanding[e] \in Int
           /\ sent[e] \o <<>> = sent[e]
           /\ Len(sent[e] \o delayed[e]) = Len(sent[e]) + Len(delayed[e])
           /\ \A n \in Int : Append(sent[e] \o delayed[e], n) = sent[e] \o Append(delayed[e], n)
  <1>1. sent[e] \in Seq(1..MaxQueries) /\ delayed[e] \in Seq(1..MaxQueries) /\ routed[e] \in 0..MaxQueries
    BY ZenonT(120) DEF FunTypes
  <1>2. sent[e] \in Seq(Int) /\ delayed[e] \in Seq(Int)
    <2>1. 1..MaxQueries \subseteq Int
      BY SMTT(120)
    <2>2. QED
      BY <1>1, <2>1, SeqMonotonic, ZenonT(120)
  <1>3. routed[e] \in Nat /\ outstanding[e] \in Int
    BY <1>1, SizesAssumption, SMTT(120) DEF FunTypes
  <1>4. sent[e] \o <<>> = sent[e] /\ Len(sent[e] \o delayed[e]) = Len(sent[e]) + Len(delayed[e])
    BY <1>2, SMTT(120)
  <1>5. ASSUME NEW n \in Int PROVE Append(sent[e] \o delayed[e], n) = sent[e] \o Append(delayed[e], n)
    BY <1>2, AppendToConcat, ZenonT(120)
  <1>6. QED
    BY <1>2, <1>3, <1>4, <1>5, ZenonT(120)

LEMMA SentNow ==
    ASSUME FunTypes, NEW e \in Endpoints, PacketInv(e), ~Reopen,
           connstatus[e] \notin {"WAITING_FOR_CONN", "CONNECTED_FAILED"}
    PROVE  /\ delayed[e] = <<>>
           /\ sent[e] = Numbers(IF Routing(e) THEN routed[e] - 1 ELSE routed[e])
  <1>1. delayed[e] = <<>>
    BY ZenonT(120) DEF PacketInv
  <1>2. sent[e] \o <<>> = Numbers(IF Routing(e) THEN routed[e] - 1 ELSE routed[e])
    BY <1>1, ZenonT(120) DEF PacketInv
  <1>3. QED
    BY <1>1, <1>2, PacketTypes, ZenonT(120)

LEMMA ClosedPackets ==
    ASSUME FunTypes, NEW e \in Endpoints, Closed(e), ~Routing(e)'
    PROVE  PacketInv(e)'
  <1>1. /\ outstanding'[e] = 0 /\ routed'[e] = 0 /\ sent'[e] = <<>>
        /\ ~Reopen => delayed'[e] = <<>>
    BY ZenonT(120) DEF Closed, FunTypes
  <1>2. <<>> \o <<>> = Numbers(0)
    BY NumbersNext, SMTT(120)
  <1>3. 0 \in 0..0
    BY SMTT(120)
  <1>4. QED
    BY <1>1, <1>2, <1>3, ZenonT(120) DEF PacketInv

(* The endpoint has got a connection for what it has routed. *)
LEMMA ConnectedPackets ==
    ASSUME FunTypes, NEW w \in Workers, PlaceInv(w), pc[w] \in Getting,
           NEW e \in Endpoints, e = ep[w], PacketInv(e), Connected(w)
    PROVE  PacketInv(e)' /\ (pc'[w] = "idle" \/ caller'[w] # "route")
  <1> DEFINE unsent == CASE caller[w] = "connect" -> <<>>
                         [] caller[w] = "route" -> <<routed[e]>>
                         [] caller[w] = "continue" -> delayed[e]
  <1>1. home[e] = w /\ connstatus[e] = CallerStatus(caller[w]) /\ pc[w] # "idle"
    BY ZenonT(120) DEF PlaceInv, Getting
  <1>2. caller[w] \in {"connect", "route", "continue"}
    BY ZenonT(120) DEF FunTypes
  <1>3. /\ connstatus'[e] = "CONNECTED" /\ sent'[e] = sent[e] \o unsent
        /\ outstanding'[e] = Len(unsent) /\ routed'[e] = routed[e]
    BY <1>1, ZenonT(120) DEF Connected, FunTypes
  <1>4. /\ caller[w] = "connect" => unsent = <<>>
        /\ caller[w] = "route" => unsent = <<routed[e]>>
        /\ caller[w] = "continue" => unsent = delayed[e]
    BY ZenonT(120)
  <1> HIDE DEF unsent
  <1>5. pc'[w] = "idle" \/ caller'[w] # "route"
    <2>1. CASE caller[w] = "continue"
      <3>1. EraseFirst(w, scheduled[w])
        BY <2>1, ZenonT(120) DEF Connected
      <3>2. QED
        BY <3>1, ZenonT(120) DEF EraseFirst, ActivationEnds, Return, get_backend_connection, FunTypes
    <2>2. CASE caller[w] # "continue"
      <3>1. Return(w)
        BY <2>2, ZenonT(120) DEF Connected
      <3>2. QED
        BY <3>1, ZenonT(120) DEF Return, FunTypes
    <2>3. QED
      BY <2>1, <2>2, ZenonT(120)
  <1>6. ~Routing(e)'
    BY <1>1, <1>5, ZenonT(120) DEF Routing
  <1>7. ASSUME ~Reopen
        PROVE  /\ Len(unsent) \in 0..routed[e] /\ delayed'[e] = <<>>
               /\ sent[e] \o unsent = Numbers(routed[e])
    <2>1. /\ sent[e] \in Seq(Int) /\ routed[e] \in Nat /\ sent[e] \o <<>> = sent[e]
          /\ Len(sent[e] \o delayed[e]) = Len(sent[e]) + Len(delayed[e])
          /\ delayed[e] \in Seq(Int)
      BY PacketTypes, ZenonT(120)
    <2>2. CASE caller[w] = "connect"
      <3>1. unsent = <<>> /\ connstatus[e] = "NO_CONN" /\ ~Routing(e)
        <4>1. unsent = <<>>
          BY <1>4, <2>2, ZenonT(120)
        <4>2. connstatus[e] = "NO_CONN"
          BY <1>1, <2>2, ZenonT(120) DEF CallerStatus
        <4>3. ~Routing(e)
          BY <1>1, <2>2, ZenonT(120) DEF Routing
        <4>4. QED
          BY <4>1, <4>2, <4>3, ZenonT(120)
      <3>2. delayed[e] = <<>> /\ sent[e] = Numbers(routed[e])
        BY <1>1, <1>7, <3>1, SentNow, ZenonT(120)
      <3>3. delayed'[e] = delayed[e]
        BY <2>2, ZenonT(120) DEF Connected
      <3>4. Len(unsent) \in 0..routed[e]
        <4>1. Len(unsent) = 0
          BY <3>1, ZenonT(120)
        <4>2. QED
          BY <2>1, <4>1, SMTT(120)
      <3>5. QED
        BY <2>1, <3>1, <3>2, <3>3, <3>4, ZenonT(120)
    <2>3. CASE caller[w] = "route"
      <3>1. unsent = <<routed[e]>> /\ connstatus[e] = "IDLE_POOLED" /\ Routing(e)
        <4>1. unsent = <<routed[e]>>
          BY <1>4, <2>3, ZenonT(120)
        <4>2. connstatus[e] = "IDLE_POOLED"
          BY <1>1, <2>3, ZenonT(120) DEF CallerStatus
        <4>3. Routing(e)
          BY <1>1, <2>3, ZenonT(120) DEF Routing
        <4>4. QED
          BY <4>1, <4>2, <4>3, ZenonT(120)
      <3>2. delayed[e] = <<>> /\ sent[e] = Numbers(routed[e] - 1)
        BY <1>1, <1>7, <3>1, SentNow, ZenonT(120)
      <3>3. delayed'[e] = delayed[e]
        BY <2>3, ZenonT(120) DEF Connected
      <3>4. routed[e] > 0
        BY <3>1, ZenonT(120) DEF PacketInv
      <3>5. routed[e] - 1 \in Nat /\ (routed[e] - 1) + 1 = routed[e]
        BY <2>1, <3>4, SMTT(120)
      <3>6. Append(sent[e], routed[e]) = Numbers(routed[e])
        BY <3>2, <3>5, NumbersNext, ZenonT(120)
      <3>7. sent[e] \o <<routed[e]>> = Append(sent[e], routed[e])
        BY <2>1, AppendIsConcat, SMTT(120)
      <3>8. Len(<<routed[e]>>) \in 0..routed[e]
        BY <2>1, <3>4, SMTT(120)
      <3>9. QED
        BY <3>1, <3>2, <3>3, <3>6, <3>7, <3>8, ZenonT(120)
    <2>4. CASE caller[w] = "continue"
      <3>1. unsent = delayed[e] /\ connstatus[e] = "WAITING_FOR_CONN" /\ ~Routing(e)
        <4>1. unsent = delayed[e]
          BY <1>4, <2>4, ZenonT(120)
        <4>2. connstatus[e] = "WAITING_FOR_CONN"
          BY <1>1, <2>4, ZenonT(120) DEF CallerStatus
        <4>3. ~Routing(e)
          BY <1>1, <2>4, ZenonT(120) DEF Routing
        <4>4. QED
          BY <4>1, <4>2, <4>3, ZenonT(120)
      <3>2. sent[e] \o delayed[e] = Numbers(routed[e])
        BY <1>7, <3>1, ZenonT(120) DEF PacketInv
      <3>3. delayed'[e] = <<>>
        BY <1>1, <2>4, ZenonT(120) DEF Connected, FunTypes
      <3>4. Len(delayed[e]) \in 0..routed[e]
        <4>1. Len(Numbers(routed[e])) = routed[e]
          BY <2>1, NumbersNext, ZenonT(120)
        <4>2. Len(sent[e]) + Len(delayed[e]) = routed[e]
          BY <2>1, <3>2, <4>1, ZenonT(120)
        <4>3. Len(sent[e]) \in Nat /\ Len(delayed[e]) \in Nat
          BY <2>1, SMTT(120)
        <4>4. \A x, y \in Nat : y \in 0..x + y
          BY SMTT(120)
        <4>5. Len(delayed[e]) \in 0..Len(sent[e]) + Len(delayed[e])
          BY <4>3, <4>4, ZenonT(120)
        <4>6. QED
          BY <4>2, <4>5, ZenonT(120)
      <3>5. QED
        BY <3>1, <3>2, <3>3, <3>4, ZenonT(120)
    <2>5. QED
      BY <1>2, <2>2, <2>3, <2>4, ZenonT(120)
  <1>8. ~Reopen => sent'[e] \o delayed'[e] = Numbers(routed[e])
    <2>1. SUFFICES ASSUME ~Reopen PROVE sent'[e] \o delayed'[e] = Numbers(routed[e])
      BY ZenonT(120)
    <2>2. routed[e] \in Nat /\ sent'[e] = Numbers(routed[e]) /\ delayed'[e] = <<>>
      BY <1>1, <1>3, <1>7, <2>1, PacketTypes, ZenonT(120)
    <2>3. QED
      BY <2>2, NumbersNext, ConcatEmptySeq, ZenonT(120)
  <1>9. PacketInv(e)'
    BY <1>3, <1>6, <1>7, <1>8, ZenonT(120) DEF PacketInv
  <1>10. QED
    BY <1>5, <1>9, ZenonT(120)

(* A failed write: what was delayed is gone, and the endpoint soon too. *)
LEMMA WriteFailsPackets ==
    ASSUME FunTypes, NEW w \in Workers, PlaceInv(w), pc[w] \in Getting,
           NEW e \in Endpoints, e = ep[w], PacketInv(e), WriteFails(w)
    PROVE  PacketInv(e)' /\ caller'[w] = "continue"
  <1>1. home[e] = w
    BY ZenonT(120) DEF PlaceInv, Getting
  <1>2. caller'[w] = "continue"
    BY ZenonT(120) DEF WriteFails, GoTo
  <1>3. ~Routing(e)'
    BY <1>1, <1>2, ZenonT(120) DEF Routing
  <1>4. /\ connstatus'[e] = "CONNECTED_FAILED" /\ delayed'[e] = <<>>
        /\ outstanding'[e] = outstanding[e] /\ routed'[e] = routed[e]
    BY <1>1, ZenonT(120) DEF WriteFails, FunTypes
  <1>5. PacketInv(e)'
    BY <1>3, <1>4, ZenonT(120) DEF PacketInv
  <1>6. QED
    BY <1>2, <1>5, ZenonT(120)

(* The limit is reached: the query that was routed is delayed. *)
LEMMA LimitReachedPackets ==
    ASSUME FunTypes, NEW w \in Workers, PlaceInv(w), pc[w] \in Getting,
           NEW e \in Endpoints, e = ep[w], PacketInv(e), LimitReached(w)
    PROVE  PacketInv(e)' /\ pc'[w] = "idle"
  <1>1. home[e] = w /\ connstatus[e] = CallerStatus(caller[w]) /\ pc[w] # "idle"
    BY ZenonT(120) DEF PlaceInv, Getting
  <1>2. pc'[w] = "idle"
    BY ZenonT(120) DEF LimitReached, ActivationEnds, Return, FunTypes
  <1>3. ~Routing(e)'
    BY <1>1, <1>2, ZenonT(120) DEF Routing
  <1>4. CASE caller[w] # "continue" /\ e \in Sharing
    <2>1. /\ connstatus'[e] = "WAITING_FOR_CONN"
          /\ delayed' = IF caller[w] = "route" THEN [delayed EXCEPT ![e] = Append(@, routed[e])] ELSE delayed
          /\ UNCHANGED <<outstanding, routed, sent>>
      BY <1>4, ZenonT(120) DEF LimitReached, FunTypes
    <2>2. ASSUME ~Reopen PROVE sent'[e] \o delayed'[e] = Numbers(routed'[e])
      <3>1. connstatus[e] \notin {"WAITING_FOR_CONN", "CONNECTED_FAILED"}
        BY <1>1, <1>4, ZenonT(120) DEF CallerStatus, FunTypes
      <3>2. delayed[e] = <<>> /\ sent[e] = Numbers(IF Routing(e) THEN routed[e] - 1 ELSE routed[e])
        BY <2>2, <3>1, SentNow, ZenonT(120)
      <3>3. /\ sent[e] \in Seq(Int) /\ routed[e] \in Nat /\ sent[e] \o <<>> = sent[e]
            /\ Append(sent[e] \o delayed[e], routed[e]) = sent[e] \o Append(delayed[e], routed[e])
        <4>1. routed[e] \in Nat
          BY PacketTypes, ZenonT(120)
        <4>2. routed[e] \in Int
          BY <4>1, SMTT(120)
        <4>3. QED
          BY <4>1, <4>2, PacketTypes, ZenonT(120)
      <3>4. CASE caller[w] = "route"
        <4>1. Routing(e) /\ routed[e] > 0
          BY <1>1, <3>4, ZenonT(120) DEF Routing, PacketInv
        <4>2. routed[e] - 1 \in Nat /\ (routed[e] - 1) + 1 = routed[e]
          BY <3>3, <4>1, SMTT(120)
        <4>3. Append(sent[e], routed[e]) = Numbers(routed[e])
          BY <3>2, <4>1, <4>2, NumbersNext, ZenonT(120)
        <4>4. delayed'[e] = Append(delayed[e], routed[e])
          BY <2>1, <3>4, ZenonT(120) DEF FunTypes
        <4>5. QED
          BY <2>1, <3>2, <3>3, <4>3, <4>4, ZenonT(120)
      <3>5. CASE caller[w] # "route"
        <4>1. ~Routing(e)
          BY <1>1, <3>5, ZenonT(120) DEF Routing
        <4>2. delayed' = delayed
          BY <2>1, <3>5, ZenonT(120)
        <4>3. QED
          BY <2>1, <3>2, <3>3, <4>1, <4>2, ZenonT(120)
      <3>6. QED
        BY <3>4, <3>5, ZenonT(120)
    <2>3. PacketInv(e)'
      BY <1>3, <2>1, <2>2, ZenonT(120) DEF PacketInv
    <2>4. QED
      BY <1>2, <2>3, ZenonT(120)
  <1>5. CASE caller[w] # "continue" /\ e \notin Sharing
    <2>1. Closed(e)
      BY <1>5, ZenonT(120) DEF LimitReached
    <2>2. QED
      BY <1>2, <1>3, <2>1, ClosedPackets, ZenonT(120)
  <1>6. CASE caller[w] = "continue"
    <2>1. UNCHANGED <<connstatus, outstanding, delayed, sent, routed>>
      BY <1>6, ZenonT(120) DEF LimitReached, endpoint, packets
    <2>2. ~Routing(e)
      BY <1>1, <1>6, ZenonT(120) DEF Routing
    <2>3. PacketInv(e)'
      BY <1>3, <2>1, <2>2, ZenonT(120) DEF PacketInv
    <2>4. QED
      BY <1>2, <2>3, ZenonT(120)
  <1>7. QED
    BY <1>4, <1>5, <1>6, ZenonT(120)

(* A step of w that is for e, or leaves w where it is, keeps the packets   *)
(* of the other sessions.                                                  *)
LEMMA OtherPackets ==
    ASSUME NEW w \in Workers, NEW e \in Endpoints, Only(w, e),
           \/ SameWorker(w)
           \/ /\ pc[w] = "idle" \/ ep[w] = e
              /\ pc'[w] = "idle" \/ ep'[w] = e \/ caller'[w] # "route",
           NEW f \in Endpoints, f # e, PacketInv(f)
    PROVE  PacketInv(f)'
  <1>1. SameSession(f)
    BY ZenonT(120) DEF Only
  <1>2. CASE home[f] # w \/ SameWorker(w)
    <2>1. SameWorker(home[f])
      BY <1>2, SetsAssumption, ZenonT(120) DEF Only
    <2>2. QED
      BY <1>1, <2>1, OtherSessions, ZenonT(120)
  <1>3. CASE /\ home[f] = w /\ (pc[w] = "idle" \/ ep[w] = e)
             /\ pc'[w] = "idle" \/ ep'[w] = e \/ caller'[w] # "route"
    <2>1. ~Routing(f) /\ ~Routing(f)'
      BY <1>3, ZenonT(120) DEF Routing
    <2>2. QED
      BY <1>1, <2>1, ZenonT(120) DEF PacketInv, SameSession
  <1>4. QED
    BY <1>2, <1>3, ZenonT(120)

LEMMA CallsAreLocal ==
    ASSUME FunTypes, NEW w \in Workers
    PROVE  /\ \A e, why : get_backend_connection(w, e, why) =>
                 \A u \in Workers : u # w => pc'[u] = pc[u] /\ ep'[u] = ep[u] /\ caller'[u] = caller[u]
           /\ Return(w) =>
                 \A u \in Workers : u # w => pc'[u] = pc[u] /\ ep'[u] = ep[u] /\ caller'[u] = caller[u]
           /\ \A flag : EraseFirst(w, flag) =>
                 \A u \in Workers : u # w => /\ pc'[u] = pc[u] /\ ep'[u] = ep[u] /\ caller'[u] = caller[u]
                                             /\ waiting'[u] = waiting[u] /\ scheduled'[u] = scheduled[u]
           /\ \A flag : EraseFirst(w, flag) => pc'[w] = "idle" \/ caller'[w] # "route"
  <1>1. \A e, why : get_backend_connection(w, e, why) =>
           \A u \in Workers : u # w => pc'[u] = pc[u] /\ ep'[u] = ep[u] /\ caller'[u] = caller[u]
    BY ZenonT(120) DEF get_backend_connection, FunTypes
  <1>2. Return(w) =>
           \A u \in Workers : u # w => pc'[u] = pc[u] /\ ep'[u] = ep[u] /\ caller'[u] = caller[u]
    BY ZenonT(120) DEF Return, FunTypes
  <1>3. ASSUME NEW flag, EraseFirst(w, flag)
        PROVE  /\ \A u \in Workers : u # w => /\ pc'[u] = pc[u] /\ ep'[u] = ep[u] /\ caller'[u] = caller[u]
                                              /\ waiting'[u] = waiting[u] /\ scheduled'[u] = scheduled[u]
               /\ pc'[w] = "idle" \/ caller'[w] # "route"
    <2>1. \A u \in Workers : u # w => waiting'[u] = waiting[u]
      BY <1>3, ZenonT(120) DEF EraseFirst, FunTypes
    <2>2. \A u \in Workers : u # w => scheduled'[u] = scheduled[u]
      BY <1>3, ZenonT(120) DEF EraseFirst, ActivationEnds, FunTypes
    <2>3. \A u \in Workers : u # w => pc'[u] = pc[u] /\ ep'[u] = ep[u] /\ caller'[u] = caller[u]
      BY <1>1, <1>2, <1>3, ZenonT(120) DEF EraseFirst, ActivationEnds
    <2>4. pc'[w] = "idle" \/ caller'[w] # "route"
      BY <1>3, ZenonT(120) DEF EraseFirst, ActivationEnds, Return, get_backend_connection, FunTypes
    <2>5. QED
      BY <2>1, <2>2, <2>3, <2>4, ZenonT(120)
  <1>4. QED
    BY <1>1, <1>2, <1>3, ZenonT(120)

LEMMA ClosedIsLocal ==
    ASSUME FunTypes, NEW e \in Endpoints, Closed(e)
    PROVE  \A f \in Endpoints : f # e => SameSession(f)
  BY ZenonT(120) DEF Closed, FunTypes, SameSession

LEMMA NotifyIsLocal ==
    ASSUME FunTypes, NEW w \in Workers, notify_connection_available(w)
    PROVE  \A u \in Workers : u # w => scheduled'[u] = scheduled[u]
  BY ZenonT(120) DEF notify_connection_available, FunTypes

(* The results of get_backend_connection. *)
LEMMA ResultsAreLocal ==
    ASSUME FunTypes, NEW w \in Workers, NEW e \in Endpoints, e = ep[w],
           Connected(w) \/ WriteFails(w) \/ LimitReached(w) \/ ConnectionFails(w),
           \A u \in Workers : u # w => pool'[u] = pool[u]
    PROVE  Only(w, e)
  <1>1. CASE Connected(w)
    <2>1. \A f \in Endpoints : f # e => SameSession(f)
      BY <1>1, ZenonT(120) DEF Connected, FunTypes, SameSession
    <2>2. \/ EraseFirst(w, scheduled[w])
          \/ Return(w) /\ waiting' = waiting /\ scheduled' = scheduled
      BY <1>1, ZenonT(120) DEF Connected, queues
    <2>3. \A u \in Workers : u # w => /\ pc'[u] = pc[u] /\ ep'[u] = ep[u] /\ caller'[u] = caller[u]
                                      /\ waiting'[u] = waiting[u] /\ scheduled'[u] = scheduled[u]
      BY <2>2, CallsAreLocal, ZenonT(120)
    <2>4. QED
      BY <2>1, <2>3, ZenonT(120) DEF Only, SameWorker
  <1>2. CASE WriteFails(w)
    <2>1. \A f \in Endpoints : f # e => SameSession(f)
      BY <1>2, ZenonT(120) DEF WriteFails, FunTypes, SameSession
    <2>2. QED
      BY <1>2, <2>1, ZenonT(120) DEF WriteFails, GoTo, queues, Only, SameWorker, FunTypes
  <1>3. CASE LimitReached(w)
    <2>1. \A f \in Endpoints : f # e => SameSession(f)
      BY <1>3, ClosedIsLocal, ZenonT(120) DEF LimitReached, FunTypes, SameSession, endpoint, packets
    <2>2. Return(w) /\ \A u \in Workers : u # w => waiting'[u] = waiting[u] /\ scheduled'[u] = scheduled[u]
      BY <1>3, ZenonT(120) DEF LimitReached, ActivationEnds, FunTypes
    <2>3. \A u \in Workers : u # w => /\ pc'[u] = pc[u] /\ ep'[u] = ep[u] /\ caller'[u] = caller[u]
                                      /\ waiting'[u] = waiting[u] /\ scheduled'[u] = scheduled[u]
      BY <2>2, CallsAreLocal, ZenonT(120)
    <2>4. QED
      BY <2>1, <2>3, ZenonT(120) DEF Only, SameWorker
  <1>4. CASE ConnectionFails(w)
    <2>1. \A f \in Endpoints : f # e => SameSession(f)
      BY <1>4, ClosedIsLocal, ZenonT(120) DEF ConnectionFails
    <2>2. \/ EraseFirst(w, scheduled[w])
          \/ Return(w) /\ waiting' = waiting /\ scheduled' = scheduled
      BY <1>4, ZenonT(120) DEF ConnectionFails
    <2>3. \A u \in Workers : u # w => /\ pc'[u] = pc[u] /\ ep'[u] = ep[u] /\ caller'[u] = caller[u]
                                      /\ waiting'[u] = waiting[u] /\ scheduled'[u] = scheduled[u]
      BY <2>2, CallsAreLocal, ZenonT(120)
    <2>4. QED
      BY <2>1, <2>3, ZenonT(120) DEF Only, SameWorker
  <1>5. QED
    BY <1>1, <1>2, <1>3, <1>4, ZenonT(120)

LEMMA GetConnectionPackets ==
    ASSUME QInv, NEW w \in Workers, GetConnection(w)
    PROVE  (\A f \in Endpoints : PacketInv(f)') /\ \E e \in Endpoints : home[e] = w /\ Only(w, e)
  <1>1. FunTypes /\ PlaceInv(w) /\ \A f \in Endpoints : PacketInv(f)
    BY ZenonT(120) DEF QInv, WorkerInv
  <1>2. pc[w] # "idle"
    BY ZenonT(120) DEF GetConnection, Reuse, ReuseFails, ReadConns, PreCheck, add_conn_intent, Recheck, Create,
           CreateFails, remove_conn_intent, handle_failed_continue
  <1>3. PICK e \in Endpoints : e = ep[w] /\ home[e] = w
    BY <1>1, <1>2, ZenonT(120) DEF PlaceInv
  <1>4. SUFFICES /\ PacketInv(e)' /\ Only(w, e)
                 /\ pc'[w] = "idle" \/ ep'[w] = e \/ caller'[w] # "route"
    BY <1>1, <1>3, OtherPackets, ZenonT(120)
  <1>5. ASSUME pc[w] \in Getting, \A u \in Workers : u # w => pool'[u] = pool[u],
               Connected(w) \/ WriteFails(w) \/ LimitReached(w) \/ ConnectionFails(w)
        PROVE  /\ PacketInv(e)' /\ Only(w, e)
               /\ pc'[w] = "idle" \/ ep'[w] = e \/ caller'[w] # "route"
    <2>1. Only(w, e)
      BY <1>1, <1>3, <1>5, ResultsAreLocal, ZenonT(120)
    <2>2. CASE Connected(w)
      BY <1>1, <1>3, <1>5, <2>1, <2>2, ConnectedPackets, ZenonT(120)
    <2>3. CASE WriteFails(w)
      BY <1>1, <1>3, <1>5, <2>1, <2>3, WriteFailsPackets, ZenonT(120)
    <2>4. CASE LimitReached(w)
      BY <1>1, <1>3, <1>5, <2>1, <2>4, LimitReachedPackets, ZenonT(120)
    <2>5. CASE ConnectionFails(w)
      <3>1. pc'[w] = "idle" \/ caller'[w] # "route"
        <4>1. EraseFirst(w, scheduled[w]) \/ Return(w)
          BY <2>5, ZenonT(120) DEF ConnectionFails
        <4>2. QED
          BY <1>1, <4>1, CallsAreLocal, ZenonT(120) DEF Return, FunTypes
      <3>2. ~Routing(e)'
        BY <1>3, <3>1, ZenonT(120) DEF Routing
      <3>3. Closed(e)
        BY <1>3, <2>5, ZenonT(120) DEF ConnectionFails
      <3>4. QED
        BY <1>1, <2>1, <3>1, <3>2, <3>3, ClosedPackets, ZenonT(120)
    <2>6. QED
      BY <1>5, <2>2, <2>3, <2>4, <2>5, ZenonT(120)
  <1>6. ASSUME pc'[w] # "idle", ep'[w] = ep[w], caller'[w] = caller[w],
               \A u \in Workers : u # w => SameWorker(u), UNCHANGED endpoint
        PROVE  /\ PacketInv(e)' /\ Only(w, e)
               /\ pc'[w] = "idle" \/ ep'[w] = e \/ caller'[w] # "route"
    <2>1. Routing(e)' = Routing(e)
      BY <1>2, <1>3, <1>6, ZenonT(120) DEF Routing
    <2>2. \A f \in Endpoints : SameSession(f)
      BY <1>6, ZenonT(120) DEF SameSession, endpoint, packets
    <2>3. PacketInv(e)'
      BY <1>1, <2>1, <2>2, ZenonT(120) DEF PacketInv, SameSession
    <2>4. QED
      BY <1>3, <1>6, <2>2, <2>3, ZenonT(120) DEF Only
  <1>7. CASE Reuse(w)
    <2>1. PICK i \in DOMAIN pool[w] : pool' = [pool EXCEPT ![w] = WithoutPlace(@, i)]
      BY <1>7, ZenonT(120) DEF Reuse, Reusable
    <2>2. \A u \in Workers : u # w => pool'[u] = pool[u]
      BY <1>1, <2>1, ZenonT(120) DEF FunTypes
    <2>3. pc[w] \in Getting
      BY <1>7, ZenonT(120) DEF Reuse, Getting
    <2>4. QED
      BY <1>5, <1>7, <2>2, <2>3, ZenonT(120) DEF Reuse
  <1>8. CASE ReuseFails(w)
    <2>1. PICK i \in DOMAIN pool[w] : pool' = [pool EXCEPT ![w] = WithoutPlace(@, i)]
      BY <1>8, ZenonT(120) DEF ReuseFails, Reusable
    <2>2. \A u \in Workers : u # w => pool'[u] = pool[u]
      BY <1>1, <2>1, ZenonT(120) DEF FunTypes
    <2>3. UNCHANGED <<pc, ep, caller, waiting, endpoint>> /\ notify_connection_available(w)
      BY <1>8, ZenonT(120) DEF ReuseFails, worker
    <2>4. \A u \in Workers : u # w => SameWorker(u)
      BY <1>1, <2>2, <2>3, NotifyIsLocal, ZenonT(120) DEF SameWorker
    <2>5. QED
      BY <1>2, <1>6, <2>3, <2>4, ZenonT(120)
  <1>9. CASE PreCheck(w) /\ LimitReached(w)
    BY <1>5, <1>9, ZenonT(120) DEF PreCheck, Getting
  <1>10. ASSUME NEW place, GoTo(w, place), place # "idle", UNCHANGED <<pool, queues, endpoint>>
         PROVE  /\ PacketInv(e)' /\ Only(w, e)
                /\ pc'[w] = "idle" \/ ep'[w] = e \/ caller'[w] # "route"
    <2>1. \A u \in Workers : u # w => SameWorker(u)
      BY <1>1, <1>10, ZenonT(120) DEF GoTo, queues, SameWorker, FunTypes
    <2>2. pc'[w] # "idle" /\ ep' = ep /\ caller' = caller
      BY <1>1, <1>10, ZenonT(120) DEF GoTo, FunTypes
    <2>3. QED
      BY <1>6, <1>10, <2>1, <2>2, ZenonT(120)
  <1>11. CASE \/ ReadConns(w) \/ add_conn_intent(w) \/ Recheck(w) \/ Create(w) \/ CreateFails(w)
              \/ PreCheck(w) /\ ~LimitReached(w)
    <2>1. UNCHANGED <<pool, queues, endpoint>>
      BY <1>11, ZenonT(120) DEF ReadConns, add_conn_intent, Recheck, Create, CreateFails, PreCheck
    <2>2. GoTo(w, "check") \/ GoTo(w, "recheck") \/ GoTo(w, "create") \/ GoTo(w, "retract") \/ GoTo(w, "intent")
      BY <1>11, ZenonT(120) DEF ReadConns, add_conn_intent, Recheck, Create, CreateFails, PreCheck
    <2>3. QED
      BY <1>10, <2>1, <2>2, ZenonT(120)
  <1>12. CASE remove_conn_intent(w)
    BY <1>5, <1>12, ZenonT(120) DEF remove_conn_intent, Getting
  <1>13. CASE handle_failed_continue(w)
    <2>1. Closed(e) /\ EraseFirst(w, TRUE) /\ pool' = pool
      BY <1>3, <1>13, ZenonT(120) DEF handle_failed_continue
    <2>2. pc'[w] = "idle" \/ caller'[w] # "route"
      BY <1>1, <2>1, CallsAreLocal, ZenonT(120)
    <2>3. ~Routing(e)'
      BY <1>3, <2>2, ZenonT(120) DEF Routing
    <2>4. Only(w, e)
      BY <1>1, <2>1, CallsAreLocal, ClosedIsLocal, ZenonT(120) DEF Only, SameWorker
    <2>5. QED
      BY <1>1, <2>1, <2>2, <2>3, <2>4, ClosedPackets, ZenonT(120)
  <1>14. QED
    BY <1>7, <1>8, <1>9, <1>11, <1>12, <1>13, ZenonT(120) DEF GetConnection

LEMMA SessionPackets ==
    ASSUME QInv, NEW e \in Endpoints, SessionEvent(e)
    PROVE  (\A f \in Endpoints : PacketInv(f)') /\ Only(home[e], e)
  <1> DEFINE w == home[e]
  <1>1. FunTypes /\ w \in Workers /\ \A f \in Endpoints : PacketInv(f)
    BY SetsAssumption, ZenonT(120) DEF QInv
  <1>2. pc[w] = "idle"
    BY ZenonT(120) DEF SessionEvent, Open, routeQuery, ConnectionReady, clientReply, try_to_pool,
                      NothingToPool, Close, Idle
  <1>3. SUFFICES /\ PacketInv(e)' /\ Only(w, e)
                 /\ pc'[w] = "idle" \/ ep'[w] = e \/ caller'[w] # "route"
    BY <1>1, <1>2, OtherPackets, ZenonT(120)
  <1>4. ~Routing(e)
    BY <1>2, ZenonT(120) DEF Routing
  <1>5. CASE Open(e)
    <2>1. get_backend_connection(w, e, "connect") /\ UNCHANGED <<pool, queues, connstatus, outstanding, packets>>
      BY <1>5, ZenonT(120) DEF Open
    <2>2. caller'[w] = "connect"
      BY <1>1, <2>1, ZenonT(120) DEF get_backend_connection, FunTypes
    <2>3. ~Routing(e)'
      BY <2>2, ZenonT(120) DEF Routing
    <2>4. \A f \in Endpoints : SameSession(f)
      BY <2>1, ZenonT(120) DEF SameSession, packets
    <2>5. PacketInv(e)'
      BY <1>1, <1>4, <2>3, <2>4, ZenonT(120) DEF PacketInv, SameSession
    <2>6. Only(w, e)
      BY <1>1, <2>1, <2>4, CallsAreLocal, ZenonT(120) DEF Only, SameWorker, queues
    <2>7. QED
      BY <2>2, <2>5, <2>6, ZenonT(120)
  <1>6. CASE routeQuery(e)
    <2>1. /\ routed' = [routed EXCEPT ![e] = @ + 1] /\ UNCHANGED <<pool, queues, connstatus>>
          /\ RouteConnected(e) \/ RoutePooled(e) \/ RouteWaiting(e)
      BY <1>6, ZenonT(120) DEF routeQuery
    <2>2. /\ routed'[e] = routed[e] + 1 /\ routed[e] \in Nat /\ outstanding[e] \in Int
          /\ \A f \in Endpoints : f # e => routed'[f] = routed[f]
      BY <1>1, <2>1, PacketTypes, ZenonT(120) DEF FunTypes
    <2>3. /\ sent[e] \in Seq(Int) /\ delayed[e] \in Seq(Int) /\ sent[e] \o <<>> = sent[e]
          /\ Append(sent[e] \o delayed[e], routed[e] + 1) = sent[e] \o Append(delayed[e], routed[e] + 1)
          /\ Append(Numbers(routed[e]), routed[e] + 1) = Numbers(routed[e] + 1)
      <3>1. routed[e] \in Nat /\ routed[e] + 1 \in Int
        BY <2>2, SMTT(120)
      <3>2. QED
        BY <1>1, <3>1, PacketTypes, NumbersNext, ZenonT(120)
    <2>4. CASE RouteConnected(e)
      <3>1. /\ UNCHANGED <<worker, delayed>> /\ connstatus[e] = "CONNECTED"
            /\ sent'[e] = Append(sent[e], routed[e] + 1) /\ outstanding'[e] = outstanding[e] + 1
            /\ \A f \in Endpoints : f # e => sent'[f] = sent[f] /\ outstanding'[f] = outstanding[f]
        BY <1>1, <2>4, ZenonT(120) DEF RouteConnected, FunTypes
      <3>2. ~Routing(e)' /\ pc'[w] = "idle"
        BY <1>2, <3>1, ZenonT(120) DEF Routing, worker
      <3>3. ASSUME ~Reopen
            PROVE  /\ outstanding'[e] \in 0..routed'[e] /\ delayed'[e] = <<>>
                   /\ sent'[e] \o delayed'[e] = Numbers(routed'[e])
        <4>1. delayed[e] = <<>> /\ sent[e] = Numbers(routed[e])
          BY <1>1, <1>4, <3>1, <3>3, SentNow, ZenonT(120)
        <4>2. outstanding[e] \in 0..routed[e]
          BY <1>1, <3>3, ZenonT(120) DEF PacketInv
        <4>3. outstanding'[e] \in 0..routed'[e]
          BY <2>2, <3>1, <4>2, SMTT(120)
        <4>4. sent'[e] = Numbers(routed'[e]) /\ delayed'[e] = <<>>
          BY <2>2, <2>3, <3>1, <4>1, ZenonT(120)
        <4>5. sent'[e] \in Seq(Int)
          BY <2>2, <2>3, <3>1, SMTT(120)
        <4>6. QED
          BY <4>3, <4>4, <4>5, ConcatEmptySeq, ZenonT(120)
      <3>4. PacketInv(e)'
        BY <3>2, <3>3, ZenonT(120) DEF PacketInv
      <3>5. Only(w, e)
        BY <2>1, <2>2, <3>1, ZenonT(120) DEF Only, SameWorker, SameSession, worker, queues
      <3>6. QED
        BY <3>2, <3>4, <3>5, ZenonT(120)
    <2>5. CASE RoutePooled(e)
      <3>1. /\ get_backend_connection(w, e, "route") /\ connstatus[e] = "IDLE_POOLED"
            /\ UNCHANGED <<sent, outstanding, delayed>>
        BY <2>5, ZenonT(120) DEF RoutePooled
      <3>2. Routing(e)' /\ ep'[w] = e
        BY <1>1, <3>1, ZenonT(120) DEF get_backend_connection, FunTypes, Routing
      <3>3. routed'[e] > 0 /\ routed'[e] - 1 = routed[e]
        BY <2>2, SMTT(120)
      <3>4. ASSUME ~Reopen
            PROVE  /\ outstanding'[e] \in 0..routed'[e] /\ delayed'[e] = <<>>
                   /\ sent'[e] \o delayed'[e] = Numbers(routed'[e] - 1)
        <4>1. delayed[e] = <<>> /\ sent[e] = Numbers(routed[e])
          BY <1>1, <1>4, <3>1, <3>4, SentNow, ZenonT(120)
        <4>2. outstanding[e] \in 0..routed[e]
          BY <1>1, <3>4, ZenonT(120) DEF PacketInv
        <4>3. outstanding'[e] \in 0..routed'[e]
          BY <2>2, <3>1, <4>2, SMTT(120)
        <4>4. QED
          BY <2>3, <3>1, <3>3, <4>1, <4>3, ZenonT(120)
      <3>5. PacketInv(e)'
        BY <3>2, <3>3, <3>4, ZenonT(120) DEF PacketInv
      <3>6. Only(w, e)
        BY <1>1, <2>1, <2>2, <3>1, CallsAreLocal, ZenonT(120) DEF Only, SameWorker, SameSession, queues
      <3>7. QED
        BY <3>2, <3>5, <3>6, ZenonT(120)
    <2>6. CASE RouteWaiting(e)
      <3>1. /\ UNCHANGED <<worker, sent, outstanding>> /\ connstatus[e] = "WAITING_FOR_CONN"
            /\ delayed'[e] = Append(delayed[e], routed[e] + 1)
            /\ \A f \in Endpoints : f # e => delayed'[f] = delayed[f]
        BY <1>1, <2>6, ZenonT(120) DEF RouteWaiting, FunTypes
      <3>2. ~Routing(e)' /\ pc'[w] = "idle"
        BY <1>2, <3>1, ZenonT(120) DEF Routing, worker
      <3>3. ASSUME ~Reopen
            PROVE  outstanding'[e] \in 0..routed'[e] /\ sent'[e] \o delayed'[e] = Numbers(routed'[e])
        <4>1. sent[e] \o delayed[e] = Numbers(routed[e]) /\ outstanding[e] \in 0..routed[e]
          BY <1>1, <1>4, <3>1, <3>3, ZenonT(120) DEF PacketInv
        <4>2. outstanding'[e] \in 0..routed'[e]
          BY <2>2, <3>1, <4>1, SMTT(120)
        <4>3. QED
          BY <2>2, <2>3, <3>1, <4>1, <4>2, ZenonT(120)
      <3>4. PacketInv(e)'
        BY <2>1, <3>1, <3>2, <3>3, ZenonT(120) DEF PacketInv
      <3>5. Only(w, e)
        BY <2>1, <2>2, <3>1, ZenonT(120) DEF Only, SameWorker, SameSession, worker, queues
      <3>6. QED
        BY <3>2, <3>4, <3>5, ZenonT(120)
    <2>7. QED
      BY <2>1, <2>4, <2>5, <2>6, ZenonT(120)
  <1>7. CASE ConnectionReady(e) \/ NothingToPool(e)
    <2>1. UNCHANGED <<worker, pool, queues, connstatus, outstanding, packets>>
      BY <1>7, ZenonT(120) DEF ConnectionReady, NothingToPool
    <2>2. ~Routing(e)' /\ pc'[w] = "idle" /\ Only(w, e) /\ SameSession(e)
      BY <1>2, <2>1, ZenonT(120) DEF Routing, worker, Only, SameWorker, SameSession, queues, packets
    <2>3. PacketInv(e)'
      BY <1>1, <1>4, <2>2, ZenonT(120) DEF PacketInv, SameSession
    <2>4. QED
      BY <2>2, <2>3, ZenonT(120)
  <1>8. CASE clientReply(e)
    <2>1. /\ UNCHANGED <<worker, pool, queues, connstatus, packets>> /\ outstanding[e] > 0
          /\ outstanding'[e] = outstanding[e] - 1
          /\ \A f \in Endpoints : f # e => outstanding'[f] = outstanding[f]
      BY <1>1, <1>8, ZenonT(120) DEF clientReply, FunTypes
    <2>2. ~Routing(e)' /\ pc'[w] = "idle" /\ Only(w, e)
      BY <1>2, <2>1, ZenonT(120) DEF Routing, worker, Only, SameWorker, SameSession, queues, packets
    <2>3. routed[e] \in Nat /\ (~Reopen => outstanding[e] \in 0..routed[e])
      BY <1>1, PacketTypes, ZenonT(120) DEF PacketInv
    <2>4. ~Reopen => outstanding'[e] \in 0..routed[e]
      BY <2>1, <2>3, SMTT(120)
    <2>5. PacketInv(e)'
      BY <1>1, <1>4, <2>1, <2>2, <2>4, ZenonT(120) DEF PacketInv, packets
    <2>6. QED
      BY <2>2, <2>5, ZenonT(120)
  <1>9. CASE try_to_pool(e)
    <2>1. /\ UNCHANGED <<worker, waiting, outstanding, packets>> /\ notify_connection_available(w)
          /\ connstatus[e] = "CONNECTED" /\ connstatus'[e] = "IDLE_POOLED"
          /\ \A f \in Endpoints : f # e => connstatus'[f] = connstatus[f]
          /\ \A u \in Workers : u # w => pool'[u] = pool[u]
      BY <1>1, <1>9, ZenonT(120) DEF try_to_pool, FunTypes
    <2>2. ~Routing(e)' /\ pc'[w] = "idle"
      BY <1>2, <2>1, ZenonT(120) DEF Routing, worker
    <2>3. Only(w, e)
      BY <1>1, <2>1, NotifyIsLocal, ZenonT(120) DEF worker, Only, SameWorker, SameSession, packets
    <2>4. PacketInv(e)'
      BY <1>1, <1>4, <2>1, <2>2, ZenonT(120) DEF PacketInv, packets
    <2>5. QED
      BY <2>2, <2>3, <2>4, ZenonT(120)
  <1>10. CASE Close(e)
    <2>1. Closed(e) /\ UNCHANGED worker
      BY <1>10, ZenonT(120) DEF Close
    <2>2. ~Routing(e)' /\ pc'[w] = "idle"
      BY <1>2, <2>1, ZenonT(120) DEF Routing, worker
    <2>3. \A u \in Workers : u # w => /\ pool'[u] = pool[u] /\ waiting'[u] = waiting[u]
                                      /\ scheduled'[u] = scheduled[u]
      <3>1. CASE \E quit \in BOOLEAN : CloseConnected(e, quit)
        <4>1. /\ pool' = [pool EXCEPT ![w] = Append(@, kind[e])] \/ pool' = pool
              /\ UNCHANGED waiting /\ notify_connection_available(w)
          BY <3>1, ZenonT(120) DEF CloseConnected
        <4>2. QED
          BY <1>1, <4>1, NotifyIsLocal, ZenonT(120) DEF FunTypes
      <3>2. CASE CloseWaiting(e) \/ ClosePooled(e)
        BY <1>1, <3>2, ZenonT(120) DEF CloseWaiting, ClosePooled, queues, FunTypes
      <3>3. QED
        BY <1>10, <3>1, <3>2, ZenonT(120) DEF Close
    <2>4. Only(w, e)
      BY <1>1, <2>1, <2>3, ClosedIsLocal, ZenonT(120) DEF worker, Only, SameWorker
    <2>5. QED
      BY <1>1, <2>1, <2>2, <2>4, ClosedPackets, ZenonT(120)
  <1>11. QED
    BY <1>5, <1>6, <1>7, <1>8, <1>9, <1>10, ZenonT(120) DEF SessionEvent

LEMMA WorkerPackets ==
    ASSUME QInv, NEW w \in Workers, WorkerEvent(w)
    PROVE  /\ \A f \in Endpoints : PacketInv(f)'
           /\ \A u \in Workers : u # w => SameWorker(u)
           /\ \A f \in Endpoints : home[f] # w => SameSession(f)
  <1>1. FunTypes /\ PlaceInv(w) /\ QueueInv(w) /\ \A f \in Endpoints : PacketInv(f) /\ home[f] \in Workers
    BY SetsAssumption, ZenonT(120) DEF QInv, WorkerInv
  <1>2. ASSUME UNCHANGED endpoint, \A u \in Workers : u # w => SameWorker(u),
               \/ pc'[w] = pc[w] /\ ep'[w] = ep[w] /\ caller'[w] = caller[w]
               \/ pc[w] = "idle" /\ caller'[w] # "route"
        PROVE  \A f \in Endpoints : PacketInv(f)' /\ SameSession(f)
    <2>1. SUFFICES ASSUME NEW f \in Endpoints PROVE PacketInv(f)' /\ SameSession(f)
      BY ZenonT(120)
    <2>2. SameSession(f)
      BY <1>2, ZenonT(120) DEF SameSession, endpoint, packets
    <2>3. Routing(f)' = Routing(f)
      <3>1. CASE home[f] # w
        BY <1>1, <1>2, <3>1, ZenonT(120) DEF Routing, SameWorker
      <3>2. CASE home[f] = w
        BY <1>2, <3>2, ZenonT(120) DEF Routing
      <3>3. QED
        BY <3>1, <3>2, ZenonT(120)
    <2>4. QED
      BY <1>1, <2>2, <2>3, ZenonT(120) DEF PacketInv, SameSession
  <1>3. CASE close_pooled_dcb(w)
    <2>1. /\ UNCHANGED <<worker, waiting, endpoint>> /\ notify_connection_available(w)
          /\ \A u \in Workers : u # w => pool'[u] = pool[u]
      BY <1>1, <1>3, ZenonT(120) DEF close_pooled_dcb, FunTypes
    <2>2. \A u \in Workers : u # w => SameWorker(u)
      BY <1>1, <2>1, NotifyIsLocal, ZenonT(120) DEF SameWorker, worker
    <2>3. QED
      BY <1>2, <2>1, <2>2, ZenonT(120) DEF worker
  <1>4. ASSUME pc[w] = "idle", NEW b, activate_waiting_endpoints(w, b), UNCHANGED <<pool, waiting, endpoint>>
        PROVE  /\ \A f \in Endpoints : PacketInv(f)' /\ SameSession(f)
               /\ \A u \in Workers : u # w => SameWorker(u)
    <2>1. \A u \in Workers : u # w => SameWorker(u)
      BY <1>1, <1>4, CallsAreLocal, ZenonT(120) DEF activate_waiting_endpoints, SameWorker
    <2>2. caller'[w] # "route"
      BY <1>1, <1>4, ZenonT(120) DEF activate_waiting_endpoints, get_backend_connection, FunTypes
    <2>3. QED
      BY <1>2, <1>4, <2>1, <2>2, ZenonT(120)
  <1>5. CASE Activate(w)
    <2>1. pc[w] = "idle" /\ UNCHANGED <<pool, waiting, endpoint>>
      BY <1>5, ZenonT(120) DEF Activate, Idle
    <2>2. CASE activate_waiting_endpoints(w, TRUE)
      BY <1>4, <2>1, <2>2, ZenonT(120)
    <2>3. CASE scheduled' = [scheduled EXCEPT ![w] = FALSE] /\ UNCHANGED worker
      <3>1. \A u \in Workers : u # w => SameWorker(u)
        BY <1>1, <2>1, <2>3, ZenonT(120) DEF SameWorker, worker, FunTypes
      <3>2. QED
        BY <1>2, <2>1, <2>3, <3>1, ZenonT(120) DEF worker
    <2>4. QED
      BY <1>5, <2>2, <2>3, ZenonT(120) DEF Activate
  <1>6. CASE ActivateTimer(w)
    BY <1>4, <1>6, ZenonT(120) DEF ActivateTimer, Idle
  <1>7. CASE PostFails(w)
    <2>1. UNCHANGED endpoint /\ \A u \in Workers : SameWorker(u)
      BY <1>7, ZenonT(120) DEF PostFails, SameWorker, worker
    <2>2. QED
      BY <1>2, <2>1, ZenonT(120) DEF SameWorker
  <1>8. CASE fail_timed_out_endpoints(w)
    <2>1. /\ pc[w] = "idle" /\ waiting[w] # <<>> /\ Closed(Head(waiting[w])) /\ UNCHANGED <<worker, pool, scheduled>>
          /\ \A u \in Workers : u # w => waiting'[u] = waiting[u]
      BY <1>1, <1>8, ZenonT(120) DEF fail_timed_out_endpoints, Idle, FunTypes
    <2>2. PICK e \in Endpoints : e = Head(waiting[w]) /\ home[e] = w
      <3>1. waiting[w] \in Seq(Endpoints)
        BY <1>1, ZenonT(120) DEF FunTypes
      <3>2. Head(waiting[w]) = waiting[w][1] /\ waiting[w][1] \in Endpoints /\ 1 \in DOMAIN waiting[w]
        BY <2>1, <3>1, SMTT(120)
      <3>3. QED
        BY <1>1, <3>2, ZenonT(120) DEF QueueInv
    <2>3. Only(w, e)
      BY <1>1, <2>1, <2>2, ClosedIsLocal, ZenonT(120) DEF Only, SameWorker, worker
    <2>4. pc'[w] = "idle" /\ ~Routing(e)'
      BY <2>1, <2>2, ZenonT(120) DEF worker, Routing
    <2>5. PacketInv(e)'
      BY <1>1, <2>1, <2>2, <2>4, ClosedPackets, ZenonT(120)
    <2>6. \A f \in Endpoints : PacketInv(f)'
      BY <1>1, <2>1, <2>3, <2>4, <2>5, OtherPackets, ZenonT(120)
    <2>7. QED
      BY <2>2, <2>3, <2>6, ZenonT(120) DEF Only
  <1>9. QED
    BY <1>3, <1>4, <1>5, <1>6, <1>7, <1>8, ZenonT(120) DEF WorkerEvent
=============================================================================
