-------------------------- MODULE ConnectionLimit --------------------------
(***************************************************************************)
(* The limit on the connections to a server (max_routing_connections), the *)
(* connection pools of the workers and the endpoints of the sessions       *)
(* (server.cc, routingworker.cc, session.cc).                              *)
(*                                                                         *)
(* Every routing worker is a thread with its own pool and its own queue of *)
(* endpoints that wait for a connection; only the two counters of the      *)
(* server are shared.  A worker runs one callback at a time; inside of one *)
(* it is interrupted only between its accesses to the counters, which are  *)
(* the steps of get_backend_connection.  The atomic counters are taken to  *)
(* be sequentially consistent.                                             *)
(*                                                                         *)
(* There is one server, which is running, and a session has one endpoint.  *)
(* A packet is the number of its query within the session.                 *)
(***************************************************************************)
EXTENDS Integers, Sequences, FiniteSets

CONSTANTS
    Workers,                  \* the routing workers
    Endpoints,                \* the endpoints of the sessions
    Kinds,                    \* connections that can stand in for each other
    home,                     \* the worker of a session
    Sharing,                  \* sessions with idle_session_pool_time >= 0
    KindChoices,              \* which kinds the sessions may need
    max_routing_connections,  \* the limit
    capacity,                 \* of the pool of one worker
    Reopen,                   \* sessions go on after a failed connection
    MaxQueries,               \* bound: queries of a session
    MaxOpens,                 \* bound: sessions of an endpoint
    MaxFaults,                \* bound: failed connections, reuses and posts
    NoEndpoint

ASSUME SizesAssumption ==
    /\ max_routing_connections \in Nat \ {0}
    /\ capacity \in Nat
    /\ MaxQueries \in Nat /\ MaxOpens \in Nat /\ MaxFaults \in Nat

ASSUME SetsAssumption ==
    /\ IsFiniteSet(Workers) /\ IsFiniteSet(Endpoints)
    /\ home \in [Endpoints -> Workers]
    /\ Sharing \subseteq Endpoints
    /\ KindChoices \subseteq [Endpoints -> Kinds]
    /\ NoEndpoint \notin Endpoints
    /\ Reopen \in BOOLEAN

VARIABLES
    n_current_conns,  \* Target::Stats, shared by the workers
    n_conn_intents,
    pc,               \* where a worker is in get_backend_connection
    ep,               \* its endpoint, and who called it
    caller,
    value,            \* what it has read of a counter
    result,           \* what it is going to return
    task,             \* whether the posted task runs
    pool,             \* m_pool_group: the kinds of the connections in it
    waiting,          \* m_eps_waiting_for_conn
    scheduled,        \* m_ep_activation_scheduled
    posted,           \* the task that activates is in the message queue
    connstatus,       \* of an endpoint
    ready,            \* its connection can take part in pooling
    outstanding,      \* replies that the session waits for
    delayed,          \* m_delayed_packets
    can_pool,         \* m_can_pool_backends of the session
    poolcall,         \* m_idle_pool_call_id of the session
    kind,             \* the kind of connection it needs
    routed,           \* queries of the session
    sent,             \* the packets that its connections were given
    opens, faults     \* bounds

worker == <<pc, ep, caller, value, result, task>>
session == <<kind, opens>>
packets == <<routed, delayed, sent>>
endpoint == <<connstatus, ready, outstanding, packets, can_pool, poolcall>>
queues == <<waiting, scheduled, posted>>
vars == <<n_current_conns, n_conn_intents, worker, pool, queues, endpoint, session, faults>>

Status == {"NO_CONN", "IDLE_POOLED", "WAITING_FOR_CONN", "CONNECTED", "CONNECTED_FAILED"}

Idle(w) == pc[w] = "idle"

Init ==
    /\ n_current_conns = 0 /\ n_conn_intents = 0
    /\ pc = [w \in Workers |-> "idle"]
    /\ ep = [w \in Workers |-> NoEndpoint]
    /\ caller = [w \in Workers |-> "connect"]
    /\ value = [w \in Workers |-> 0]
    /\ result = [w \in Workers |-> "none"]
    /\ task = [w \in Workers |-> FALSE]
    /\ pool = [w \in Workers |-> <<>>]
    /\ waiting = [w \in Workers |-> <<>>]
    /\ scheduled = [w \in Workers |-> FALSE]
    /\ posted = [w \in Workers |-> FALSE]
    /\ connstatus = [e \in Endpoints |-> "NO_CONN"]
    /\ ready = [e \in Endpoints |-> FALSE]
    /\ outstanding = [e \in Endpoints |-> 0]
    /\ delayed = [e \in Endpoints |-> <<>>]
    /\ can_pool = [e \in Endpoints |-> FALSE]
    /\ poolcall = [e \in Endpoints |-> FALSE]
    /\ kind \in KindChoices
    /\ routed = [e \in Endpoints |-> 0]
    /\ sent = [e \in Endpoints |-> <<>>]
    /\ opens = [e \in Endpoints |-> 0]
    /\ faults = 0

-----------------------------------------------------------------------------
(* What the callbacks have in common. *)

(* A worker calls get_backend_connection for an endpoint. *)
get_backend_connection(w, e, why) ==
    /\ pc' = [pc EXCEPT ![w] = "pool"]
    /\ ep' = [ep EXCEPT ![w] = e]
    /\ caller' = [caller EXCEPT ![w] = why]
    /\ UNCHANGED <<value, result>>

(* The callback of a worker ends. *)
Return(w) ==
    /\ pc' = [pc EXCEPT ![w] = "idle"]
    /\ ep' = [ep EXCEPT ![w] = NoEndpoint]
    /\ caller' = [caller EXCEPT ![w] = "connect"]
    /\ value' = [value EXCEPT ![w] = 0]
    /\ result' = [result EXCEPT ![w] = "none"]
    /\ task' = [task EXCEPT ![w] = FALSE]

(* The next line of get_backend_connection. *)
GoTo(w, place) ==
    /\ pc' = [pc EXCEPT ![w] = place]
    /\ UNCHANGED <<ep, caller, task>>

(* Mutant: the check is not scheduled. *)
notify_connection_availableNever(w) == UNCHANGED <<scheduled, posted>>

notify_connection_available(w) ==
    LET post == waiting[w] # <<>> /\ ~scheduled[w]
    IN  /\ scheduled' = [scheduled EXCEPT ![w] = @ \/ post]
        /\ posted' = [posted EXCEPT ![w] = @ \/ post]

remove_connection == n_current_conns' = n_current_conns - 1

has_space(w) == Len(pool[w]) < capacity

(* The places of the pool with a connection that e can reuse (can_reuse). *)
Reusable(w, e) == {i \in DOMAIN pool[w] : pool[w][i] = kind[e]}

WithoutPlace(s, i) == SubSeq(s, 1, i - 1) \o SubSeq(s, i + 1, Len(s))

(* The endpoint is closed.  Its session ends or, with Reopen, may open it  *)
(* again: the packets that it has delayed are not discarded.               *)
Closed(e) ==
    /\ connstatus' = [connstatus EXCEPT ![e] = "NO_CONN"]
    /\ ready' = [ready EXCEPT ![e] = FALSE]
    /\ outstanding' = [outstanding EXCEPT ![e] = 0]
    /\ delayed' = IF Reopen THEN delayed ELSE [delayed EXCEPT ![e] = <<>>]
    /\ routed' = [routed EXCEPT ![e] = 0]
    /\ sent' = [sent EXCEPT ![e] = <<>>]
    /\ can_pool' = [can_pool EXCEPT ![e] = FALSE]
    /\ poolcall' = [poolcall EXCEPT ![e] = FALSE]

(* activate_waiting_endpoints is through; the task clears its flag. *)
ActivationEnds(w, flag) ==
    /\ Return(w)
    /\ scheduled' = [scheduled EXCEPT ![w] = flag /\ ~task[w]]

(* The first of the waiting endpoints is erased, the next one is tried. *)
EraseFirst(w, flag) ==
    LET rest == Tail(waiting[w])
    IN  /\ waiting' = [waiting EXCEPT ![w] = rest]
        /\ IF rest = <<>>
           THEN ActivationEnds(w, flag)
           ELSE /\ get_backend_connection(w, Head(rest), "continue")
                /\ scheduled' = [scheduled EXCEPT ![w] = flag]
                /\ UNCHANGED task

-----------------------------------------------------------------------------
(* What the caller does with the result of get_backend_connection. *)

(* Mutant: m_delayed_packets is not cleared. *)
ConnectedKeep(w) ==
    LET e == ep[w]
        unsent == CASE caller[w] = "connect" -> <<>>
                    [] caller[w] = "route" -> <<routed[e]>>
                    [] caller[w] = "continue" -> delayed[e]
    IN  /\ connstatus' = [connstatus EXCEPT ![e] = "CONNECTED"]
        /\ ready' = [ready EXCEPT ![e] = FALSE]
        /\ sent' = [sent EXCEPT ![e] = @ \o unsent]
        /\ outstanding' = [outstanding EXCEPT ![e] = Len(unsent)]
        /\ IF caller[w] = "continue"
           THEN EraseFirst(w, scheduled[w]) /\ UNCHANGED posted
           ELSE Return(w) /\ UNCHANGED queues
        /\ UNCHANGED <<delayed, routed, can_pool, poolcall, faults>>

(* connect(), routeQuery() or continue_connecting() has a connection and   *)
(* gives it the packets that waited for one.                               *)
Connected(w) ==
    LET e == ep[w]
        unsent == CASE caller[w] = "connect" -> <<>>
                    [] caller[w] = "route" -> <<routed[e]>>
                    [] caller[w] = "continue" -> delayed[e]
    IN  /\ connstatus' = [connstatus EXCEPT ![e] = "CONNECTED"]
        /\ ready' = [ready EXCEPT ![e] = FALSE]
        /\ sent' = [sent EXCEPT ![e] = @ \o unsent]
        /\ outstanding' = [outstanding EXCEPT ![e] = Len(unsent)]
        /\ IF caller[w] = "continue"
           THEN /\ delayed' = [delayed EXCEPT ![e] = <<>>]
                /\ EraseFirst(w, scheduled[w])
                /\ UNCHANGED posted
           ELSE /\ Return(w)
                /\ UNCHANGED <<delayed, queues>>
        /\ UNCHANGED <<routed, can_pool, poolcall, faults>>

(* A delayed packet cannot be written: CONNECTED_FAILED. *)
WriteFails(w) ==
    LET e == ep[w]
    IN  /\ caller[w] = "continue" /\ faults < MaxFaults
        /\ \E i \in 1..Len(delayed[e]) :
              sent' = [sent EXCEPT ![e] = @ \o SubSeq(delayed[e], 1, i - 1)]
        /\ connstatus' = [connstatus EXCEPT ![e] = "CONNECTED_FAILED"]
        /\ delayed' = [delayed EXCEPT ![e] = <<>>]
        /\ faults' = faults + 1
        /\ GoTo(w, "failed")
        /\ UNCHANGED <<value, result, ready, outstanding, routed, can_pool, poolcall, queues>>

(* The limit is reached: the endpoint waits, or goes on waiting. *)
LimitReached(w) ==
    LET e == ep[w]
    IN  /\ \/ /\ caller[w] # "continue" /\ e \in Sharing
              /\ connstatus' = [connstatus EXCEPT ![e] = "WAITING_FOR_CONN"]
              /\ waiting' = [waiting EXCEPT ![w] = Append(@, e)]
              /\ delayed' = IF caller[w] = "route"
                            THEN [delayed EXCEPT ![e] = Append(@, routed[e])]
                            ELSE delayed
              /\ Return(w)
              /\ UNCHANGED <<scheduled, ready, outstanding, routed, sent, can_pool, poolcall>>
           \/ /\ caller[w] # "continue" /\ e \notin Sharing
              /\ Closed(e)
              /\ Return(w)
              /\ UNCHANGED <<waiting, scheduled>>
           \/ /\ caller[w] = "continue"
              /\ ActivationEnds(w, scheduled[w])
              /\ UNCHANGED <<waiting, endpoint>>
        /\ UNCHANGED <<posted, faults>>

(* The connection could not be created. *)
ConnectionFails(w) ==
    /\ Closed(ep[w])
    /\ \/ /\ caller[w] # "continue"
          /\ Return(w)
          /\ UNCHANGED <<waiting, scheduled>>
       \/ /\ caller[w] = "continue"
          /\ EraseFirst(w, scheduled[w])
    /\ UNCHANGED <<posted, faults>>

-----------------------------------------------------------------------------
(* The steps of get_backend_connection. *)

(* pool_get_connection finds a connection. *)
Reuse(w) ==
    /\ pc[w] = "pool"
    /\ \E i \in Reusable(w, ep[w]) :
          pool' = [pool EXCEPT ![w] = WithoutPlace(@, i)]
    /\ Connected(w) \/ WriteFails(w)
    /\ UNCHANGED <<n_current_conns, n_conn_intents, session>>

(* Mutant: the closed connection is still counted. *)
ReuseFailsCounted(w) ==
    /\ pc[w] = "pool" /\ faults < MaxFaults
    /\ \E i \in Reusable(w, ep[w]) :
          pool' = [pool EXCEPT ![w] = WithoutPlace(@, i)]
    /\ notify_connection_available(w)
    /\ faults' = faults + 1
    /\ UNCHANGED <<n_current_conns, n_conn_intents, worker, waiting, endpoint, session>>

(* The connection cannot be reused, it is closed and the next one tried. *)
ReuseFails(w) ==
    /\ pc[w] = "pool" /\ faults < MaxFaults
    /\ \E i \in Reusable(w, ep[w]) :
          pool' = [pool EXCEPT ![w] = WithoutPlace(@, i)]
    /\ remove_connection
    /\ notify_connection_available(w)
    /\ faults' = faults + 1
    /\ UNCHANGED <<n_conn_intents, worker, waiting, endpoint, session>>

(* There is none in the pool: the first of the two counters is read. *)
ReadConns(w) ==
    /\ pc[w] = "pool" /\ Reusable(w, ep[w]) = {}
    /\ value' = [value EXCEPT ![w] = n_current_conns]
    /\ GoTo(w, "check")
    /\ UNCHANGED <<n_current_conns, n_conn_intents, result, pool, queues, endpoint, session, faults>>

(* The second counter is read and the sum compared with the limit. *)
PreCheck(w) ==
    /\ pc[w] = "check"
    /\ IF value[w] + n_conn_intents >= max_routing_connections
       THEN LimitReached(w)
       ELSE /\ GoTo(w, "intent")
            /\ UNCHANGED <<value, result, queues, endpoint, faults>>
    /\ UNCHANGED <<n_current_conns, n_conn_intents, pool, session>>

add_conn_intent(w) ==
    /\ pc[w] = "intent"
    /\ n_conn_intents' = n_conn_intents + 1
    /\ value' = [value EXCEPT ![w] = n_conn_intents + 1]
    /\ GoTo(w, "recheck")
    /\ UNCHANGED <<n_current_conns, result, pool, queues, endpoint, session, faults>>

(* Mutant: the limit is not checked again. *)
RecheckNot(w) ==
    /\ pc[w] = "recheck"
    /\ GoTo(w, "create")
    /\ UNCHANGED <<n_current_conns, n_conn_intents, value, result, pool, queues, endpoint, session, faults>>

(* The current connections are read again. *)
Recheck(w) ==
    /\ pc[w] = "recheck"
    /\ IF value[w] + n_current_conns <= max_routing_connections
       THEN GoTo(w, "create") /\ UNCHANGED result
       ELSE GoTo(w, "retract") /\ result' = [result EXCEPT ![w] = "limit"]
    /\ UNCHANGED <<n_current_conns, n_conn_intents, value, pool, queues, endpoint, session, faults>>

(* create_backend_connection, followed by add_connection. *)
Create(w) ==
    /\ pc[w] = "create"
    /\ n_current_conns' = n_current_conns + 1
    /\ result' = [result EXCEPT ![w] = "conn"]
    /\ GoTo(w, "retract")
    /\ UNCHANGED <<n_conn_intents, value, pool, queues, endpoint, session, faults>>

CreateFails(w) ==
    /\ pc[w] = "create" /\ faults < MaxFaults
    /\ result' = [result EXCEPT ![w] = "fail"]
    /\ faults' = faults + 1
    /\ GoTo(w, "retract")
    /\ UNCHANGED <<n_current_conns, n_conn_intents, value, pool, queues, endpoint, session>>

(* remove_conn_intent, and the caller goes on with the result. *)
remove_conn_intent(w) ==
    /\ pc[w] = "retract"
    /\ n_conn_intents' = n_conn_intents - 1
    /\ \/ result[w] = "conn" /\ (Connected(w) \/ WriteFails(w))
       \/ result[w] = "limit" /\ LimitReached(w)
       \/ result[w] = "fail" /\ ConnectionFails(w)
    /\ UNCHANGED <<n_current_conns, pool, session>>

(* handle_failed_continue after a failed write: the router closes the      *)
(* endpoint, and the next one that waits is tried.                         *)
handle_failed_continue(w) ==
    /\ pc[w] = "failed"
    /\ remove_connection
    /\ Closed(ep[w])
    /\ posted' = [posted EXCEPT ![w] = @ \/ ~scheduled[w]]
    /\ EraseFirst(w, TRUE)
    /\ UNCHANGED <<n_conn_intents, pool, session, faults>>

-----------------------------------------------------------------------------
(* Events of a session. *)

(* A session starts and connects; pooling is allowed from the start. *)
Open(e) ==
    /\ Idle(home[e]) /\ connstatus[e] = "NO_CONN" /\ opens[e] < MaxOpens
    /\ opens' = [opens EXCEPT ![e] = @ + 1]
    /\ get_backend_connection(home[e], e, "connect")
    /\ can_pool' = [can_pool EXCEPT ![e] = TRUE]
    /\ poolcall' = [poolcall EXCEPT ![e] = e \in Sharing]
    /\ UNCHANGED <<n_current_conns, n_conn_intents, task, pool, queues, connstatus, ready,
                   outstanding, packets, kind, faults>>

(* ServerEndpoint::routeQuery of an endpoint that is connected ... *)
RouteConnected(e) ==
    /\ connstatus[e] = "CONNECTED"
    /\ sent' = [sent EXCEPT ![e] = Append(@, routed[e] + 1)]
    /\ outstanding' = [outstanding EXCEPT ![e] = @ + 1]
    /\ UNCHANGED <<worker, delayed>>

(* ... whose connection was pooled while the session was idle ... *)
RoutePooled(e) ==
    /\ connstatus[e] = "IDLE_POOLED"
    /\ get_backend_connection(home[e], e, "route")
    /\ UNCHANGED <<task, sent, outstanding, delayed>>

(* ... and that waits for a connection. *)
RouteWaiting(e) ==
    /\ connstatus[e] = "WAITING_FOR_CONN"
    /\ delayed' = [delayed EXCEPT ![e] = Append(@, routed[e] + 1)]
    /\ UNCHANGED <<worker, sent, outstanding>>

routeQuery(e) ==
    /\ Idle(home[e]) /\ routed[e] < MaxQueries
    /\ RouteConnected(e) \/ RoutePooled(e) \/ RouteWaiting(e)
    /\ routed' = [routed EXCEPT ![e] = @ + 1]
    /\ UNCHANGED <<n_current_conns, n_conn_intents, pool, queues, connstatus, ready,
                   can_pool, poolcall, session, faults>>

(* The server has completed the handshake or the reset of the connection. *)
ConnectionReady(e) ==
    /\ Idle(home[e]) /\ connstatus[e] = "CONNECTED" /\ ~ready[e]
    /\ ready' = [ready EXCEPT ![e] = TRUE]
    /\ UNCHANGED <<n_current_conns, n_conn_intents, worker, pool, queues, connstatus,
                   outstanding, packets, can_pool, poolcall, session, faults>>

(* A complete reply.  A sharing session may be pooled when it waits for no *)
(* other one and is not in a transaction (set_can_pool_backends).          *)
clientReply(e) ==
    /\ Idle(home[e]) /\ connstatus[e] = "CONNECTED" /\ ready[e] /\ outstanding[e] > 0
    /\ outstanding' = [outstanding EXCEPT ![e] = @ - 1]
    /\ IF e \in Sharing
       THEN \E trx_on \in BOOLEAN :
               LET pooling_ok == outstanding[e] = 1 /\ ~trx_on
               IN  /\ can_pool' = [can_pool EXCEPT ![e] = pooling_ok]
                   /\ poolcall' = [poolcall EXCEPT ![e] = pooling_ok]
       ELSE UNCHANGED <<can_pool, poolcall>>
    /\ UNCHANGED <<n_current_conns, n_conn_intents, worker, pool, queues, connstatus,
                   ready, packets, session, faults>>

established(e) == ready[e] /\ outstanding[e] = 0

(* pool_backends_cb finds the connection idle and needed: try_to_pool. *)
try_to_pool(e) ==
    LET w == home[e]
    IN  /\ Idle(w) /\ poolcall[e]
        /\ connstatus[e] = "CONNECTED" /\ established(e) /\ waiting[w] # <<>>
        /\ can_pool[e] /\ has_space(w)
        /\ pool' = [pool EXCEPT ![w] = Append(@, kind[e])]
        /\ connstatus' = [connstatus EXCEPT ![e] = "IDLE_POOLED"]
        /\ ready' = [ready EXCEPT ![e] = FALSE]
        /\ notify_connection_available(w)
        /\ poolcall' = [poolcall EXCEPT ![e] = FALSE]
        /\ UNCHANGED <<n_current_conns, n_conn_intents, worker, waiting, outstanding,
                       packets, can_pool, session, faults>>

(* pool_backends_cb finds that the session has no connection. *)
NothingToPool(e) ==
    /\ Idle(home[e]) /\ poolcall[e] /\ connstatus[e] # "CONNECTED"
    /\ poolcall' = [poolcall EXCEPT ![e] = FALSE]
    /\ UNCHANGED <<n_current_conns, n_conn_intents, worker, pool, queues, connstatus,
                   ready, outstanding, packets, can_pool, session, faults>>

(* Mutant: a connection that goes to the pool is counted out. *)
CloseConnectedTwice(e, quit) ==
    LET w == home[e]
    IN  /\ connstatus[e] = "CONNECTED"
        /\ pool' = IF quit /\ established(e) /\ has_space(w)
                   THEN [pool EXCEPT ![w] = Append(@, kind[e])]
                   ELSE pool
        /\ remove_connection
        /\ notify_connection_available(w)
        /\ UNCHANGED waiting

(* ServerEndpoint::close of a connected endpoint: when the client quits,   *)
(* the connection goes to the pool if it can; otherwise, and when the      *)
(* connection or the client was lost, it is closed.                        *)
CloseConnected(e, quit) ==
    LET w == home[e]
    IN  /\ connstatus[e] = "CONNECTED"
        /\ IF quit /\ established(e) /\ has_space(w)
           THEN /\ pool' = [pool EXCEPT ![w] = Append(@, kind[e])]
                /\ UNCHANGED n_current_conns
           ELSE remove_connection /\ UNCHANGED pool
        /\ notify_connection_available(w)
        /\ UNCHANGED waiting

(* Mutant: the entry in the wait list is not erased. *)
CloseWaitingListed(e) ==
    /\ connstatus[e] = "WAITING_FOR_CONN"
    /\ UNCHANGED <<n_current_conns, pool, queues>>

CloseWaiting(e) ==
    LET w == home[e]
    IN  /\ connstatus[e] = "WAITING_FOR_CONN"
        /\ \E i \in DOMAIN waiting[w] :
              /\ waiting[w][i] = e
              /\ waiting' = [waiting EXCEPT ![w] = WithoutPlace(@, i)]
        /\ UNCHANGED <<n_current_conns, pool, scheduled, posted>>

ClosePooled(e) ==
    /\ connstatus[e] = "IDLE_POOLED"
    /\ UNCHANGED <<n_current_conns, pool, queues>>

Close(e) ==
    /\ Idle(home[e])
    /\ (\E quit \in BOOLEAN : CloseConnected(e, quit)) \/ CloseWaiting(e) \/ ClosePooled(e)
    /\ Closed(e)
    /\ UNCHANGED <<n_conn_intents, worker, session, faults>>

-----------------------------------------------------------------------------
(* Events of a worker. *)

(* A pooled connection expires or is closed by the server. *)
close_pooled_dcb(w) ==
    /\ Idle(w)
    /\ \E i \in DOMAIN pool[w] : pool' = [pool EXCEPT ![w] = WithoutPlace(@, i)]
    /\ remove_connection
    /\ notify_connection_available(w)
    /\ UNCHANGED <<n_conn_intents, worker, waiting, endpoint, session, faults>>

(* activate_waiting_endpoints starts with the first endpoint that waits. *)
activate_waiting_endpoints(w, posted_task) ==
    /\ waiting[w] # <<>>
    /\ get_backend_connection(w, Head(waiting[w]), "continue")
    /\ task' = [task EXCEPT ![w] = posted_task]
    /\ UNCHANGED scheduled

(* The posted task. *)
Activate(w) ==
    /\ Idle(w) /\ posted[w]
    /\ posted' = [posted EXCEPT ![w] = FALSE]
    /\ \/ activate_waiting_endpoints(w, TRUE)
       \/ /\ waiting[w] = <<>>
          /\ scheduled' = [scheduled EXCEPT ![w] = FALSE]
          /\ UNCHANGED worker
    /\ UNCHANGED <<n_current_conns, n_conn_intents, pool, waiting, endpoint, session, faults>>

(* Mutant: without the timer. *)
ActivateTimerNever(w) == FALSE /\ UNCHANGED vars

(* The timer of make_dcalls.  A run that finds no connection in the pool   *)
(* and reads that the limit is reached changes nothing and is not a step.  *)
ActivateTimer(w) ==
    /\ Idle(w) /\ waiting[w] # <<>>
    /\ \/ Reusable(w, Head(waiting[w])) # {}
       \/ n_current_conns < max_routing_connections
    /\ activate_waiting_endpoints(w, FALSE)
    /\ UNCHANGED <<n_current_conns, n_conn_intents, pool, waiting, posted, endpoint, session, faults>>

(* execute fails: the flag is set, but the task will not run. *)
PostFails(w) ==
    /\ posted[w] /\ faults < MaxFaults
    /\ posted' = [posted EXCEPT ![w] = FALSE]
    /\ faults' = faults + 1
    /\ UNCHANGED <<n_current_conns, n_conn_intents, worker, pool, waiting, scheduled, endpoint, session>>

(* The first of the waiting endpoints has waited too long. *)
fail_timed_out_endpoints(w) ==
    /\ Idle(w) /\ waiting[w] # <<>>
    /\ Closed(Head(waiting[w]))
    /\ waiting' = [waiting EXCEPT ![w] = Tail(@)]
    /\ UNCHANGED <<n_current_conns, n_conn_intents, worker, pool, scheduled, posted,
                   session, faults>>

-----------------------------------------------------------------------------
GetConnection(w) ==
    \/ Reuse(w) \/ ReuseFails(w) \/ ReadConns(w) \/ PreCheck(w) \/ add_conn_intent(w)
    \/ Recheck(w) \/ Create(w) \/ CreateFails(w) \/ remove_conn_intent(w)
    \/ handle_failed_continue(w)

SessionEvent(e) ==
    \/ Open(e) \/ routeQuery(e) \/ ConnectionReady(e) \/ clientReply(e)
    \/ try_to_pool(e) \/ NothingToPool(e) \/ Close(e)

WorkerEvent(w) ==
    \/ close_pooled_dcb(w) \/ Activate(w) \/ ActivateTimer(w) \/ PostFails(w)
    \/ fail_timed_out_endpoints(w)

Next ==
    \/ \E w \in Workers : GetConnection(w) \/ WorkerEvent(w)
    \/ \E e \in Endpoints : SessionEvent(e)

Spec == Init /\ [][Next]_vars

(* A callback that has started goes on, the server completes handshakes    *)
(* and answers, and a worker serves its message queue, the delayed calls   *)
(* of its sessions and its two timers.  Nothing makes a client send or     *)
(* quit, and nobody relies on the timeout.                                 *)
Fairness ==
    /\ \A w \in Workers : /\ WF_vars(GetConnection(w))
                          /\ WF_vars(Activate(w))
                          /\ WF_vars(ActivateTimer(w))
                          /\ WF_vars(close_pooled_dcb(w))
    /\ \A e \in Endpoints : /\ WF_vars(ConnectionReady(e) \/ clientReply(e))
                            /\ WF_vars(try_to_pool(e))

LiveSpec == Spec /\ Fairness

-----------------------------------------------------------------------------
TypeOK ==
    /\ n_current_conns \in Nat /\ n_conn_intents \in Nat
    /\ pc \in [Workers -> {"idle", "pool", "check", "intent", "recheck", "create", "retract", "failed"}]
    /\ ep \in [Workers -> Endpoints \union {NoEndpoint}]
    /\ caller \in [Workers -> {"connect", "route", "continue"}]
    /\ value \in [Workers -> Nat]
    /\ result \in [Workers -> {"none", "conn", "limit", "fail"}]
    /\ task \in [Workers -> BOOLEAN]
    /\ \A w \in Workers : pool[w] \in Seq(Kinds) /\ Len(pool[w]) <= capacity
    /\ \A w \in Workers : waiting[w] \in Seq(Endpoints)
    /\ scheduled \in [Workers -> BOOLEAN] /\ posted \in [Workers -> BOOLEAN]
    /\ connstatus \in [Endpoints -> Status]
    /\ ready \in [Endpoints -> BOOLEAN]
    /\ outstanding \in [Endpoints -> 0..MaxQueries]
    /\ \A e \in Endpoints : delayed[e] \in Seq(1..MaxQueries)
    /\ \A e \in Endpoints : sent[e] \in Seq(1..MaxQueries)
    /\ can_pool \in [Endpoints -> BOOLEAN] /\ poolcall \in [Endpoints -> BOOLEAN]
    /\ kind \in KindChoices
    /\ routed \in [Endpoints -> 0..MaxQueries]
    /\ opens \in [Endpoints -> 0..MaxOpens]
    /\ faults \in 0..MaxFaults

(* There are never more connections than max_routing_connections allows,   *)
(* pooled ones included, however the workers interleave in the two checks  *)
(* of get_backend_connection.                                              *)
LimitHolds == n_current_conns <= max_routing_connections

(* The counters of the server are right: every connection of an endpoint,  *)
(* in a pool, or on its way from add_connection to its endpoint is counted *)
(* once, and every worker between its two updates of the intents.          *)
CountsRight ==
    /\ n_conn_intents = Cardinality({w \in Workers : pc[w] \in {"recheck", "create", "retract"}})
    /\ n_current_conns =
          Cardinality({e \in Endpoints : connstatus[e] \in {"CONNECTED", "CONNECTED_FAILED"}})
          + Cardinality({p \in Workers \X (1..capacity) : p[2] <= Len(pool[p[1]])})
          + Cardinality({w \in Workers : pc[w] = "retract" /\ result[w] = "conn"})

(* An endpoint that waits is in the queue of its worker, once, and in no   *)
(* other; what is in a queue waits, but for the first one while it is      *)
(* being erased.  A closed endpoint is never activated.                    *)
QueueRight ==
    \A w \in Workers :
        LET q == waiting[w]
        IN  /\ \A i, j \in DOMAIN q : q[i] = q[j] => i = j
            /\ \A i \in DOMAIN q :
                  /\ home[q[i]] = w
                  /\ \/ connstatus[q[i]] = "WAITING_FOR_CONN"
                     \/ i = 1 /\ pc[w] = "failed" /\ connstatus[q[i]] = "CONNECTED_FAILED"
            /\ \A e \in Endpoints : home[e] = w /\ connstatus[e] = "WAITING_FOR_CONN" =>
                  \E i \in DOMAIN q : q[i] = e

(* The connections that a session has one after the other get its packets  *)
(* in the order in which they were routed, each once: also those that were *)
(* delayed while the session waited for a connection.                      *)
PacketsInOrder ==
    \A e \in Endpoints :
        connstatus[e] = "CONNECTED" => sent[e] = [i \in 1..routed[e] |-> i]

(* No wakeup is missed inside of a worker: when the worker is back in its  *)
(* loop, an endpoint waits and the pool holds a connection, a check is     *)
(* scheduled, provided that the sessions of the worker can use each        *)
(* other's connections.                                                    *)
NoWakeupMissed ==
    \A w \in Workers :
        /\ Idle(w) /\ waiting[w] # <<>> /\ pool[w] # <<>>
        /\ \A e, f \in Endpoints : home[e] = w /\ home[f] = w => kind[e] = kind[f]
        => scheduled[w]

(* e waits in vain only while all connections that the limit allows are    *)
(* held by sessions that keep them: those of other workers, those without  *)
(* sharing, those inside of a transaction, and those that waited without a *)
(* query until their delayed call found nothing to pool and ended: no      *)
(* reply schedules it again (the TODO in pool_backends_cb).                *)
HeldByOthers(e) ==
    /\ n_current_conns >= max_routing_connections
    /\ \A w \in Workers : pool[w] = <<>>
    /\ \A f \in Endpoints : home[f] = home[e] /\ connstatus[f] = "CONNECTED" =>
          \/ f \notin Sharing
          \/ ~can_pool[f]
          \/ ~poolcall[f] /\ sent[f] = <<>>

(* An endpoint that waits gets a connection, or fails, without waiting for *)
(* its timeout, even if the task that activates it is never run and though *)
(* other workers do not notify it (activate_eps_cb), once the clients have *)
(* sent their queries; unless the connections are held by others for good. *)
NoStarvation ==
    \A e \in Sharing :
        <>[](connstatus[e] = "WAITING_FOR_CONN") => <>[]HeldByOthers(e)
=============================================================================
