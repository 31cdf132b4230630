------------------------------ MODULE History ------------------------------
(***************************************************************************)
(* The session command history of one session: the History class, the      *)
(* Subscriber every backend connection holds, the recording of a command   *)
(* in the client connection and the replay of the history by a connection  *)
(* that is opened later.  The router is readwritesplit, seen from here: it *)
(* writes a session command to every connection in use, returns one of the *)
(* responses to the client and ignores the others.                         *)
(*                                                                         *)
(* A session lives in one worker thread, so that a step is one event: a    *)
(* packet of the client, a response of a server, a lost connection, or an  *)
(* lcall, which runs when the events of the batch have been handled.  The  *)
(* response to a command is success or failure, as in the source.          *)
(***************************************************************************)
EXTENDS Integers, SequencesExt

CONSTANTS
    Backends,       \* the backend connections of the session
    Sets,           \* the statements that set a session variable
    Prepares,       \* the statements that are prepared (COM_STMT_PREPARE)
    Variable,       \* Variable[s]: the variable that s \in Sets sets
    None,
    Limits,         \* the arguments of the constructor, with the bounds below
    MaxCommands,    \* the largest bound on the session commands
    RepeatPrepares  \* may a text be prepared that is prepared and not closed

Stmts == Sets \cup Prepares
Ids   == 1 .. MaxCommands
Vars  == {Variable[s] : s \in Sets}

(* The arguments of the constructor of History, and the bounds: how many   *)
(* session commands and how many other statements the client sends, how    *)
(* many connections are lost or pooled and how many executions fail.       *)
ASSUME HistoryAssumption ==
    /\ MaxCommands \in Nat
    /\ Limits \subseteq [limit : Nat, allow_pruning : BOOLEAN, disable_history : BOOLEAN,
                        commands : 0 .. MaxCommands, reads : Nat, faults : Nat, failures : Nat]
    /\ RepeatPrepares \in BOOLEAN
    /\ Sets \cap Prepares = {} /\ Sets \subseteq DOMAIN Variable
    /\ None \notin Backends \cup Stmts

VARIABLES
    limits,     \* the arguments of the History constructor, and the bounds
    hist,       \* m_history, m_history_responses and m_history_pruned
    info,       \* m_history_info: of every subscriber
    conn,       \* MariaDBBackendConnection with its Subscriber
    router,     \* the statement in progress and the one queued behind it
    lcall,      \* the pending call of check_early_responses
    client,     \* the client connection, and what the client has used up
    accepted,   \* accepted[id]: the response that the client got
    results     \* what the server of every connection did since it was opened

vars == <<limits, hist, info, conn, router, lcall, client, accepted, results>>

Empty == [i \in {} |-> TRUE]

Only(f, ids) == [i \in ids |-> f[i]]

Put(f, i, v) == [j \in DOMAIN f \cup {i} |-> IF j = i THEN v ELSE f[j]]

-----------------------------------------------------------------------------
(* Queries.  id is GWBUF::id(), 0 if the query is not recorded; accept: the *)
(* client gets the response.  The arg of a COM_STMT_CLOSE and of a         *)
(* COM_STMT_EXECUTE is the id of the COM_STMT_PREPARE.                     *)

Query(cmd, id, arg) == [cmd |-> cmd, id |-> id, arg |-> arg, accept |-> FALSE]

CmdOf(s) == IF s \in Prepares THEN "prepare" ELSE "set"

is_recorded(q)  == q # None /\ q.id > 0
will_respond(q) == q.cmd # "close"

-----------------------------------------------------------------------------
(* History.                                                                *)

max_sescmd_history == IF limits.disable_history THEN 0 ELSE limits.limit

InHistory(buffers, id) == \E i \in DOMAIN buffers : buffers[i].id = id

(* Recovery is possible if no session commands have been executed, if      *)
(* pruning is enabled or if the limit hasn't been exceeded.                *)
can_recover_state ==
    \/ hist.buffers = <<>>
    \/ max_sescmd_history > 0 /\ (limits.allow_pruning \/ ~hist.pruned)

(* One round of the loop over the subscribers.                             *)
\* Mutant of lower_bound: the command in progress is not looked at
lower_bound_position(min, position, current_id) ==
    IF position > 0 /\ position < min THEN position ELSE min

lower_bound(min, position, current_id) ==
    IF position > 0 /\ position < min THEN position
    ELSE IF current_id # 0 /\ current_id < min THEN current_id
    ELSE min

is_subscribed(c) == c.state \notin {"CLOSED", "FAILED"}

(* order: the addresses of the subscribers are the keys of m_history_info. *)
(* garbage: what the read of m_history.back() gives if m_history is empty. *)
prune_responses(buffers, responses, cs, order, garbage) ==
    LET back   == IF buffers = <<>> THEN garbage ELSE Last(buffers).id
        min_id == FoldLeft(LAMBDA m, b : IF is_subscribed(cs[b])
                                         THEN lower_bound(m, info[b].position, cs[b].current_id)
                                         ELSE m, back, order)
    IN  Only(responses, {i \in DOMAIN responses : i >= min_id \/ InHistory(buffers, i)})

\* Mutant of add: a command that is repeated stays in the old place
add_in_place(q, ok, cs, order, garbage) ==
    LET old       == SelectInSeq(hist.buffers, LAMBDA e : e.arg = q.arg)
        new       == [id |-> q.id, arg |-> q.arg]
        responses == Put(hist.responses, q.id, ok)
        pushed    == IF old > 0 THEN [hist.buffers EXCEPT ![old] = new]
                     ELSE Append(hist.buffers, new)
        full      == Len(pushed) > max_sescmd_history
        buffers   == IF full THEN Tail(pushed) ELSE pushed
    IN  [buffers   |-> buffers,
         pruned    |-> hist.pruned \/ full,
         responses |-> prune_responses(buffers, responses, cs, order, garbage)]

(* emplace does not replace a response.                                    *)
add(q, ok, cs, order, garbage) ==
    LET same(e)   == e.arg = q.arg
        unique    == IF limits.allow_pruning THEN RemoveFirstMatch(hist.buffers, same)
                     ELSE hist.buffers
        responses == IF q.id \in DOMAIN hist.responses THEN hist.responses
                     ELSE Put(hist.responses, q.id, ok)
        pushed    == Append(unique, [id |-> q.id, arg |-> q.arg])
        full      == Len(pushed) > max_sescmd_history
        buffers   == IF full THEN Tail(pushed) ELSE pushed
    IN  [buffers   |-> buffers,
         pruned    |-> hist.pruned \/ full,
         responses |-> prune_responses(buffers, responses, cs, order, garbage)]

(* The response stays.                                                     *)
erase(id) == [hist EXCEPT !.buffers = SelectSeq(@, LAMBDA e : e.id # id)]

\* Mutant of pin_responses: nothing is pinned
pin_responses_never == [position |-> 0, waiting |-> FALSE]

pin_responses ==
    [position |-> IF hist.buffers = <<>> THEN 0 ELSE Head(hist.buffers).id,
     waiting  |-> FALSE]

NotSubscribed == [position |-> 0, waiting |-> FALSE]

-----------------------------------------------------------------------------
(* Subscriber: the new [c, info, ok] for the response of connection c.     *)

\* Mutant of add_response: an early response is not remembered
add_response_late(c, i, success, responses) ==
    LET id == c.current_id
        c1 == [c EXCEPT !.current_id = 0]
    IN  IF id # 0 /\ id \in DOMAIN responses
        THEN [c |-> c1, info |-> [i EXCEPT !.position = id], ok |-> success = responses[id]]
        ELSE [c |-> c1, info |-> i, ok |-> TRUE]

add_response(c, i, success, responses) ==
    LET id == c.current_id
        c1 == [c EXCEPT !.current_id = 0]
    IN  IF id = 0 THEN [c |-> c, info |-> i, ok |-> TRUE]
        ELSE IF id \in DOMAIN responses
        THEN [c |-> c1, info |-> [i EXCEPT !.position = id], ok |-> success = responses[id]]
        ELSE [c |-> [c1 EXCEPT !.ids_to_check = Put(@, id, success)],
              info |-> [i EXCEPT !.waiting = TRUE], ok |-> TRUE]

(* For a subscriber whose waiting_for_response has been cleared.           *)
compare_responses(c, i, id, success) ==
    IF id \in DOMAIN c.ids_to_check
    THEN [c |-> [c EXCEPT !.ids_to_check = Only(@, DOMAIN @ \ {id})],
          info |-> [i EXCEPT !.position = id, !.waiting = FALSE],
          ok |-> c.ids_to_check[id] = success]
    ELSE [c |-> c, info |-> [i EXCEPT !.waiting = c.ids_to_check # Empty], ok |-> TRUE]

-----------------------------------------------------------------------------
(* MariaDBBackendConnection.  queue: the queries that were sent and whose  *)
(* response has not been read.  The first of them is the current one only  *)
(* if it was sent to an idle connection: the next one becomes the current  *)
(* query when its response arrives.  CONNECTING stands for all the states  *)
(* before SEND_HISTORY.                                                    *)

Closed(state) ==
    [state |-> state, current_id |-> 0, ids_to_check |-> Empty, queue |-> <<>>,
     delayed |-> <<>>, ps_map |-> {}, unknown_ps |-> {}]

in_use(b)  == is_subscribed(conn[b])
InUse      == {b \in Backends : in_use(b)}

(* A COM_STMT_CLOSE has no response: the reply is complete at once.        *)
track_query(c, q) ==
    [c EXCEPT !.current_id = q.id, !.queue = IF will_respond(q) THEN <<q>> ELSE <<>>]

prepare_for_write(c, q) ==
    IF c.queue = <<>> THEN track_query(c, q) ELSE [c EXCEPT !.queue = Append(@, q)]

(* A statement that this connection has not prepared is only expected in a *)
(* COM_STMT_CLOSE, if the response to the prepare is still there.  Else an *)
(* assertion fails; the client gets an error if it expects a response.     *)
ps_command(c, q, responses) ==
    IF q.arg \in c.ps_map
    THEN [c EXCEPT !.ps_map = IF q.cmd = "close" THEN @ \ {q.arg} ELSE @]
    ELSE IF q.cmd = "close" /\ q.arg \in DOMAIN responses THEN c
    ELSE [c EXCEPT !.unknown_ps = @ \cup {q.arg}]

is_ps_command(q) == q.cmd \in {"close", "execute"}

\* Mutant of routeQuery: a COM_STMT_PREPARE does not hold back what follows
routeQuery_no_wait(c, q, responses) ==
    IF c.state # "ROUTING" THEN [c EXCEPT !.delayed = Append(@, q)]
    ELSE IF is_ps_command(q) THEN ps_command(prepare_for_write(c, q), q, responses)
    ELSE prepare_for_write(c, q)

routeQuery(c, q, responses) ==
    IF c.state # "ROUTING" THEN [c EXCEPT !.delayed = Append(@, q)]
    ELSE CASE is_ps_command(q) -> ps_command(prepare_for_write(c, q), q, responses)
           [] q.cmd = "prepare" -> [prepare_for_write(c, q) EXCEPT !.state = "PREPARE_PS"]
           [] OTHER             -> prepare_for_write(c, q)

(* What comes after a COM_STMT_PREPARE goes back to the delayed packets.   *)
send_delayed_packets(c, responses) ==
    FoldLeft(LAMBDA d, q : routeQuery(d, q, responses),
             [c EXCEPT !.state = "ROUTING", !.delayed = <<>>], c.delayed)

send_history(c) ==
    FoldLeft(LAMBDA d, e : prepare_for_write(d, Query(CmdOf(e.arg), e.id, e.arg)),
             c, hist.buffers)

(* SEND_DELAYQ, once the responses to the history have been read.          *)
read_history(c, responses) ==
    IF c.queue = <<>> THEN send_delayed_packets(c, responses)
    ELSE [c EXCEPT !.state = "READ_HISTORY"]

(* The query whose response is read next, and the queries behind it.       *)
NextResponding(c) == SelectInSeq(c.queue, will_respond)
Responding(c)     == c.queue[NextResponding(c)]
Behind(c)         == SubSeq(c.queue, NextResponding(c) + 1, Len(c.queue))

-----------------------------------------------------------------------------
(* The router.                                                             *)

Idle == [current |-> None, target |-> None, queued |-> None]

(* m_num_responses of the client connection: the answers the client waits  *)
(* for.                                                                    *)
num_responses ==
    (IF router.current = None THEN 0 ELSE 1) + (IF router.queued = None THEN 0 ELSE 1)

(* RECORD_HISTORY: the client connection reads no packets.                 *)
is_recording == is_recorded(router.current) \/ is_recorded(router.queued)

route_session_write(cs, q, replier, responses) ==
    [b \in Backends |-> IF is_subscribed(cs[b])
                        THEN routeQuery(cs[b], [q EXCEPT !.accept = b = replier], responses)
                        ELSE cs[b]]

route_single(cs, q, b, responses) ==
    [cs EXCEPT ![b] = routeQuery(@, [q EXCEPT !.accept = TRUE], responses)]

route(cs, q, b, responses) ==
    IF is_recorded(q) THEN route_session_write(cs, q, b, responses)
    ELSE route_single(cs, q, b, responses)

(* The connections that a command reaches while they are being opened with *)
(* nothing pinned: see README.                                             *)
Unpinned(q) ==
    {b \in InUse : is_recorded(q) /\ info[b].position = 0
                   /\ conn[b].state \in {"CONNECTING", "RESET_CONNECTION_FAST"}}

NoResults == [vars |-> [v \in Vars |-> None], answers |-> Empty, all |-> {}, unpinned |-> {}]

NoteUnpinned(q) ==
    [b \in Backends |-> IF b \in Unpinned(q)
                        THEN [results[b] EXCEPT !.unpinned = @ \cup {q.id}] ELSE results[b]]

-----------------------------------------------------------------------------
(* The client.                                                             *)

(* The router stores a command that arrives while it waits for a response. *)
ClientCommand(s) ==
    LET q == Query(CmdOf(s), Len(client.sent) + 1, s)
    IN  /\ ~is_recording
        /\ Len(client.sent) < limits.commands
        /\ RepeatPrepares \/ \A id \in client.open_ps : client.sent[id] # s
        /\ client' = [client EXCEPT !.sent = Append(@, s)]
        /\ \/ /\ router.current # None
              /\ router' = [router EXCEPT !.queued = q]
              /\ UNCHANGED <<conn, results>>
           \/ /\ router.current = None
              /\ \E b \in InUse :
                    /\ router' = [router EXCEPT !.current = q, !.target = b]
                    /\ conn' = route(conn, q, b, hist.responses)
              /\ results' = NoteUnpinned(q)
        /\ UNCHANGED <<limits, hist, info, lcall, accepted>>

(* The client uses a statement when it has got the response to the prepare *)
(* and the events that came with the response have been handled.           *)
CanUse(id) == id \in client.open_ps /\ (lcall # None => lcall.id # id)

(* Another statement, which goes to one connection: it may execute an open *)
(* prepared statement.                                                     *)
ClientRead(b, ps) ==
    LET q == IF ps = None THEN Query("read", 0, None) ELSE Query("execute", 0, ps)
    IN  /\ num_responses = 0 /\ b \in InUse /\ (ps # None => CanUse(ps))
        /\ client.reads < limits.reads
        /\ client' = [client EXCEPT !.reads = @ + 1]
        /\ router' = [router EXCEPT !.current = q, !.target = b]
        /\ conn' = route(conn, q, b, hist.responses)
        /\ UNCHANGED <<limits, hist, info, lcall, accepted, results>>

(* COM_STMT_CLOSE: the prepare leaves the history and all connections get  *)
(* the command.                                                            *)
ClientClose(id) ==
    LET q == Query("close", 0, id)
    IN  /\ num_responses = 0
        /\ CanUse(id)
        /\ client' = [client EXCEPT !.open_ps = @ \ {id}]
        /\ hist' = erase(id)
        /\ conn' = route_session_write(conn, q, None, hist.responses)
        /\ UNCHANGED <<limits, info, router, lcall, accepted, results>>

Failures(q, ok) == IF is_recorded(q) /\ ~ok THEN client.failures + 1 ELSE client.failures

(* What finish_recording_history does besides adding to the history.       *)
Accepted(q, ok) ==
    /\ lcall' = [id |-> q.id, ok |-> ok]
    /\ accepted' = Put(accepted, q.id, ok)
    /\ client' = [client EXCEPT !.failures = Failures(q, ok),
           !.open_ps = IF ok /\ q.cmd = "prepare" THEN @ \cup {q.id} ELSE @,
           !.vars = IF ok /\ q.cmd = "set" THEN [@ EXCEPT ![Variable[q.arg]] = q.arg] ELSE @]

NothingAccepted(q, ok) ==
    /\ client' = [client EXCEPT !.failures = Failures(q, ok)]
    /\ UNCHANGED <<lcall, accepted>>

-----------------------------------------------------------------------------
(* The servers.                                                            *)

(* Connections are opened when a statement is routed.  A new connection or *)
(* one that is reset with COM_CHANGE_USER sends the history later; after a *)
(* COM_RESET_CONNECTION the history is sent at once.                       *)
Connect(b, fast) ==
    LET c == Closed("CONNECTING")
    IN  /\ conn[b].state = "CLOSED"
        /\ router.current = None \/ (router.target = None /\ InUse = {})
        /\ can_recover_state
        /\ conn' = [conn EXCEPT ![b] = IF fast
               THEN [send_history(c) EXCEPT !.state = "RESET_CONNECTION_FAST"] ELSE c]
        /\ info' = [info EXCEPT ![b] = pin_responses]
        /\ results' = [results EXCEPT ![b] = NoResults]
        /\ UNCHANGED <<limits, hist, router, lcall, client, accepted>>

(* The connection is ready: the server has authenticated or reset it.      *)
Ready(b) ==
    LET c == conn[b]
    IN  /\ c.state \in {"CONNECTING", "RESET_CONNECTION_FAST"}
        /\ conn' = [conn EXCEPT ![b] = read_history(
               IF c.state = "CONNECTING" THEN send_history(c) ELSE c, hist.responses)]
        /\ UNCHANGED <<limits, hist, info, router, lcall, client, accepted, results>>

(* The connection is closed: what the router waited for is tried again.    *)
CloseConn(r, b) == IF r.target = b THEN [r EXCEPT !.target = None] ELSE r

ConnectionLost(b) ==
    /\ in_use(b)
    /\ client.faults < limits.faults
    /\ client' = [client EXCEPT !.faults = @ + 1]
    /\ conn' = [conn EXCEPT ![b] = Closed("CLOSED")]
    /\ info' = [info EXCEPT ![b] = NotSubscribed]
    /\ router' = CloseConn(router, b)
    /\ UNCHANGED <<limits, hist, lcall, accepted, results>>

\* Mutant of set_to_pooled: the subscriber is kept
set_to_pooled_subscribed(b) ==
    /\ conn[b].state = "ROUTING" /\ conn[b].queue = <<>>
    /\ num_responses = 0 /\ ~hist.pruned /\ lcall = None
    /\ client.faults < limits.faults
    /\ client' = [client EXCEPT !.faults = @ + 1]
    /\ conn' = [conn EXCEPT ![b] = Closed("CLOSED")]
    /\ UNCHANGED <<limits, hist, info, router, lcall, accepted, results>>

(* An idle connection goes to the pool; readwritesplit closes its backend. *)
set_to_pooled(b) ==
    /\ conn[b].state = "ROUTING" /\ conn[b].queue = <<>>
    /\ num_responses = 0 /\ ~hist.pruned /\ lcall = None
    /\ client.faults < limits.faults
    /\ client' = [client EXCEPT !.faults = @ + 1]
    /\ conn' = [conn EXCEPT ![b] = Closed("CLOSED")]
    /\ info' = [info EXCEPT ![b] = NotSubscribed]
    /\ UNCHANGED <<limits, hist, router, lcall, accepted, results>>

Retry(b) ==
    /\ router.current # None /\ router.target = None
    /\ b \in InUse
    /\ router' = [router EXCEPT !.target = b]
    /\ conn' = route(conn, router.current, b, hist.responses)
    /\ results' = NoteUnpinned(router.current)
    /\ UNCHANGED <<limits, hist, info, lcall, client, accepted>>

(* What the server did: answers has the response that is to be compared.   *)
Executed(b, q, ok) ==
    [results[b] EXCEPT
        !.vars = IF ok /\ q.cmd = "set" THEN [@ EXCEPT ![Variable[q.arg]] = q.arg] ELSE @,
        !.answers = IF is_recorded(q) /\ (q.id \notin DOMAIN accepted \/ q.id \notin DOMAIN @)
                    THEN Put(@, q.id, ok) ELSE @,
        !.all = IF is_recorded(q) THEN @ \cup {[id |-> q.id, ok |-> ok]} ELSE @]

(* The connection before the response to q is passed on.                   *)
Tracked(c, q, ok) ==
    [c EXCEPT !.queue = Behind(c), !.current_id = q.id,
              !.ps_map = IF ok /\ q.cmd = "prepare" THEN @ \cup {q.id} ELSE @]

(* An lcall runs before the next batch of events, in which the responses   *)
(* to what is sent now arrive.                                             *)
CanRespond(b, ok) ==
    /\ conn[b].state \in {"READ_HISTORY", "ROUTING", "PREPARE_PS"}
    /\ NextResponding(conn[b]) > 0
    /\ lcall # None => Responding(conn[b]).id \in 1 .. lcall.id
    /\ ok \/ (is_recorded(Responding(conn[b])) /\ client.failures < limits.failures)

(* The end of normal_read and of read_history_response: the response has   *)
(* been passed on, and is compared.  c: the connection by then.            *)
Compare(b, ok, cs, h, r) ==
    LET a  == add_response(cs[b], info[b], ok, h.responses)
        c  == CASE a.c.state = "READ_HISTORY" -> read_history(a.c, h.responses)
                [] a.c.state = "PREPARE_PS" /\ a.c.queue = <<>>
                       -> send_delayed_packets(a.c, h.responses)
                [] OTHER -> a.c
    IN  IF a.ok
        THEN /\ conn' = [cs EXCEPT ![b] = c]
             /\ info' = [info EXCEPT ![b] = a.info]
             /\ router' = r
        ELSE /\ conn' = [cs EXCEPT ![b] = Closed("FAILED")]
             /\ info' = [info EXCEPT ![b] = NotSubscribed]
             /\ router' = CloseConn(r, b)

(* A response that is not for the client: it belongs to the replay of the  *)
(* history, or the router ignores it.                                      *)
IgnoredResponse(b, ok) ==
    LET q == Responding(conn[b])
    IN  /\ CanRespond(b, ok) /\ ~q.accept
        /\ Compare(b, ok, [conn EXCEPT ![b] = Tracked(@, q, ok)], hist, router)
        /\ results' = [results EXCEPT ![b] = Executed(b, q, ok)]
        /\ NothingAccepted(q, ok)
        /\ UNCHANGED <<limits, hist>>

Orders  == SetToSeqs(Backends)
Garbage == IF max_sescmd_history = 0 THEN 0 .. MaxCommands ELSE {0}

(* m_pending_cmd                                                           *)
pending_cmd == IF is_recorded(router.current) THEN router.current ELSE router.queued

finish_recording_history(ok, cs) ==
    /\ \E order \in Orders, garbage \in Garbage :
          hist' = add(pending_cmd, ok, cs, order, garbage)
    /\ Accepted(pending_cmd, ok)

\* Mutant of clientReply: m_num_responses is not looked at
clientReply_any(ok, cs) ==
    IF is_recording THEN finish_recording_history(ok, cs)
    ELSE UNCHANGED <<hist, lcall, accepted, client>>

(* A response that comes before the one to the recorded command, which the *)
(* router has stored, is not the one to record.                            *)
clientReply(ok, cs) ==
    IF is_recording /\ num_responses = 1 THEN finish_recording_history(ok, cs)
    ELSE UNCHANGED <<hist, lcall, accepted, client>>

(* The response to a session command that the router returns: the client   *)
(* connection adds the command to the history before the connection        *)
(* compares the response.                                                  *)
AcceptedResponse(b, ok) ==
    LET q  == Responding(conn[b])
        cs == [conn EXCEPT ![b] = Tracked(@, q, ok)]
    IN  /\ CanRespond(b, ok) /\ q.accept /\ is_recorded(q)
        /\ clientReply(ok, cs)
        /\ Compare(b, ok, cs, hist', Idle)
        /\ results' = [results EXCEPT ![b] = Executed(b, q, ok)]
        /\ UNCHANGED limits

(* The response to another statement.  If a session command is stored, the *)
(* router writes it before it returns: the connection that was read from   *)
(* tracks the command, and compares nothing.                               *)
ReadResponse(b, ok) ==
    LET q  == Responding(conn[b])
        cs == [conn EXCEPT ![b] = Tracked(@, q, ok)]
    IN  /\ CanRespond(b, ok) /\ q.accept /\ ~is_recorded(q)
        /\ clientReply(ok, cs)
        /\ \/ /\ router.queued = None
              /\ Compare(b, ok, cs, hist', Idle)
              /\ UNCHANGED results
           \/ /\ router.queued # None
              /\ \E replier \in InUse :
                    /\ conn' = route(cs, router.queued, replier, hist'.responses)
                    /\ router' = [Idle EXCEPT !.current = router.queued, !.target = replier]
              /\ results' = NoteUnpinned(router.queued)
              /\ UNCHANGED info
        /\ UNCHANGED limits

(* The lcall of finish_recording_history.                                  *)
check_early_responses ==
    LET new(b) == compare_responses(conn[b], info[b], lcall.id, lcall.ok)
        failed == {b \in Backends : info[b].waiting /\ ~new(b).ok}
    IN  /\ lcall # None
        /\ conn' = [b \in Backends |-> IF ~info[b].waiting THEN conn[b]
                                       ELSE IF b \in failed THEN Closed("FAILED") ELSE new(b).c]
        /\ info' = [b \in Backends |-> IF ~info[b].waiting THEN info[b]
                                       ELSE IF b \in failed THEN NotSubscribed ELSE new(b).info]
        /\ router' = IF router.target \in failed THEN [router EXCEPT !.target = None] ELSE router
        /\ lcall' = None
        /\ UNCHANGED <<limits, hist, client, accepted, results>>

Init ==
    /\ limits \in Limits
    /\ hist = [buffers |-> <<>>, responses |-> Empty, pruned |-> FALSE]
    /\ info = [b \in Backends |-> NotSubscribed]
    /\ conn = [b \in Backends |-> Closed("CLOSED")]
    /\ router = Idle
    /\ lcall = None
    /\ client = [sent |-> <<>>, reads |-> 0, faults |-> 0, failures |-> 0, open_ps |-> {},
                 vars |-> [v \in Vars |-> None]]
    /\ accepted = Empty
    /\ results = [b \in Backends |-> NoResults]

Next ==
    \/ \E s \in Stmts : ClientCommand(s)
    \/ \E id \in Ids : ClientClose(id)
    \/ check_early_responses
    \/ \E b \in Backends :
          \/ \E ps \in {None} \cup Ids : ClientRead(b, ps)
          \/ Ready(b) \/ Retry(b) \/ ConnectionLost(b) \/ set_to_pooled(b)
          \/ \E fast \in BOOLEAN : Connect(b, fast)
          \/ \E ok \in BOOLEAN :
                IgnoredResponse(b, ok) \/ AcceptedResponse(b, ok) \/ ReadResponse(b, ok)

Spec == Init /\ [][Next]_vars

-----------------------------------------------------------------------------
(* Properties.                                                             *)

Responses == UNION {[ids -> BOOLEAN] : ids \in SUBSET Ids}

(* The state has the types of the source, and a subscriber that is not     *)
(* subscribed holds nothing.                                               *)
TypeOK ==
    /\ limits \in Limits
    /\ \A i \in DOMAIN hist.buffers : hist.buffers[i].id \in Ids /\ hist.buffers[i].arg \in Stmts
    /\ {hist.responses, accepted} \subseteq Responses /\ hist.pruned \in BOOLEAN
    /\ \A b \in Backends :
          /\ info[b] \in [position : 0 .. MaxCommands, waiting : BOOLEAN]
          /\ conn[b].state \in {"CLOSED", "FAILED", "CONNECTING", "RESET_CONNECTION_FAST",
                                "READ_HISTORY", "ROUTING", "PREPARE_PS"}
          /\ conn[b].current_id \in 0 .. MaxCommands /\ conn[b].ids_to_check \in Responses
          /\ ~in_use(b) => conn[b] = Closed(conn[b].state) /\ info[b] = NotSubscribed
    /\ router.target \in Backends \cup {None}
    /\ lcall # None => lcall.id \in Ids

(* A connection on which a session command had another result than the one *)
(* the client got is not used: add_response or check_early_responses       *)
(* closes it, or check_early_responses is about to.  Left out are the      *)
(* commands that reached a connection that had nothing pinned while it was *)
(* being opened, whose recorded response may be gone.                      *)
MismatchNeverKept ==
    \A b \in InUse : \A id \in DOMAIN results[b].answers \cap DOMAIN accepted :
        \/ results[b].answers[id] = accepted[id]
        \/ id \in results[b].unpinned
        \/ lcall # None /\ lcall.id = id /\ info[b].waiting /\ id \in DOMAIN conn[b].ids_to_check

(* The history is enough to restore the state of the session: a connection *)
(* that has nothing more to execute, and whose results were the ones the   *)
(* client got, has the values that the client has set, whenever it was     *)
(* opened.  It holds until the history has lost a command, and as long as  *)
(* a statement that is executed again, which replaces the first one in the *)
(* history, has the same result again.                                     *)
RepeatsAlike ==
    \A i, j \in DOMAIN accepted : client.sent[i] = client.sent[j] => accepted[i] = accepted[j]

StateRecovered ==
    \A b \in Backends :
        /\ RepeatsAlike
        /\ conn[b].state = "ROUTING" /\ conn[b].queue = <<>>
        /\ ~hist.pruned
        /\ \A r \in results[b].all : r.id \in DOMAIN accepted /\ accepted[r.id] = r.ok
        => results[b].vars = client.vars

(* A prepared statement that the client has not closed is known to every   *)
(* connection it is executed on, and the close of it is known or could be  *)
(* skipped: the assertion in routeQuery holds.  Left out are the prepares  *)
(* that reached the connection while it was being opened with nothing      *)
(* pinned, and histories that have lost a command.                         *)
StatementsKnown ==
    \A b \in Backends : \A id \in conn[b].unknown_ps :
        hist.pruned \/ id \in results[b].unpinned
=============================================================================
