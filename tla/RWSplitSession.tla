--------------------------- MODULE RWSplitSession ---------------------------
(***************************************************************************)
(* One readwritesplit router session (class RWSplitSession).  A session    *)
(* lives on one worker thread and is driven by callbacks: routeQuery for a *)
(* statement of the client, clientReply for a chunk of a server's reply,   *)
(* handleError for a lost connection, a delayed call for a retry.  Each    *)
(* callback runs to its end before the next one, so this module defines    *)
(* every method of the class as a function from the session's state to its *)
(* state after the call, in the order the code performs the changes, and   *)
(* RWSplit makes one action of each callback.                              *)
(*                                                                         *)
(* A session state s is a record with the members of the class:            *)
(*   state, current_master, prev_plan, expected_responses, check_stale,    *)
(*   query_queue, wait_gtid, gtid_pos, retry_duration, can_replay_trx,     *)
(*   num_trx_replays, set_trx                                              *)
(*   current_query, interrupted_query, orig_stmt: a Stmt [buffer, sum]     *)
(*       where sum is what was received of the result so far (the checksum *)
(*       is the result itself, and Len(sum) is Stmt::bytes)                *)
(*   trx, replayed_trx, orig_trx: a Trx [log, checksums, target]           *)
(*   retries: the delayed calls of retry_query; m_pending_retries is their *)
(*       number                                                            *)
(*   qc: the query classifier (QueryClassifier)                            *)
(*   be: for each backend [st, responses, conn], conn being the far end of *)
(*       the connection: wire, the statements written to it and not yet    *)
(*       executed, rep, the rest of a reply that is being read, trx and    *)
(*       stmts, the transaction open on the server (RWSplit)               *)
(*   response: MXS_SESSION::response, a reply queued by set_response       *)
(*   out: the replies the client has received, closed: MXS_SESSION::kill   *)
(*       or a hangup ended the session                                     *)
(* and with what a method returns or leaves open:                          *)
(*   ok, plan: the value returned by the last call                         *)
(*   pick, connects: the outcome of the choices the code leaves to the     *)
(*       environment during the callback: which of several equally good    *)
(*       backends the selection criteria prefer, whether a connection can  *)
(*       be opened                                                         *)
(*   bad: the assertions of the code that were false when reached.         *)
(***************************************************************************)
EXTENDS Integers, Sequences, FiniteSets, SequencesExt, QueryClassifier

CONSTANTS
    Order,      \* m_raw_backends: a sequence of backends
    None,       \* nullptr, or an empty buffer
    Service     \* Service[i]: the parameters given to service i

Backends == Range(Order)

(* RWSConfig::post_configure: the parameters that others imply.            *)
post_configure(v) ==
    LET trx == v.transaction_replay \/ v.optimistic_trx
    IN  [v EXCEPT !.retry_failed_reads  = @ \/ v.causal_reads # "none",
                  !.transaction_replay  = trx,
                  !.delayed_retry       = @ \/ trx,
                  !.master_reconnection = @ \/ trx \/ v.lazy_connect,
                  !.master_failure_mode =
                      IF trx \/ v.lazy_connect THEN "fail_on_write" ELSE @]

(* A configuration with reconnections and without history is refused.      *)
(* trx_max_size counts statements, delayed_retry_timeout units of          *)
(* m_retry_duration, and trx_timeout is 0.                                 *)
ASSUME ServiceAssumption ==
    \A i \in DOMAIN Service :
        LET v == post_configure(Service[i]) IN
        /\ v.master_failure_mode \in {"fail_instantly", "fail_on_write", "error_on_write"}
        /\ v.causal_reads \in {"none", "local", "fast", "universal", "fast_universal"}
        /\ {v.trx_max_attempts, v.delayed_retry_timeout, v.max_slave_connections,
            v.trx_max_size, v.max_sescmd_history} \subseteq Nat
        /\ v.master_reconnection => ~v.disable_sescmd_history

ASSUME BackendsAssumption ==
    /\ Order \in Seq(Backends) /\ Len(Order) = Cardinality(Backends)
    /\ None \notin Backends

VARIABLES
    config, \* m_config: the values of the service's parameters
    ses,    \* the session
    status, \* status[b]: what the monitor says of the server of backend b
    applied \* applied[b]: the replication position of the server of backend b

(* History::can_recover_state, without the details of the history: it can  *)
(* be replayed until a command has been dropped from it, and also later if *)
(* pruning is allowed.  A disabled history is always empty.                *)
can_recover_servers(s) ==
    \/ config.disable_sescmd_history \/ config.prune_sescmd_history
    \/ s.sescmds <= config.max_sescmd_history

-----------------------------------------------------------------------------
EmptyStmt == [buffer |-> None, sum |-> <<>>]
EmptyTrx  == [log |-> <<>>, checksums |-> <<>>, target |-> None]
NoPlan    == [route_target |-> "UNDEFINED", target |-> None, type |-> "NORMAL"]
NoConn    == [wire |-> <<>>, rep |-> None, trx |-> "idle", stmts |-> <<>>]

Probe    == [id |-> 0, kind |-> "probe", hint |-> TRUE, wait |-> 0]
Rollback == [id |-> 0, kind |-> "rollback", hint |-> FALSE, wait |-> 0]

mxb_assert(s, cond, name) == IF cond THEN s ELSE [s EXCEPT !.bad = @ \cup {name}]

(* MXS_SESSION::kill, and the hangup after a callback returned false.      *)
kill(s) == [s EXCEPT !.closed = TRUE, !.retries = <<>>]

kill_unless_ok(s) == IF s.ok THEN s ELSE kill(s)

(* Target: the status bits the router looks at.                            *)
is_master(b)      == status[b] = "master"
is_slave(b)       == status[b] = "slave"
is_in_maint(b)    == status[b] = "maint"
is_usable(b)      == status[b] \in {"master", "slave", "running"}
is_connectable(b) == is_usable(b)

-----------------------------------------------------------------------------
(* Backend.                                                                *)

in_use(s, b)      == b # None /\ s.be[b].st = "IN_USE"
has_failed(s, b)  == s.be[b].st = "FATAL_FAILURE"
can_connect(s, b) == ~has_failed(s, b) /\ is_connectable(b)
is_idle(s, b)     == s.be[b].responses = <<>>
is_waiting_result(s, b)      == "EXPECT" \in Range(s.be[b].responses)
should_ignore_response(s, b) == ~is_idle(s, b) /\ s.be[b].responses[1] = "IGNORE"
is_expected_response(s, b)   == ~is_idle(s, b) /\ s.be[b].responses[1] = "EXPECT"

connect(s, b) ==
    [s EXCEPT !.ok = s.connects,
              !.be[b] = [st |-> IF s.connects THEN "IN_USE" ELSE "FATAL_FAILURE",
                         responses |-> <<>>, conn |-> NoConn]]

close(s, b, type) ==
    [s EXCEPT !.be[b] = [st |-> IF type = "FATAL" THEN "FATAL_FAILURE" ELSE "CLOSED",
                         responses |-> <<>>, conn |-> NoConn]]

write(s, b, q, type) ==
    [s EXCEPT !.be[b].conn.wire = Append(@, q),
              !.be[b].responses = Append(@, type)]

ack_write(s, b) == [s EXCEPT !.be[b].responses = Tail(@)]

-----------------------------------------------------------------------------
trx_is_open(s)       == is_trx_active(s.qc)
trx_is_read_only(s)  == is_trx_read_only(s.qc)
trx_is_ending(s)     == is_trx_ending(s.qc)
trx_is_starting(s)   == is_trx_starting(s.qc)
in_optimistic_trx(s) == s.state \in {"OTRX_STARTING", "OTRX_ACTIVE", "OTRX_ROLLBACK"}
replaying_trx(s)     == s.state \in {"TRX_REPLAY", "TRX_REPLAY_INTERRUPTED"}

(* strict_multi_stmt, strict_sp_calls and serializable isolation, the      *)
(* other reasons to be locked, are not modelled.                           *)
is_locked_to_master(s) == s.set_trx # None

supports_hint(trx) ==
    ~("ACTIVE" \in trx /\ (config.transaction_replay \/ config.causal_reads # "none"))

can_recover_master(s) == config.master_reconnection /\ can_recover_servers(s)

can_retry_query(s) ==
    config.delayed_retry /\ s.retry_duration < config.delayed_retry_timeout /\ ~trx_is_open(s)

can_continue_trx_replay(s) ==
    replaying_trx(s) /\ s.retry_duration < config.delayed_retry_timeout

have_open_connections(s) == \E b \in Backends : in_use(s, b)
is_last_backend(s, b)    == \A c \in Backends \ {b} : ~in_use(s, c)

need_master_for_sescmd(s) ==
    /\ trx_is_open(s) /\ ~trx_is_read_only(s) /\ ~in_optimistic_trx(s)
    /\ ~in_use(s, s.current_master)

-----------------------------------------------------------------------------
(* Choosing a backend.                                                     *)

PickOne(s, candidates) ==
    IF candidates = {} THEN None
    ELSE IF s.pick \in candidates THEN s.pick
    ELSE CHOOSE b \in candidates : TRUE

get_slave_counts(s, master) ==
    Cardinality({b \in Backends : in_use(s, b) /\ is_slave(b) /\ b # master})

need_slaves(s) == get_slave_counts(s, s.current_master) < config.max_slave_connections

\* Mutant of is_gtid_synced: the position is not compared
is_gtid_synced_always(s, b) == TRUE

is_gtid_synced(s, b) ==
    config.causal_reads \in {"fast", "fast_universal"} => applied[b] >= s.gtid_pos

get_backend_priority(s, b) ==
    IF is_slave(b) \/ (config.master_accept_reads /\ is_master(b))
    THEN IF should_ignore_response(s, b) THEN 1 ELSE 0
    ELSE 2

(* The replicas, or the primary, that can take a read.                     *)
slave_candidates(s) ==
    {b \in Backends :
        /\ is_master(b) \/ is_slave(b)
        /\ \/ in_use(s, b)
           \/ /\ can_recover_servers(s) /\ can_connect(s, b)
              /\ need_slaves(s) \/ b = s.current_master
        /\ b = s.current_master \/ is_gtid_synced(s, b)}

get_slave_backend(s) ==
    LET best == {b \in slave_candidates(s) : \A c \in slave_candidates(s) :
                     get_backend_priority(s, b) <= get_backend_priority(s, c)}
    IN  PickOne(s, best)

(* get_slave_backend assigns m_check_stale in every round of its loop: the *)
(* value of the last round stays.                                          *)
check_stale_after_select(s) == in_use(s, Last(Order)) /\ is_in_maint(Last(Order))

get_root_master(s) ==
    IF in_use(s, s.current_master) /\ is_master(s.current_master)
    THEN s.current_master
    ELSE PickOne(s, {b \in Backends : can_connect(s, b) /\ is_master(b)})

is_valid_for_master(s, b) ==
    /\ in_use(s, b) \/ (can_recover_master(s) /\ can_connect(s, b))
    /\ is_master(b) \/ (in_use(s, b) /\ is_in_maint(b) /\ trx_is_open(s))

get_master_backend(s) ==
    LET master == get_root_master(s)
    IN  IF master # None /\ is_valid_for_master(s, master) THEN master ELSE None

trx_target_still_valid(s) ==
    /\ in_use(s, s.trx.target)
    /\ \/ is_master(s.trx.target)
       \/ trx_is_read_only(s) /\ is_slave(s.trx.target)

\* Mutant of stays_on_trx_target: the probe too
stays_with_probe(s) ==
    trx_is_open(s) /\ s.trx.target # None

stays_on_trx_target(s) ==
    trx_is_open(s) /\ s.trx.target # None /\ s.wait_gtid # "READING_GTID"

get_target_backend(s, type) ==
    IF stays_on_trx_target(s)
    THEN IF trx_target_still_valid(s) THEN s.trx.target ELSE None
    ELSE IF type = "SLAVE" THEN get_slave_backend(s)
    ELSE get_master_backend(s)

handle_master_is_target(s) == get_target_backend(s, "MASTER")

get_last_used_backend(s) ==
    IF s.prev_plan.target # None THEN s.prev_plan.target ELSE get_master_backend(s)

get_target(s, route_target) ==
    CASE route_target = "LAST_USED" -> get_last_used_backend(s)
      [] route_target = "SLAVE"     -> get_target_backend(s, "SLAVE")
      [] route_target = "MASTER"    -> handle_master_is_target(s)
      [] route_target = "ALL"       -> None

should_try_trx_on_slave(s) ==
    /\ config.optimistic_trx /\ ~is_locked_to_master(s)
    /\ s.state = "ROUTING"
    /\ s.qc.target = "MASTER"
    /\ \E b \in Backends : is_slave(b) /\ in_use(s, b)
    /\ s.qc.still_ro

(* The routing plan of the statement that was just classified.             *)
resolve_route(s) ==
    LET start  == trx_is_starting(s) /\ ~trx_is_read_only(s) /\ should_try_trx_on_slave(s)
        inside == ~start /\ s.state \in {"OTRX_STARTING", "OTRX_ACTIVE"}
        target == IF start THEN "SLAVE" ELSE IF inside THEN "LAST_USED" ELSE s.qc.target
        selects == target = "SLAVE" /\ ~stays_on_trx_target(s)
    IN  [s EXCEPT
            !.check_stale = IF selects THEN check_stale_after_select(s) ELSE @,
            !.plan = [route_target |-> target,
                      target |-> get_target(s, target),
                      type   |-> IF start THEN "OTRX_START"
                                 ELSE IF inside /\ (trx_is_ending(s) \/ ~s.qc.still_ro)
                                 THEN "OTRX_END" ELSE "NORMAL"]]

-----------------------------------------------------------------------------
(* Connections, retries and the replay of transactions.                    *)

prepare_connection(s, b) ==
    LET s1 == connect(mxb_assert(s, ~in_use(s, b), "connect_in_use"), b)
    IN  IF s1.ok /\ s.set_trx # None /\ b = s.current_master
        THEN write(s1, b, s.set_trx, "IGNORE")
        ELSE s1

prepare_target(s, b) ==
    IF in_use(s, b) THEN [s EXCEPT !.ok = TRUE]
    ELSE prepare_connection(
             mxb_assert(s, ~has_failed(s, b) /\ can_recover_servers(s), "target_usable"), b)

(* discard_connection; QueryClassifier::master_replaced only concerns      *)
(* temporary tables.                                                       *)
discard_connection(s, b) == IF in_use(s, b) THEN close(s, b, "NORMAL") ELSE s

replace_master(s, b) ==
    [discard_connection(s, s.current_master) EXCEPT !.current_master = b]

should_replace_master(s, b) ==
    /\ config.master_reconnection /\ b # None /\ b # s.current_master
    /\ ~trx_is_open(s) \/ trx_is_starting(s) \/ (replaying_trx(s) /\ s.trx.target = None)
    /\ ~is_locked_to_master(s)
    /\ is_master(b)

\* Mutant of retry_query: the time is not counted
retry_query_forever(s, q) ==
    [mxb_assert(s, q # None, "retry_query") EXCEPT
        !.retries = Append(@, q)]

retry_query(s, q) ==
    [mxb_assert(s, q # None, "retry_query") EXCEPT
        !.retries = Append(@, q), !.retry_duration = @ + 1]

can_start_trx_replay(s) ==
    s.can_replay_trx /\ s.num_trx_replays < config.trx_max_attempts

\* Mutant of expect_one_less: the reply is still expected
expect_as_many(s) == s

(* A reply that was expected will not come.                                *)
expect_one_less(s) == [s EXCEPT !.expected_responses = @ - 1]

\* Mutant of save_or_restore_trx: every attempt saves what it has
save_trx(s) == [s EXCEPT !.orig_trx = s.trx, !.orig_stmt = s.current_query]

(* The transaction that is replayed: the first replay saves it and every   *)
(* later attempt starts from the saved copy.                               *)
save_or_restore_trx(s) ==
    IF s.state # "TRX_REPLAY"
    THEN [s EXCEPT !.orig_trx = s.trx, !.orig_stmt = s.current_query]
    ELSE [s EXCEPT !.trx = s.orig_trx, !.current_query = s.orig_stmt]

start_trx_replay(s) ==
    IF ~config.transaction_replay \/ ~can_start_trx_replay(s)
    THEN [s EXCEPT !.ok = FALSE]
    ELSE LET s1 == [save_or_restore_trx(s) EXCEPT
                        !.num_trx_replays = @ + 1, !.ok = TRUE]
             s2 == [s1 EXCEPT !.interrupted_query = s1.current_query,
                              !.current_query = EmptyStmt,
                              !.trx = EmptyTrx]
         IN  IF s1.trx.log # <<>>
             THEN retry_query([s2 EXCEPT !.state = "TRX_REPLAY",
                                         !.replayed_trx = [s1.trx EXCEPT !.log = Tail(@)]],
                              Head(s1.trx.log))
             ELSE IF s1.current_query.buffer # None
             THEN LET q == s1.current_query.buffer
                  IN  retry_query(
                          mxb_assert([s2 EXCEPT !.state = "TRX_REPLAY_INTERRUPTED",
                                                !.replayed_trx = s1.trx,
                                                !.interrupted_query.buffer = None],
                                     {"BEGIN_TRX", "COMMIT"} \cap TypeMask(q.kind) # {},
                                     "interrupted_starts_trx"), q)
             ELSE s1

checksum_mismatch(s) ==
    LET s1 == [s EXCEPT !.state = "TRX_REPLAY"]
        s2 == start_trx_replay(s1)
    IN  IF config.trx_retry_on_mismatch /\ s2.ok THEN s2 ELSE kill(s1)

-----------------------------------------------------------------------------
(* Replies to the client.  The client sees one stream of bytes: a chunk    *)
(* that follows an incomplete reply continues it, whatever it belongs to.  *)

deliver(s, id, content, complete) ==
    LET n == Len(s.out)
    IN  IF n > 0 /\ ~s.out[n].complete
        THEN [s EXCEPT !.out[n] = [id |-> IF @.id = id THEN id ELSE -1,
                                   content |-> @.content \o content,
                                   complete |-> complete]]
        ELSE [s EXCEPT !.out = Append(@, [id |-> id, content |-> content,
                                          complete |-> complete])]

Ok        == <<"ok">>           \* an OK packet
ReadOnly  == <<"read_only">>    \* ER_OPTION_PREVENTS_STATEMENT

Answered(s) == Cardinality({k \in DOMAIN s.out : s.out[k].complete})

(* The error goes to the client as the answer it waits for.                *)
send_readonly_error(s) == deliver(s, Answered(s) + 1, ReadOnly, TRUE)

(* session_set_response, and Session::deliver_response, which is called    *)
(* after a statement of the client or a delayed call was routed.           *)
set_response(s, q) ==
    [mxb_assert(s, s.response = None, "set_response") EXCEPT !.response = q]

\* Mutant of deliver_response: the response is not cleared
deliver_response_again(s) ==
    IF s.response = None THEN s
    ELSE deliver(s, s.response.id, ReadOnly, TRUE)

deliver_response(s) ==
    IF s.response = None THEN s
    ELSE [deliver(s, s.response.id, ReadOnly, TRUE) EXCEPT !.response = None]

-----------------------------------------------------------------------------
(* Routing a statement.                                                    *)

(* A write inside an optimistic transaction is put aside and replaced by a *)
(* ROLLBACK.                                                               *)
track_optimistic_trx(s, q) ==
    IF s.plan.type = "OTRX_START"
    THEN [s EXCEPT !.state = "OTRX_STARTING"]
    ELSE IF s.plan.type = "OTRX_END"
    THEN IF trx_is_ending(s) THEN [s EXCEPT !.state = "ROUTING"]
         ELSE IF ~s.qc.still_ro
         THEN [s EXCEPT !.current_query.buffer = q, !.state = "OTRX_ROLLBACK"]
         ELSE s
    ELSE IF s.state = "OTRX_STARTING" THEN [s EXCEPT !.state = "OTRX_ACTIVE"]
    ELSE s

\* Mutant of should_do_causal_read: replicas are read without waiting
should_do_causal_read_never(s) == FALSE

should_do_causal_read(s) ==
    CASE config.causal_reads = "local" -> s.gtid_pos # 0
      [] config.causal_reads = "universal" ->
             s.wait_gtid = "GTID_READ_DONE" /\ s.gtid_pos # 0
      [] OTHER -> FALSE

\* Mutant of commits_safely: a COMMIT is replayed
commits_safely_never(s) == FALSE

(* With transaction_replay_safe_commit a COMMIT is not replayed.           *)
commits_safely(s) ==
    config.transaction_replay /\ config.trx_retry_safe_commit /\ "COMMIT" \in s.qc.type

(* m_current_query, m_wait_gtid and m_can_replay_trx as handle_got_target  *)
(* leaves them.                                                            *)
store_query(s, q, causal, store) ==
    LET probing == s.wait_gtid = "READING_GTID" /\ ~is_locked_to_master(s)
        stores  == store /\ ~causal /\ ~probing
    IN  [s EXCEPT
            !.current_query.buffer = IF stores \/ causal THEN q ELSE @,
            !.wait_gtid = IF causal THEN "WAITING_FOR_HEADER"
                          ELSE IF @ = "GTID_READ_DONE" /\ ~is_locked_to_master(s)
                          THEN "NONE" ELSE @,
            !.can_replay_trx = @ /\ ~(stores /\ commits_safely(s))]

(* The server the open transaction runs on.                                *)
track_trx_target(s, b) ==
    IF ~trx_is_open(s) \/ s.wait_gtid = "READING_GTID" THEN s
    ELSE IF s.trx.target = None THEN [s EXCEPT !.trx.target = b]
    ELSE IF trx_is_starting(s) THEN [s EXCEPT !.trx = [EmptyTrx EXCEPT !.target = b]]
    ELSE mxb_assert(s, s.trx.target = b, "trx_target")

handle_got_target(s, q, b, store) ==
    LET causal == /\ ~is_locked_to_master(s) /\ is_slave(b) /\ should_do_causal_read(s)
        s1     == store_query(mxb_assert(s, in_use(s, b), "got_target_in_use"),
                              q, causal, store)
        s2     == [s1 EXCEPT !.expected_responses = @ + 1,
                             !.set_trx = IF "NEXT_TRX" \in s.qc.type THEN q ELSE @]
    IN  write(track_trx_target(s2, b), b,
              IF causal THEN [q EXCEPT !.wait = s.gtid_pos] ELSE q, "EXPECT")

should_migrate_trx(s) ==
    /\ config.transaction_replay /\ ~replaying_trx(s) /\ trx_is_open(s) /\ s.can_replay_trx
    /\ ~trx_target_still_valid(s)

(* The original statement comes back from the front of the queue.          *)
reset_gtid_probe(s) ==
    [mxb_assert(s, s.current_query.buffer = None /\ s.query_queue # <<>>, "gtid_probe")
        EXCEPT !.query_queue = Tail(@), !.wait_gtid = "NONE"]

handle_routing_failure(s, q) ==
    LET probing == s.wait_gtid = "READING_GTID"
        s1 == IF probing THEN reset_gtid_probe(s) ELSE s
        q1 == IF probing THEN Head(s.query_queue) ELSE q
    IN  IF \A b \in Backends : has_failed(s, b) THEN [s1 EXCEPT !.ok = FALSE]
        ELSE IF should_migrate_trx(s1) \/ (trx_is_open(s1) /\ probing)
        THEN start_trx_replay([discard_connection(s1, s1.trx.target)
                                  EXCEPT !.current_query.buffer = q1])
        ELSE IF can_retry_query(s1) \/ can_continue_trx_replay(s1)
        THEN [retry_query(s1, q1) EXCEPT !.ok = TRUE]
        ELSE IF config.master_failure_mode = "error_on_write"
        THEN [discard_connection(set_response(s1, q1), s1.current_master)
                 EXCEPT !.ok = TRUE]
        ELSE [s1 EXCEPT !.ok = FALSE]

route_to_target(s, q, b) ==
    LET s1 == [track_optimistic_trx(s, q) EXCEPT !.retry_duration = 0]
        rolls_back == s1.state = "OTRX_ROLLBACK"
        s2 == prepare_target(s1, b)
        store == /\ ~rolls_back
                 /\ \/ config.delayed_retry
                    \/ s.plan.route_target = "SLAVE" /\ config.retry_failed_reads
    IN  IF ~s2.ok THEN s2
        ELSE [handle_got_target(s2, IF rolls_back THEN Rollback ELSE q, b, store)
                 EXCEPT !.prev_plan = [s.plan EXCEPT !.target = b]]

route_single_stmt(s, q) ==
    LET b == s.plan.target
    IN  IF s.plan.route_target = "MASTER" /\ b # s.current_master
        THEN IF should_replace_master(s, b)
             THEN route_to_target(replace_master(s, b), q, b)
             ELSE handle_routing_failure(s, q)
        ELSE IF b # None THEN route_to_target(s, q, b)
        ELSE handle_routing_failure(s, q)

connect_slave_for_sescmd(s) ==
    LET slave == get_slave_backend(s)
        s1    == [s EXCEPT !.check_stale = check_stale_after_select(s)]
    IN  IF slave # None THEN prepare_target(s1, slave) ELSE s1

connected_for_sescmd(s, master) ==
    IF ~s.ok THEN connect_slave_for_sescmd(s)
    ELSE IF master # s.current_master THEN replace_master(s, master)
    ELSE s

create_one_connection_for_sescmd(s) ==
    LET master == get_master_backend(s)
    IN  IF /\ config.master_reconnection /\ master # None
           /\ need_master_for_sescmd(s) \/ config.master_accept_reads
        THEN connected_for_sescmd(prepare_target(s, master), master)
        ELSE connect_slave_for_sescmd(s)

sescmd_replier(s) ==
    LET used  == SelectSeq(Order, LAMBDA b : in_use(s, b))
        first == IF in_use(s, s.current_master) THEN s.current_master
                 ELSE IF used # <<>> THEN Head(used) ELSE None
    IN  IF need_master_for_sescmd(s) THEN None
        ELSE IF trx_is_open(s) /\ in_use(s, s.trx.target) THEN s.trx.target
        ELSE first

response_type(b, replier) == IF b = replier THEN "EXPECT" ELSE "IGNORE"

(* A session command is written to every open connection; the reply of one *)
(* of them goes to the client.                                             *)
write_session_command(s, q) ==
    LET replier == sescmd_replier(s)
        s1 == FoldLeft(LAMBDA t, b : IF ~in_use(t, b) THEN t
                                     ELSE write(t, b, q, response_type(b, replier)), s, Order)
        s2 == mxb_assert([s1 EXCEPT !.current_query.buffer = q, !.expected_responses = @ + 1,
                                    !.ok = TRUE],
                         s.expected_responses = 0, "sescmd_expected")
    IN  IF replier # None
        THEN IF trx_is_open(s) /\ s.trx.target = None
             THEN [s2 EXCEPT !.trx.target = replier]
             ELSE mxb_assert(s2, trx_is_open(s) => s.trx.target = replier,
                             "sescmd_trx_target")
        ELSE IF can_retry_query(s) \/ can_continue_trx_replay(s)
        THEN [retry_query(s, q) EXCEPT !.ok = TRUE]
        ELSE [s EXCEPT !.ok = FALSE]

route_session_write(s, q) ==
    write_session_command(
        IF (~have_open_connections(s) \/ need_master_for_sescmd(s)) /\ can_recover_servers(s)
        THEN create_one_connection_for_sescmd(s) ELSE s, q)

session_write_routed(s) ==
    IF s.ok THEN [s EXCEPT !.retry_duration = 0, !.prev_plan = s.plan] ELSE s

handle_target_is_all(s, q) == session_write_routed(route_session_write(s, q))

route_stmt(s, q) ==
    LET s1 == mxb_assert(s, s.state # "OTRX_ROLLBACK", "route_in_rollback")
    IN  IF s.qc.target = "ALL" THEN handle_target_is_all(s1, q)
        ELSE route_single_stmt(s1, q)

classify(s, q) ==
    LET trx == track_transaction_state(s.qc.trx, TypeMask(q.kind))
    IN  [s EXCEPT !.qc = update_route_info(@, q, is_locked_to_master(s), supports_hint(trx))]

\* Mutant of can_route_query: no reply is waited for
can_route_query_always(s, trx_was_ending) == TRUE

can_route_query(s, trx_was_ending) ==
    \/ s.expected_responses = 0
    \/ /\ s.plan.route_target = "MASTER" /\ s.prev_plan.route_target = "MASTER"
       /\ s.plan.type = s.prev_plan.type
       /\ s.plan.target = s.prev_plan.target
       /\ s.plan.target = s.current_master
       /\ ~config.transaction_replay \/ ~trx_is_open(s)
       /\ s.wait_gtid = "NONE"
       /\ ~trx_was_ending

\* Mutant of need_gtid_probe: the position is never asked for
need_gtid_probe_never(s) == FALSE

need_gtid_probe(s) ==
    /\ config.causal_reads \in {"universal", "fast_universal"}
    /\ s.plan.route_target = "SLAVE"
    /\ s.wait_gtid = "NONE"
    /\ {"COMMIT", "ROLLBACK"} \cap s.qc.type = {}

probe_plan(s) ==
    [s EXCEPT !.plan.route_target = "MASTER",
              !.plan.target = handle_master_is_target(s)]

start_gtid_probe(s) ==
    probe_plan(resolve_route(classify([s EXCEPT !.wait_gtid = "READING_GTID"], Probe)))

(* qc: the classifier's state before the statement was classified.         *)
route_classified(s, q, qc) ==
    LET revert == [s EXCEPT !.qc = qc]
    IN  IF ~can_route_query(s, is_trx_ending(qc))
        THEN [mxb_assert(revert, s.expected_responses >= 1, "store_query") EXCEPT
                 !.query_queue = Append(@, q), !.ok = TRUE]
        ELSE IF need_gtid_probe(s)
        THEN route_stmt(start_gtid_probe([revert EXCEPT !.query_queue = <<q>> \o @]),
                        Probe)
        ELSE route_stmt([s EXCEPT !.ok = TRUE], q)

route_query(s, q) == route_classified(resolve_route(classify(s, q)), q, s.qc)

routeQuery(s, q) ==
    IF replaying_trx(s) \/ s.retries # <<>> \/ s.query_queue # <<>>
    THEN [s EXCEPT !.query_queue = Append(@, q), !.ok = TRUE]
    ELSE route_query(s, q)

(* One round of the loop of route_stored_query, for the first statement q  *)
(* of the queue: routeQuery works on an empty queue, and a statement it    *)
(* stores goes in front of the rest and ends the loop.                     *)
put_back(s, rest) ==
    IF s.query_queue = <<>> THEN [s EXCEPT !.query_queue = rest]
    ELSE [mxb_assert(s, Len(s.query_queue) = 1, "stored_query") EXCEPT
             !.query_queue = <<Head(@)>> \o rest, !.stopped = TRUE]

route_first(s, q) ==
    IF s.stopped THEN s
    ELSE put_back(routeQuery([s EXCEPT !.query_queue = <<>>], q), Tail(s.query_queue))

route_stored_query(s) ==
    [FoldLeft(route_first, s, s.query_queue) EXCEPT !.stopped = FALSE]

-----------------------------------------------------------------------------
(* Replies of the servers.  A reply r is a record                          *)
(*   id       the statement it answers                                     *)
(*   complete Reply::is_complete                                           *)
(*   error    "none", "rollback" (the server rolled the transaction back), *)
(*            "wsrep" (WSREP has not yet prepared node) or "other"         *)
(*   status   the transaction flags of the server, "none" in an error      *)
(*   gtid     the position reported in an OK packet or by the probe        *)
(* and its data, in s.buf, is the part of the content that has arrived; a  *)
(* causal read is preceded by the OK packet "hdr" of its prefix.           *)

finish_transaction(s) ==
    [s EXCEPT !.trx = EmptyTrx, !.can_replay_trx = TRUE, !.set_trx = None]

\* Mutant of skip: the client gets what it already has
skip_nothing(buf, n) == buf

skip(buf, n) == SubSeq(buf, n + 1, Len(buf))

(* In the interrupted result of a replayed transaction, the client already *)
(* has the first Len(interrupted_query.sum) units.                         *)
discard_partial_result(s, r) ==
    LET have == Len(s.interrupted_query.sum)
        got  == Len(s.current_query.sum)
        s1   == mxb_assert(s, have >= got, "interrupted_bytes")
        sum  == s.current_query.sum \o SubSeq(s.buf, 1, have - got)
        s2   == [s1 EXCEPT !.current_query.sum = sum,
                           !.buf = skip(@, have - got),
                           !.state = "ROUTING"]
    IN  IF got + Len(s.buf) <= have
        THEN LET s3 == [s1 EXCEPT !.current_query.sum = @ \o s.buf, !.stopped = TRUE]
             IN  IF r.complete THEN checksum_mismatch(s3) ELSE s3
        ELSE [(IF sum = s.interrupted_query.sum THEN s2
               ELSE [checksum_mismatch(s2) EXCEPT !.stopped = TRUE])
                 EXCEPT !.interrupted_query = EmptyStmt]

(* The first packet decides: OK ends the wait, an error is the timeout of  *)
(* the wait, anything else changes nothing.                                *)
discard_master_wait_gtid_result(s, r) ==
    IF Head(s.buf) \in {"hdr", "ok"}
    THEN [s EXCEPT !.wait_gtid = "UPDATING_PACKETS", !.buf = Tail(@)]
    ELSE IF r.error = "none" THEN s
    ELSE IF trx_is_read_only(s) THEN [s EXCEPT !.wait_gtid = "NONE"]
    ELSE [s EXCEPT !.wait_gtid = "RETRYING_ON_MASTER"]

parse_gtid_result(s, r) ==
    [s EXCEPT !.gtid_pos = r.gtid,
              !.wait_gtid = IF r.complete THEN "GTID_READ_DONE" ELSE @,
              !.buf = IF r.complete THEN Ok ELSE <<>>]

handle_causal_read_reply(s, b, r) ==
    LET s1 == IF s.buf = Ok /\ b = s.current_master /\ r.gtid # 0
              THEN [s EXCEPT !.gtid_pos = r.gtid] ELSE s
    IN  IF config.causal_reads = "none" THEN s
        ELSE IF s.wait_gtid = "READING_GTID" THEN parse_gtid_result(s1, r)
        ELSE IF s.wait_gtid = "WAITING_FOR_HEADER"
        THEN discard_master_wait_gtid_result(
                 mxb_assert(s1, s.prev_plan.target = b, "causal_target"), r)
        ELSE s1

continue_causal_read(s) ==
    IF s.wait_gtid = "GTID_READ_DONE"
    THEN [retry_query(mxb_assert(s, s.current_query.buffer = None /\ s.query_queue # <<>>,
                                 "continue_causal"), Head(s.query_queue))
             EXCEPT !.query_queue = Tail(@), !.stopped = TRUE]
    ELSE IF config.causal_reads = "none" THEN s
    ELSE IF s.wait_gtid = "RETRYING_ON_MASTER"
    THEN [retry_query(s, [s.current_query.buffer EXCEPT !.hint = TRUE])
             EXCEPT !.current_query = EmptyStmt, !.wait_gtid = "NONE", !.stopped = TRUE]
    ELSE [mxb_assert(s, s.wait_gtid # "WAITING_FOR_HEADER", "causal_header")
             EXCEPT !.wait_gtid = "NONE"]

\* Mutant of record_stmt: only the result is recorded
record_checksum(s, b) ==
    [mxb_assert(mxb_assert(s, s.current_query.buffer # None, "add_stmt"),
                s.trx.target = b, "add_stmt_target")
        EXCEPT !.trx.checksums = Append(@, s.current_query.sum),
               !.current_query = EmptyStmt]

(* The statement and its result are recorded in the transaction.           *)
record_stmt(s, b) ==
    [mxb_assert(mxb_assert(s, s.current_query.buffer # None, "add_stmt"),
                s.trx.target = b, "add_stmt_target")
        EXCEPT !.trx.checksums = Append(@, s.current_query.sum),
               !.trx.log = Append(@, s.current_query.buffer),
               !.current_query = EmptyStmt]

manage_transactions(s, b, r) ==
    IF s.state = "OTRX_ROLLBACK"
    THEN LET s1 == mxb_assert(s, s.prev_plan.target = b, "rollback_target")
         IN  IF s.buf # Ok THEN kill(s1) ELSE s1
    ELSE IF config.transaction_replay /\ s.can_replay_trx /\ trx_is_open(s)
    THEN IF s.wait_gtid \in {"READING_GTID", "GTID_READ_DONE"} THEN s
         ELSE IF Len(s.trx.log) >= config.trx_max_size
         THEN [s EXCEPT !.can_replay_trx = FALSE]
         ELSE LET s1 == [s EXCEPT !.current_query.sum = @ \o s.buf]
              IN  IF r.complete THEN record_stmt(s1, b) ELSE s1
    ELSE IF s.wait_gtid = "RETRYING_ON_MASTER" THEN s
    ELSE [s EXCEPT !.current_query = EmptyStmt]

\* Mutant of checksums_match: the last results are not compared
checksums_match_always(mine, old) == TRUE

checksums_match(mine, old) == Last(mine) = Last(old)

trx_replay_next_stmt(s) ==
    LET mine == s.trx.checksums
        old  == s.replayed_trx.checksums
        s1   == [s EXCEPT !.state = "ROUTING"]
        done == [mxb_assert(s1, mine = old, "replay_checksums")
                    EXCEPT !.num_trx_replays = 0]
    IN  IF s.replayed_trx.log # <<>>
        THEN IF old[Len(mine)] = Last(mine)
             THEN retry_query([s EXCEPT !.replayed_trx.log = Tail(@)],
                              Head(s.replayed_trx.log))
             ELSE checksum_mismatch(s)
        ELSE IF old = <<>>
        THEN [mxb_assert(s1, s.interrupted_query.buffer = None, "replay_interrupted")
                 EXCEPT !.num_trx_replays = 0]
        ELSE IF ~checksums_match(mine, old) THEN checksum_mismatch(s1)
        ELSE IF s.interrupted_query.buffer # None
        THEN retry_query([done EXCEPT !.state = "TRX_REPLAY_INTERRUPTED",
                                      !.interrupted_query.buffer = None],
                         s.interrupted_query.buffer)
        ELSE route_stored_query(done)

retry_master_query(s, b) ==
    IF s.current_query.buffer = None
    THEN [mxb_assert(s, FALSE, "current_query_empty") EXCEPT !.ok = FALSE]
    ELSE [retry_query(mxb_assert(s, s.prev_plan.target = b
                                    \/ s.prev_plan.route_target = "ALL", "retry_target"),
                      s.current_query.buffer)
             EXCEPT !.current_query = EmptyStmt, !.ok = TRUE]

(* A rollback by the server, or a Galera node that is not ready: the       *)
(* transaction or the statement is tried again on a new connection.        *)
handle_ignorable_error(s, b) ==
    LET s1 == IF trx_is_open(s) THEN start_trx_replay(s)
              ELSE IF s.expected_responses > 1 THEN [s EXCEPT !.ok = FALSE]
              ELSE IF b = s.current_master
              THEN IF can_retry_query(s) /\ can_recover_master(s)
                   THEN retry_master_query(s, b) ELSE [s EXCEPT !.ok = FALSE]
              ELSE IF config.retry_failed_reads
              THEN [retry_query(s, s.current_query.buffer)
                       EXCEPT !.current_query = EmptyStmt, !.ok = TRUE]
              ELSE [s EXCEPT !.ok = FALSE]
    IN  IF s1.ok
        THEN close([expect_one_less(s1) EXCEPT !.wait_gtid = "NONE"],
                   b, "NORMAL")
        ELSE s1

close_stale_connections(s) ==
    FoldLeft(LAMBDA t, b : IF in_use(t, b) /\ ~is_usable(b)
                           THEN close(t, b, "NORMAL") ELSE t, s, Order)

(* The end of clientReply: the reply goes to the client and, if all        *)
(* replies have arrived, the stored statements are routed.                 *)
route_rest(s, r) ==
    IF r.complete /\ s.expected_responses = 0 /\ s.state # "TRX_REPLAY"
    THEN route_stored_query(s) ELSE s

check_connections(s) ==
    IF s.check_stale /\ s.expected_responses = 0 /\ ~trx_is_open(s)
    THEN [close_stale_connections(s) EXCEPT !.check_stale = FALSE] ELSE s

(* The client connection adds an answered session command to the history.  *)
finish_recording_history(s, r) ==
    IF r.sescmd /\ r.complete THEN [s EXCEPT !.sescmds = @ + 1] ELSE s

reply_to_client(s, b, r) ==
    check_connections(route_rest(finish_recording_history(
        deliver(mxb_assert(s, in_use(s, b), "reply_in_use"), r.id, s.buf, r.complete), r), r))

(* What clientReply does with a chunk after the reply was counted.  The    *)
(* replies of a replay are not sent, but for the one that ends a replay    *)
(* that had nothing to compare.                                            *)
replayed_reply(s, b, r) ==
    IF s.replayed_trx.checksums # <<>> THEN s ELSE reply_to_client(s, b, r)

forward_reply(s, b, r) ==
    IF s.state = "TRX_REPLAY"
    THEN replayed_reply(IF s.expected_responses = 0 THEN trx_replay_next_stmt(s) ELSE s,
                        b, r)
    ELSE reply_to_client(
             IF trx_is_open(s) /\ trx_is_ending(s) /\ s.expected_responses = 0
             THEN finish_transaction(s) ELSE s, b, r)

forward_unless_stopped(s, b, r) == IF s.stopped THEN s ELSE forward_reply(s, b, r)

(* log_unexpected_response ends the session.                               *)
unexpected_response(s) == kill(mxb_assert(s, FALSE, "unexpected_response"))

count_reply(s, b, r) ==
    LET s1 == mxb_assert([s EXCEPT !.expected_responses = @ - 1],
                         s.expected_responses >= 1, "expected_responses")
    IN  IF is_idle(s, b) THEN unexpected_response(s)
        ELSE IF s.state = "OTRX_ROLLBACK"
        THEN start_trx_replay([s1 EXCEPT !.state = "ROUTING"])
        ELSE forward_unless_stopped(continue_causal_read(ack_write(s1, b)), b, r)

count_if_complete(s, b, r) ==
    IF r.complete THEN count_reply(s, b, r) ELSE forward_reply(s, b, r)

ignorable(r) == (config.trx_retry_on_deadlock /\ r.error = "rollback") \/ r.error = "wsrep"

process_result(s, b, r) ==
    count_if_complete(
        manage_transactions(
            IF s.wait_gtid # "GTID_READ_DONE" /\ r.complete
            THEN [s EXCEPT !.qc = update_from_reply(@, r.status)] ELSE s, b, r), b, r)

process_unless_ignored(s, b, r) == IF s.ok THEN s ELSE process_result(s, b, r)

process_reply(s, b, r) ==
    IF ignorable(r) THEN process_unless_ignored(handle_ignorable_error(s, b), b, r)
    ELSE process_result(s, b, r)

ignore_response(s, b, r) == IF r.complete THEN ack_write(s, b) ELSE s

process_unless_stopped(s, b, r) == IF s.stopped THEN s ELSE process_reply(s, b, r)

process_unless_empty(s, b, r) ==
    IF s.buf = <<>> THEN s
    ELSE process_unless_stopped(IF s.state = "TRX_REPLAY_INTERRUPTED"
                                THEN discard_partial_result(s, r) ELSE s, b, r)

clientReply(s, b, r) ==
    IF should_ignore_response(s, b) THEN ignore_response(s, b, r)
    ELSE process_unless_empty(handle_causal_read_reply(s, b, r), b, r)

-----------------------------------------------------------------------------
(* Lost connections.                                                       *)

handle_error_new_connection(s, b, waiting, type) ==
    LET retries == s.current_query.buffer # None /\ config.retry_failed_reads
                   /\ (config.delayed_retry \/ ~is_last_backend(s, b))
        s1 == close(IF waiting /\ retries
                    THEN [retry_query(s, s.current_query.buffer)
                             EXCEPT !.current_query = EmptyStmt]
                    ELSE s, b, type)
    IN  [s1 EXCEPT !.ok = (waiting => retries)
                          /\ (can_recover_servers(s) \/ have_open_connections(s1))]

(* The result the primary owed is retried, answered with an error, or the  *)
(* session cannot continue.                                                *)
recover_master_query(s, b) ==
    IF s.expected_responses > 1 THEN [s EXCEPT !.ok = FALSE]
    ELSE IF s.wait_gtid = "READING_GTID"
    THEN LET s1 == reset_gtid_probe(s)
             q  == Head(s.query_queue)
         IN  IF can_retry_query(s1)
             THEN [retry_query(s1, q) EXCEPT !.current_query = EmptyStmt, !.ok = TRUE]
             ELSE [s1 EXCEPT !.current_query.buffer = q, !.ok = FALSE]
    ELSE IF can_retry_query(s) /\ can_recover_master(s) THEN retry_master_query(s, b)
    ELSE IF config.master_failure_mode = "error_on_write"
    THEN [send_readonly_error(s) EXCEPT !.ok = TRUE]
    ELSE [s EXCEPT !.ok = FALSE]

handle_master_error(s, b, type) ==
    LET waiting == is_waiting_result(s, b)
        s1 == IF waiting
              THEN recover_master_query(
                       mxb_assert(s, s.expected_responses >= 1, "master_expected"), b)
              ELSE [s EXCEPT !.ok = (config.master_failure_mode # "fail_instantly")]
        s2 == IF /\ trx_is_open(s1) /\ ~in_optimistic_trx(s1)
                 /\ s1.trx.target \in {None, b} \/ s.wait_gtid = "READING_GTID"
              THEN start_trx_replay(s1) ELSE s1
    IN  close(IF s2.ok /\ waiting THEN expect_one_less(s2) ELSE s2,
              b, type)

handle_slave_error(s, b, type) ==
    LET waiting == is_waiting_result(s, b)
        s1 == IF waiting
              THEN [expect_one_less(
                        mxb_assert(mxb_assert(s, s.expected_responses = 1, "slave_expected"),
                                   s.wait_gtid # "READING_GTID", "slave_gtid_probe"))
                       EXCEPT !.wait_gtid = "NONE"]
              ELSE s
    IN  IF \/ trx_is_read_only(s1) /\ s1.trx.target = b /\ s1.wait_gtid # "READING_GTID"
           \/ in_optimistic_trx(s1)
        THEN close(start_trx_replay(s1), b, type)
        ELSE handle_error_new_connection(s1, b, waiting, type)

(* type is "FATAL" for mxs::ErrorType::PERMANENT; started: the reply that  *)
(* was being read is not complete.                                         *)
handleError(s, b, type, started) ==
    IF started /\ is_expected_response(s, b) /\ ~config.transaction_replay THEN kill(s)
    ELSE kill_unless_ok(IF s.current_master = b THEN handle_master_error(s, b, type)
                        ELSE handle_slave_error(s, b, type))

endpointConnReleased(s, b) ==
    IF can_recover_servers(s) /\ (~is_master(b) \/ config.master_reconnection)
    THEN close(s, b, "NORMAL") ELSE s

-----------------------------------------------------------------------------
(* RWSplitSession::create: the first connections.                          *)
open_connections(s) ==
    LET master  == get_root_master(s)
        slaves  == SetToSeq({b \in Backends : is_slave(b) /\ b # master})
        s1 == IF master # None /\ can_recover_servers(s)
              THEN [prepare_connection(s, master) EXCEPT !.current_master = master] ELSE s
    IN  IF config.lazy_connect THEN s
        ELSE FoldLeft(LAMBDA t, b :
                          IF get_slave_counts(t, master) < config.max_slave_connections
                          THEN prepare_connection(t, b) ELSE t, s1, slaves)

NewSession ==
    [state |-> "ROUTING", current_master |-> None, prev_plan |-> NoPlan,
     expected_responses |-> 0, check_stale |-> FALSE, query_queue |-> <<>>,
     wait_gtid |-> "NONE", gtid_pos |-> 0, retry_duration |-> 0, can_replay_trx |-> TRUE,
     num_trx_replays |-> 0, set_trx |-> None, current_query |-> EmptyStmt,
     interrupted_query |-> EmptyStmt, orig_stmt |-> EmptyStmt, trx |-> EmptyTrx,
     replayed_trx |-> EmptyTrx, orig_trx |-> EmptyTrx, retries |-> <<>>, qc |-> QcInit,
     be |-> [b \in Backends |-> [st |-> "CLOSED", responses |-> <<>>, conn |-> NoConn]],
     response |-> None, sescmds |-> 0, out |-> <<>>, closed |-> FALSE, ok |-> TRUE, plan |-> NoPlan,
     pick |-> None, connects |-> TRUE, buf |-> <<>>, stopped |-> FALSE, bad |-> {}]

(* Between two callbacks the transient fields have no value.               *)
Settled(s) ==
    [s EXCEPT !.ok = TRUE, !.plan = NoPlan, !.pick = None, !.connects = TRUE,
              !.buf = <<>>, !.stopped = FALSE]
=============================================================================
