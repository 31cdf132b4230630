------------------------------ MODULE RWSplit ------------------------------
(***************************************************************************)
(* A readwritesplit session between a client and its database servers.     *)
(*                                                                         *)
(* The client sends statements, up to MaxPipeline of them before it has    *)
(* the replies.  Every server executes the statements of one connection in *)
(* order, keeps the transaction that is open on the connection and answers *)
(* in one or two chunks; it may lose the connection at any time, before or *)
(* after it executed what was sent.  The monitor changes the roles of the  *)
(* servers.  Every callback of the session is one action.                  *)
(*                                                                         *)
(* The servers and the client are external to the router: they are what    *)
(* the code of the router assumes of them.                                 *)
(***************************************************************************)
EXTENDS RWSplitSession

(* What the client, the servers and the monitor of service i do:           *)
(*   kinds              the kinds of statements the client sends            *)
(*   stray_ends         whether it ends transactions it is not in          *)
(*   max_queries        bound: how many statements the client sends         *)
(*   max_pipeline       how many statements may wait for their replies      *)
(*   results            the results a read may have: sequences of units     *)
(*   errors             the errors a server may answer with                 *)
(*   statuses           the roles the monitor may assign later              *)
(*   max_changes        bound: how often the roles change                   *)
(*   max_faults         bound: how many connections are lost                *)
(*   fault_types        subset of {"NORMAL", "FATAL"}                       *)
(*   loss_states        the states of the session in which one may be lost  *)
(*   loss_during_retry  whether one may be lost while a retry is delayed    *)
(*   connect_fails      whether a connection attempt may fail               *)
(*   max_other_writes   bound: the writes of other clients                  *)
CONSTANTS
    InitStatus,     \* the roles of the servers at first
    Environment     \* Environment[i]: the record above

ASSUME EnvironmentAssumption ==
    /\ DOMAIN Environment = DOMAIN Service
    /\ \A i \in DOMAIN Environment :
          LET e == Environment[i] IN
          /\ e.kinds \subseteq Kinds \ {"probe"}
          /\ {e.max_queries, e.max_pipeline, e.max_changes, e.max_faults,
              e.max_other_writes} \subseteq Nat
          /\ e.fault_types \subseteq {"NORMAL", "FATAL"}
          /\ e.errors \subseteq {"rollback", "wsrep"}

VARIABLES
    env,        \* the environment of the session
    prog,       \* the statements the client has sent: [kind, after]
    commits,    \* the transactions the servers have committed: [by, stmts]
    faults, changes, others     \* the counters behind the bounds

MaxQueries == Max({Environment[i].max_queries : i \in DOMAIN Environment})

vars == <<config, env, ses, status, applied, prog, commits, faults, changes, others>>

-----------------------------------------------------------------------------
(* The servers.                                                            *)

Position == CHOOSE p \in Range(applied) : \A x \in Range(applied) : x <= p

(* A replica is read-only, and so is a read-only transaction.              *)
Denies(b, conn, q) == q.kind = "write" /\ (is_slave(b) \/ conn.trx = "in_ro_trx")

(* What is committed when a connection whose far end is conn executes q.   *)
CommittedBy(conn, q, content) ==
    IF q.kind \in {"begin", "beginro", "commit"} /\ conn.stmts # <<>>
    THEN <<[by |-> q.id, stmts |-> conn.stmts]>>
    ELSE IF q.kind = "write" /\ conn.trx = "idle"
    THEN <<[by |-> q.id, stmts |-> <<[id |-> q.id, content |-> content]>>]>>
    ELSE <<>>

(* The connection after q; an error with a rollback ends the transaction.  *)
Executed(conn, q, content, error) ==
    LET idle == [conn EXCEPT !.wire = Tail(@), !.trx = "idle", !.stmts = <<>>]
        same == [conn EXCEPT !.wire = Tail(@)]
    IN  CASE error = "rollback"               -> idle
          [] error # "none"                   -> same
          [] q.kind = "begin"                 -> [idle EXCEPT !.trx = "in_trx"]
          [] q.kind = "beginro"               -> [idle EXCEPT !.trx = "in_ro_trx"]
          [] q.kind \in {"commit", "rollback"} -> idle
          [] OTHER -> IF q.kind \in {"read", "write"} /\ conn.trx # "idle"
                      THEN [same EXCEPT !.stmts =
                               Append(@, [id |-> q.id, content |-> content])]
                      ELSE same

Writes(c) == \E i \in DOMAIN c : \E j \in DOMAIN c[i].stmts :
                 prog[c[i].stmts[j].id].kind = "write"

(* The positions of the servers after b committed c; only tracked when     *)
(* causal reads depend on them.                                            *)
AppliedAfter(b, c) ==
    IF config.causal_reads # "none" /\ c # <<>> /\ Writes(c)
    THEN [applied EXCEPT ![b] = Position + 1] ELSE applied

(* A causal run compares positions, the other runs the results: a read     *)
(* returns the position it saw or any of the results.                      *)
ReadResults(b) ==
    IF config.causal_reads # "none" THEN {<<ToString(applied[b])>>} ELSE env.results

Contents(b, q) == IF q.kind = "read" THEN ReadResults(b) ELSE {Ok}

Errors(b, q) ==
    IF Denies(b, ses.be[b].conn, q) THEN {"denied"}
    ELSE {"none"} \cup
         {e \in env.errors : /\ q.kind \in {"read", "write"}
                             /\ e = "rollback" => ses.be[b].conn.trx # "idle"}

(* The wait in front of a causal read ends when the replica has caught up, *)
(* or times out with an error.                                             *)
Outcomes(b, q) ==
    IF q.wait > applied[b] THEN {[error |-> "timeout", content |-> <<"timeout">>]}
    ELSE UNION {IF e = "none" THEN {[error |-> e, content |-> c] : c \in Contents(b, q)}
                ELSE {[error |-> e, content |-> <<e>>]} : e \in Errors(b, q)}

(* The wait that has ended answers for itself, with an OK packet.          *)
Data(q, o) ==
    (IF q.wait > 0 /\ o.error # "timeout" THEN <<"hdr">> ELSE <<>>) \o o.content

ReplyOf(b, q, o) ==
    [id |-> q.id, complete |-> TRUE, sescmd |-> q.kind = "sescmd",
     error |-> IF o.error \in {"timeout", "denied"} THEN "other" ELSE o.error,
     status |-> IF o.error = "none"
                THEN Executed(ses.be[b].conn, q, o.content, o.error).trx ELSE "none",
     gtid |-> IF config.causal_reads = "none" THEN 0
              ELSE IF q.kind = "probe" THEN applied[b]
              ELSE AppliedAfter(b, CommittedBy(ses.be[b].conn, q, o.content))[b]]

-----------------------------------------------------------------------------
(* Every callback starts with the choices the environment makes and ends   *)
(* with the transient fields cleared.                                      *)
Started ==
    {[ses EXCEPT !.pick = b, !.connects = c] :
        b \in Backends, c \in IF env.connect_fails THEN BOOLEAN ELSE {TRUE}}

(* The transactions as the client sees them.                               *)
Answer(i, error) == i \in DOMAIN ses.out /\ ses.out[i].content = <<error>>
IsBegin(i)    == prog[i].kind \in {"begin", "beginro"} /\ ~Answer(i, "timeout")
IsEnd(i)      == prog[i].kind \in {"commit", "rollback"}
RolledBack(i) == Answer(i, "rollback")

InClientTrx(i) ==
    \E j \in 1 .. i - 1 : IsBegin(j) /\ \A k \in j + 1 .. i - 1 : ~IsEnd(k) /\ ~RolledBack(k)

ClientQuery(kind) ==
    LET q == [id |-> Len(prog) + 1, kind |-> kind, hint |-> FALSE, wait |-> 0]
    IN  /\ Len(prog) < env.max_queries
        /\ Len(prog) - Answered(ses) < env.max_pipeline
        /\ ~ses.closed
        /\ kind \in {"commit", "rollback"} => env.stray_ends \/ InClientTrx(q.id)
        /\ prog' = Append(prog, [kind |-> kind, after |->
               IF config.causal_reads \in {"universal", "fast_universal"} THEN Position
               ELSE ses.gtid_pos])
        /\ \E s \in Started :
               ses' = Settled(kill_unless_ok(deliver_response(routeQuery(s, q))))
        /\ UNCHANGED <<config, env, status, applied, commits, faults, changes, others>>

(* The server of backend b executes the next statement and the router      *)
(* reads the first n units of the reply.                                   *)
ServerReply(b) ==
    LET conn == ses.be[b].conn
        q    == Head(conn.wire)
    IN  /\ ~ses.closed /\ in_use(ses, b)
        /\ conn.rep = None /\ conn.wire # <<>>
        /\ \E o \in Outcomes(b, q), s \in Started :
           \E n \in 1 .. Len(Data(q, o)) :
              LET r == ReplyOf(b, q, o)
                  c == CommittedBy(conn, q, o.content)
                  more == n < Len(Data(q, o))
                  far  == [Executed(conn, q, o.content, o.error) EXCEPT
                              !.rep = IF more THEN [reply |-> r, content |->
                                          SubSeq(Data(q, o), n + 1, Len(Data(q, o)))]
                                      ELSE None]
              IN  /\ ses' = Settled(clientReply(
                               [s EXCEPT !.be[b].conn = far,
                                         !.buf = SubSeq(Data(q, o), 1, n)],
                               b, [r EXCEPT !.complete = ~more]))
                  /\ commits' = IF o.error = "none" THEN commits \o c ELSE commits
                  /\ applied' = IF o.error = "none" THEN AppliedAfter(b, c) ELSE applied
        /\ UNCHANGED <<config, env, status, prog, faults, changes, others>>

(* The rest of a reply arrives.                                            *)
ServerReplyRest(b) ==
    LET conn == ses.be[b].conn
    IN  /\ ~ses.closed /\ in_use(ses, b) /\ conn.rep # None
        /\ \E s \in Started :
              ses' = Settled(clientReply([s EXCEPT !.be[b].conn.rep = None,
                                                   !.buf = conn.rep.content],
                                         b, conn.rep.reply))
        /\ UNCHANGED <<config, env, status, applied, prog, commits, faults, changes, others>>

(* A delayed call of retry_query runs.  Calls with different delays may    *)
(* run in any order.                                                       *)
AfterCall(s, i) ==
    Settled(kill_unless_ok(deliver_response(
        route_query([s EXCEPT !.retries = RemoveAt(@, i)], s.retries[i]))))

DelayedCall(i) ==
    /\ ~ses.closed /\ i \in DOMAIN ses.retries
    /\ \E s \in Started : ses' = AfterCall(s, i)
    /\ UNCHANGED <<config, env, status, applied, prog, commits, faults, changes, others>>

(* The connection of backend b is lost.  Of the statements that were sent  *)
(* the first n had been executed.                                          *)
ExecuteSent(b, n) ==
    FoldLeft(LAMBDA acc, q :
                LET content == CHOOSE c \in Contents(b, q) : TRUE
                    denied  == Denies(b, acc.conn, q) \/ q.wait > applied[b]
                IN  [conn |-> Executed(acc.conn, q, content,
                                       IF denied THEN "denied" ELSE "none"),
                     commits |-> acc.commits \o
                         (IF denied THEN <<>> ELSE CommittedBy(acc.conn, q, content))],
             [conn |-> ses.be[b].conn, commits |-> <<>>],
             SubSeq(ses.be[b].conn.wire, 1, n)).commits

ConnectionLost(b) ==
    /\ ~ses.closed /\ in_use(ses, b) /\ faults < env.max_faults
    /\ ses.state \in env.loss_states /\ (env.loss_during_retry \/ ses.retries = <<>>)
    /\ faults' = faults + 1
    /\ \E n \in 0 .. Len(ses.be[b].conn.wire), s \in Started, type \in env.fault_types :
          /\ ses' = Settled(handleError(s, b, type, ses.be[b].conn.rep # None))
          /\ commits' = commits \o ExecuteSent(b, n)
          /\ applied' = AppliedAfter(b, ExecuteSent(b, n))
    /\ UNCHANGED <<config, env, status, prog, changes, others>>

(* An idle connection is taken away by the connection pool.                *)
ConnectionReleased(b) ==
    /\ ~ses.closed /\ in_use(ses, b) /\ faults < env.max_faults
    /\ \A c \in Backends : is_idle(ses, c)
    /\ ses.retries = <<>> /\ ses.query_queue = <<>> /\ ~trx_is_open(ses)
    /\ ses' = Settled(endpointConnReleased(ses, b))
    /\ faults' = faults + 1
    /\ UNCHANGED <<config, env, status, applied, prog, commits, changes, others>>

(* The monitor assigns new roles; a server is only promoted when it has    *)
(* everything that was committed.                                          *)
StatusChange(st) ==
    /\ ~ses.closed /\ changes < env.max_changes /\ st # status
    /\ \A b \in Backends : st[b] = "master" => applied[b] = Position
    /\ status' = st
    /\ changes' = changes + 1
    /\ UNCHANGED <<config, env, ses, applied, prog, commits, faults, others>>

Replicate(b) ==
    /\ ~ses.closed /\ applied[b] < Position
    /\ applied' = [applied EXCEPT ![b] = @ + 1]
    /\ UNCHANGED <<config, env, ses, status, prog, commits, faults, changes, others>>

OtherWrite(b) ==
    /\ ~ses.closed /\ status[b] = "master" /\ others < env.max_other_writes
    /\ others' = others + 1
    /\ applied' = [applied EXCEPT ![b] = Position + 1]
    /\ UNCHANGED <<config, env, ses, status, prog, commits, faults, changes>>

(* The client is served or the session is over.                            *)
Done ==
    /\ ses.closed \/ (Len(prog) = env.max_queries /\ Answered(ses) = env.max_queries)
    /\ UNCHANGED vars

Init ==
    /\ \E i \in DOMAIN Service : config = post_configure(Service[i]) /\ env = Environment[i]
    /\ status = InitStatus
    /\ applied = [b \in Backends |-> 0]
    /\ ses = Settled(open_connections(NewSession))
    /\ prog = <<>> /\ commits = <<>>
    /\ faults = 0 /\ changes = 0 /\ others = 0

Next ==
    \/ \E kind \in env.kinds : ClientQuery(kind)
    \/ \E b \in Backends :
          \/ ServerReply(b) \/ ServerReplyRest(b)
          \/ ConnectionLost(b) \/ ConnectionReleased(b)
          \/ Replicate(b) \/ OtherWrite(b)
    \/ \E i \in 1 .. 2 : DelayedCall(i)
    \/ \E st \in env.statuses : StatusChange(st)
    \/ Done

Spec == Init /\ [][Next]_vars

(* A server answers what it received, a replica catches up, and the worker *)
(* runs the delayed calls of the session: weak fairness of each.  For the  *)
(* actions that call the router the condition under which they are enabled *)
(* is written out, which is faster to evaluate than ENABLED.               *)
ReplyDue(b) == ~ses.closed /\ in_use(ses, b)
               /\ ses.be[b].conn.rep = None /\ ses.be[b].conn.wire # <<>>
RestDue(b)  == ~ses.closed /\ in_use(ses, b) /\ ses.be[b].conn.rep # None
CallDue(i)  == ~ses.closed /\ i \in DOMAIN ses.retries
               /\ \E s \in Started : AfterCall(s, i) # ses

Fairness ==
    /\ \A b \in Backends :
          /\ []<>~ReplyDue(b) \/ []<><<ServerReply(b)>>_vars
          /\ []<>~RestDue(b) \/ []<><<ServerReplyRest(b)>>_vars
          /\ WF_vars(Replicate(b))
    /\ \A i \in 1 .. 2 : []<>~CallDue(i) \/ []<><<DelayedCall(i)>>_vars

LiveSpec == Spec /\ Fairness

-----------------------------------------------------------------------------
(* Properties.                                                             *)

(* Type invariant: the counters and the states of the session and of its   *)
(* connections stay in the ranges the code declares for them.              *)
TypeOK ==
    /\ ses.state \in {"ROUTING", "TRX_REPLAY", "TRX_REPLAY_INTERRUPTED",
                      "OTRX_STARTING", "OTRX_ACTIVE", "OTRX_ROLLBACK"}
    /\ ses.wait_gtid \in {"NONE", "READING_GTID", "GTID_READ_DONE", "WAITING_FOR_HEADER",
                          "RETRYING_ON_MASTER", "UPDATING_PACKETS"}
    /\ ses.current_master \in Backends \cup {None}
    /\ ses.qc.trx \subseteq {"ACTIVE", "READ_ONLY", "ENDING", "STARTING"}
    /\ {"STARTING", "ENDING"} \cap ses.qc.trx # {"STARTING", "ENDING"}
    /\ ses.num_trx_replays \in 0 .. config.trx_max_attempts
    /\ \A b \in Backends :
          /\ ses.be[b].st \in {"CLOSED", "IN_USE", "FATAL_FAILURE"}
          /\ ses.be[b].responses \in Seq({"EXPECT", "IGNORE"})
          /\ ses.be[b].st # "IN_USE" => is_idle(ses, b)
    /\ status \in [Backends -> {"master", "slave", "running", "maint", "down"}]
    /\ applied \in [Backends -> Nat]

Expected(b) == Len(SelectSeq(ses.be[b].responses, LAMBDA x : x = "EXPECT"))

(* m_expected_responses is the number of replies the connections still owe *)
(* to the client: no path of routeQuery, clientReply, handleError or a     *)
(* retry counts a reply twice or forgets one.                              *)
ExpectedResponsesMatch ==
    ses.closed \/ ses.expected_responses =
        FoldLeft(LAMBDA n, b : n + Expected(b), 0, Order)

(* At most one retry of a statement waits for its delayed call, so that    *)
(* statements cannot overtake each other (m_pending_retries "should always *)
(* be either 1 or 0").                                                     *)
OneRetryPending == Len(ses.retries) <= 1

(* The k-th reply the client receives answers the k-th statement it sent.  *)
RepliesInOrder == \A k \in DOMAIN ses.out : ses.out[k].id = k

(* A complete reply is one whole result: no part of it is missing, sent    *)
(* twice or taken from another result, whatever was replayed.              *)
WholeResults ==
    \A k \in DOMAIN ses.out \cap DOMAIN prog :
        LET r == ses.out[k] IN
        r.complete /\ prog[k].kind = "read" /\ config.causal_reads = "none" =>
            r.content \in env.results \cup {ReadOnly} \cup {<<e>> : e \in env.errors}

(* The assertions (mxb_assert) of the code hold in every callback, but for *)
(* the one in retry_master_query: it has nothing to retry when a result    *)
(* was partly delivered outside of a transaction.                          *)
AssertsHold == ses.bad \subseteq {"current_query_empty"}

(* The session keeps its books after every callback: its members have      *)
(* their types, the count of expected responses is the sum over the        *)
(* connections, at most one retry waits, and the assertions hold.          *)
Bookkeeping == TypeOK /\ ExpectedResponsesMatch /\ OneRetryPending /\ AssertsHold

LastBoundary(i) ==
    LET bs == {j \in 1 .. i - 1 : IsBegin(j) \/ IsEnd(j)}
    IN  IF bs = {} THEN 0 ELSE CHOOSE j \in bs : \A k \in bs : k <= j

StmtIds(c) == [j \in DOMAIN c.stmts |-> c.stmts[j].id]

(* What a server modifies is what the client asked for: a write outside of *)
(* a transaction alone, and a transaction as a whole with all its          *)
(* statements in their order, each once; a transaction is never cut short  *)
(* or committed by a statement that is not its own COMMIT (or the next     *)
(* BEGIN the client sent).                                                 *)
CommittedWhole ==
    \A n \in {m \in DOMAIN commits : Writes(<<commits[m]>>)} :
        LET c == commits[n] IN
        IF c.stmts[1].id = c.by THEN ~InClientTrx(c.by)
        ELSE LET ids == {i \in LastBoundary(c.by) + 1 .. c.by - 1 :
                             prog[i].kind \in {"read", "write"} /\ ~Answer(i, "denied")}
             IN  StmtIds(c) = SetToSortSeq(ids, <)
                 \/ \E i \in ids : RolledBack(i)

(* Routing without replays, whatever the client pipelines, the router      *)
(* queues and the monitor changes: the books are right, replies come in    *)
(* the order of the statements, and the servers modify what was asked for. *)
RoutedRight == Bookkeeping /\ RepliesInOrder /\ CommittedWhole

(* With transaction_replay_safe_commit no transaction is committed twice.  *)
CommittedOnce ==
    \A m, n \in DOMAIN commits : m # n /\ commits[m].by = commits[n].by =>
        commits[m].stmts[1].id = commits[m].by

(* A replay is invisible: what the client has read inside a transaction is *)
(* what the transaction read where it was committed.                       *)
ReplayedAsSeen ==
    \A n \in DOMAIN commits : \A j \in DOMAIN commits[n].stmts :
        LET st == commits[n].stmts[j] IN
        st.id # commits[n].by /\ st.id \in DOMAIN ses.out /\ ses.out[st.id].complete =>
            ses.out[st.id].content = st.content

(* A causal read sees everything that was committed before it: by this     *)
(* session (local, fast) or by anyone (universal).  Reads inside of a      *)
(* transaction see the snapshot of the transaction.                        *)
CausalReadSees ==
    \A k \in DOMAIN ses.out :
        config.causal_reads # "none" /\ prog[k].kind = "read" /\ ses.out[k].complete
                /\ ~InClientTrx(k) =>
            ses.out[k].content[1] \in {"timeout", "read_only"} \cup env.errors
                \cup {ToString(p) : p \in prog[k].after .. Position}

(* Every statement is answered, or the session ends.                       *)
EveryQueryAnswered ==
    \A i \in 1 .. MaxQueries : Len(prog) >= i ~> (ses.closed \/ Answered(ses) >= i)
=============================================================================
