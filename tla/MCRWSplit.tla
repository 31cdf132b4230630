----------------------------- MODULE MCRWSplit -----------------------------
(***************************************************************************)
(* Small instances of RWSplit: two servers, the first of them the primary  *)
(* at first.  Every instance is a configuration of the service with what   *)
(* happens around a session of it; a run checks the ones in Chosen.        *)
(***************************************************************************)
EXTENDS RWSplit

CONSTANTS b1, b2, Chosen

Two == <<b1, b2>>

First2  == (b1 :> "master") @@ (b2 :> "slave")
Second2 == (b1 :> "slave") @@ (b2 :> "master")
Maint2  == (b1 :> "maint") @@ (b2 :> "slave")
Lost2   == (b1 :> "down") @@ (b2 :> "master")
Gone2   == (b1 :> "down") @@ (b2 :> "slave")
None2   == (b1 :> "down") @@ (b2 :> "down")

Failover == {Second2, Lost2}
Outage   == {Gone2, None2, Second2}

AnyState == {"ROUTING", "TRX_REPLAY", "TRX_REPLAY_INTERRUPTED",
             "OTRX_STARTING", "OTRX_ACTIVE", "OTRX_ROLLBACK"}

(* Results of two units that begin alike.                                  *)
TwoResults == {<<"a", "b">>, <<"a", "c">>}

Plain ==
    [transaction_replay |-> FALSE, trx_max_attempts |-> 2, trx_max_size |-> 10,
     trx_retry_on_deadlock |-> FALSE, trx_retry_on_mismatch |-> FALSE,
     trx_retry_safe_commit |-> TRUE, optimistic_trx |-> FALSE,
     delayed_retry |-> FALSE, delayed_retry_timeout |-> 2,
     master_reconnection |-> TRUE, master_failure_mode |-> "fail_on_write",
     retry_failed_reads |-> TRUE, master_accept_reads |-> FALSE,
     max_slave_connections |-> 2, lazy_connect |-> FALSE,
     causal_reads |-> "none", disable_sescmd_history |-> FALSE,
     max_sescmd_history |-> 50, prune_sescmd_history |-> TRUE]

Delayed    == [Plain EXCEPT !.delayed_retry = TRUE]
Replay     == [Plain EXCEPT !.transaction_replay = TRUE]
Optimistic == [Plain EXCEPT !.optimistic_trx = TRUE]
Causal(m)  == [Delayed EXCEPT !.causal_reads = m]

Calm ==
    [kinds |-> {"read", "write", "begin", "commit"}, stray_ends |-> TRUE,
     max_queries |-> 4, max_pipeline |-> 1, results |-> {<<"a", "b">>}, errors |-> {},
     statuses |-> {}, max_changes |-> 1, max_faults |-> 1, fault_types |-> {"NORMAL"},
     loss_states |-> AnyState, loss_during_retry |-> TRUE, connect_fails |-> FALSE,
     max_other_writes |-> 0]

(* Losses at the points from which transaction replay recovers.            *)
Losses ==
    [Calm EXCEPT !.results = TwoResults, !.loss_states = {"ROUTING", "TRX_REPLAY"},
                 !.loss_during_retry = FALSE]

Offloaded ==
    [Calm EXCEPT !.results = TwoResults, !.stray_ends = FALSE, !.loss_during_retry = FALSE]

CausalClient(queries, writes) ==
    [Calm EXCEPT !.kinds = {"read", "write", "beginro", "commit"}, !.max_pipeline = 2,
                 !.max_queries = queries, !.max_other_writes = writes]

(* [service, environment] of every instance.                               *)
Instances ==
   [replay |-> <<Replay,
        [Losses EXCEPT !.max_faults = 2, !.statuses = Failover]>>,
    errors |-> <<[Replay EXCEPT !.trx_retry_on_deadlock = TRUE],
        [Losses EXCEPT !.errors = {"rollback", "wsrep"}]>>,
    trx_sescmd |-> <<[Replay EXCEPT !.trx_max_size = 2],
        [Losses EXCEPT !.kinds = {"write", "sescmd", "begin", "commit"},
                       !.results = {<<"a", "b">>}, !.statuses = Failover]>>,
    otrx |-> <<Optimistic, [Offloaded EXCEPT !.max_faults = 0, !.max_queries = 5]>>,
    otrx_loss |-> <<Optimistic,
        [Offloaded EXCEPT !.kinds = {"read", "begin", "commit"},
                          !.loss_states = AnyState \ {"TRX_REPLAY_INTERRUPTED", "OTRX_ROLLBACK"}]>>,
    pipe |-> <<Plain,
        [Calm EXCEPT !.max_pipeline = 2, !.max_queries = 5, !.max_faults = 2]>>,
    sescmd |-> <<Delayed,
        [Calm EXCEPT !.kinds = {"read", "write", "sescmd"}, !.max_pipeline = 2,
                     !.statuses = Outage]>>,
    full_history |-> <<[Delayed EXCEPT !.max_sescmd_history = 1, !.prune_sescmd_history = FALSE],
        [Calm EXCEPT !.kinds = {"read", "write", "sescmd"}, !.max_queries = 4,
                     !.statuses = {Gone2, Second2}]>>,
    error_on_write |-> <<[Plain EXCEPT !.master_failure_mode = "error_on_write"],
        [Calm EXCEPT !.kinds = {"read", "write", "sescmd"}, !.statuses = Outage,
                     !.connect_fails = TRUE]>>,
    lazy |-> <<[Delayed EXCEPT !.lazy_connect = TRUE, !.master_accept_reads = TRUE,
                               !.max_slave_connections = 1],
        [Calm EXCEPT !.kinds = {"read", "write", "settrx", "begin", "commit"},
                     !.max_queries = 3, !.statuses = {Maint2, Second2}, !.max_changes = 2,
                     !.connect_fails = TRUE, !.fault_types = {"NORMAL", "FATAL"}]>>,
    causal_local          |-> <<Causal("local"), CausalClient(4, 0)>>,
    causal_fast           |-> <<Causal("fast"), CausalClient(4, 0)>>,
    causal_universal      |-> <<Causal("universal"), CausalClient(3, 1)>>,
    causal_fast_universal |-> <<Causal("fast_universal"), CausalClient(3, 1)>>,
    live |-> <<Delayed, [Calm EXCEPT !.max_queries = 3, !.statuses = Outage]>>,
    interrupted_twice |-> <<Replay,
        [Losses EXCEPT !.loss_states = AnyState, !.max_faults = 2, !.statuses = Failover]>>,
    mismatch |-> <<[Replay EXCEPT !.trx_retry_on_mismatch = TRUE],
        [Losses EXCEPT !.results = {<<"a">>, <<"d">>}, !.max_queries = 5]>>,
    readonly |-> <<[Plain EXCEPT !.master_failure_mode = "error_on_write"],
        [Calm EXCEPT !.max_pipeline = 2, !.max_queries = 2, !.kinds = {"read", "write"}]>>]

ChosenServices     == [i \in Chosen |-> Instances[i][1]]
ChosenEnvironments == [i \in Chosen |-> Instances[i][2]]
=============================================================================
