-------------------------- MODULE QueryClassifier --------------------------
(***************************************************************************)
(* The part of the query classifier that decides where readwritesplit      *)
(* sends a statement: the transaction tracker (TrxTracker) and the route   *)
(* target of one statement (QueryClassifier::update_route_info).  It is a  *)
(* library of functions on the classifier's state                          *)
(*                                                                         *)
(*   qc = [trx      |-> the flags set in TrxTracker::m_trx_state,          *)
(*         still_ro |-> RouteInfo::m_trx_is_still_read_only,               *)
(*         target   |-> RouteInfo::m_target,                               *)
(*         type     |-> RouteInfo::m_type_mask]                            *)
(*                                                                         *)
(* A statement is a record with a kind; the parser, which is not modelled, *)
(* is represented by the type mask it computes for each kind.              *)
(***************************************************************************)
EXTENDS Naturals

Kinds == {"read", "write", "begin", "beginro", "commit", "rollback",
          "sescmd", "settrx", "probe"}

(* The type mask the parser gives to a statement: SELECT, INSERT/UPDATE,   *)
(* START TRANSACTION [READ ONLY], COMMIT, ROLLBACK, SET SESSION ...,       *)
(* SET TRANSACTION ..., SELECT @@gtid_current_pos.                         *)
TypeMask(kind) ==
    CASE kind = "read"     -> {"READ"}
      [] kind = "write"    -> {"WRITE"}
      [] kind = "begin"    -> {"BEGIN_TRX"}
      [] kind = "beginro"  -> {"BEGIN_TRX", "READ"}
      [] kind = "commit"   -> {"COMMIT"}
      [] kind = "rollback" -> {"ROLLBACK"}
      [] kind = "sescmd"   -> {"SESSION_WRITE"}
      [] kind = "settrx"   -> {"SESSION_WRITE", "NEXT_TRX"}
      [] kind = "probe"    -> {"READ", "SYSVAR_READ"}

QcInit == [trx |-> {}, still_ro |-> FALSE, target |-> "MASTER", type |-> {}]

is_trx_active(qc)    == "ACTIVE" \in qc.trx
is_trx_read_only(qc) == "READ_ONLY" \in qc.trx
is_trx_ending(qc)    == "ENDING" \in qc.trx
is_trx_starting(qc)  == "STARTING" \in qc.trx

(* With autocommit on (autocommit=0 is not modelled) a transaction that    *)
(* was ending is over when the next statement is classified.               *)
track_transaction_state(trx, type) ==
    LET next == IF "ENDING" \in trx THEN {} ELSE trx \ {"STARTING"}
    IN  IF "BEGIN_TRX" \in type
        THEN {"ACTIVE", "STARTING"} \cup
             (IF "READ" \in type THEN {"READ_ONLY"} ELSE {})
        ELSE IF {"COMMIT", "ROLLBACK"} \cap type # {}
             THEN next \cup {"ENDING"}
             ELSE next

(* The server's status flags, when the reply carries any, override what    *)
(* was concluded from the SQL.                                             *)
fix_trx_state(trx, status) ==
    IF status = "none" THEN trx
    ELSE IF "ACTIVE" \notin trx /\ status # "idle"
         THEN {"ACTIVE", "STARTING"} \cup
              (IF status = "in_ro_trx" THEN {"READ_ONLY"} ELSE {})
    ELSE IF "ACTIVE" \in trx /\ status = "idle"
            /\ {"ENDING", "STARTING"} \cap trx = {}
         THEN trx \cup {"ENDING"}
    ELSE trx

query_type_is_read_only(type) == "READ" \in type /\ "WRITE" \notin type

get_route_target(type, trx) ==
    IF "NEXT_TRX" \in type THEN "MASTER"
    ELSE IF "WRITE" \notin type /\ "SESSION_WRITE" \in type THEN "ALL"
    ELSE IF "ACTIVE" \notin trx /\ query_type_is_read_only(type) THEN "SLAVE"
    ELSE IF "READ_ONLY" \in trx THEN "SLAVE"
    ELSE "MASTER"

(* Classifies statement q.  locked: is_locked_to_master(); hintOk:         *)
(* supports_hint(ROUTE_TO_MASTER) in the state after q.  Prepared,         *)
(* multi-part and multi-statement commands and temporary tables are not    *)
(* modelled.                                                               *)
update_route_info(qc, q, locked, hintOk) ==
    LET trx  == track_transaction_state(qc.trx, TypeMask(q.kind))
        type == IF locked /\ "READ_ONLY" \in trx THEN {"READ"}
                ELSE TypeMask(q.kind)
    IN  [trx      |-> trx,
         still_ro |-> IF "ENDING" \in trx \/ "BEGIN_TRX" \in type THEN TRUE
                      ELSE IF "ACTIVE" \in trx /\ ~query_type_is_read_only(type)
                           THEN FALSE
                           ELSE qc.still_ro,
         target   |-> IF locked \/ (q.hint /\ hintOk) THEN "MASTER"
                      ELSE get_route_target(type, trx),
         type     |-> type]

(* QueryClassifier::update_from_reply for a complete reply.                *)
update_from_reply(qc, status) == [qc EXCEPT !.trx = fix_trx_state(@, status)]
=============================================================================
