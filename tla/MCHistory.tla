---------------------------- MODULE MCHistory ----------------------------
(***************************************************************************)
(* Small instances of History: two statements that set the same variable   *)
(* and one that is prepared.                                               *)
(***************************************************************************)
EXTENDS History

CONSTANTS b1, b2, set1, set2, prep

OneVariable == (set1 :> "x") @@ (set2 :> "x")

Sized(limit, prunings, commands, reads, faults, failures) ==
    [limit : {limit}, allow_pruning : prunings, disable_history : {FALSE}, commands : {commands},
     reads : {reads}, faults : {faults}, failures : {failures}]

(* A command more than the history holds, and a lost connection or a       *)
(* failure; both of these and another statement, with fewer commands and a *)
(* shorter history; and no history at all.                                 *)
Short ==
    UNION {Sized(2, {TRUE}, 3, 0, 1, 0), Sized(2, {TRUE}, 3, 0, 0, 1),
           Sized(1, BOOLEAN, 2, 1, 1, 1),
           {[l EXCEPT !.disable_history = TRUE] : l \in Sized(2, {TRUE}, 2, 0, 1, 1)}}

(* The history is large enough.                                            *)
Long == {[limit |-> 2, allow_pruning |-> TRUE, disable_history |-> FALSE, commands |-> 2,
          reads |-> 1, faults |-> 0, failures |-> 0]}

(* The connections are alike, and so are the statements.                   *)
Alike == Permutations({b1, b2}) \cup Permutations({set1, set2})
=============================================================================
