----------------------------- MODULE MCConfigSync -----------------------------
(***************************************************************************)
(* Instances of ConfigSync: n1, n2 are nodes and o1, o2 objects.           *)
(***************************************************************************)
EXTENDS ConfigSync, TLC

(* Nodes and objects are alike, for instances without temporal properties. *)
Alike == Permutations(Nodes) \cup Permutations(Objects)
===============================================================================
