---------------------------- MODULE MCClusterLocks ----------------------------
(***************************************************************************)
(* Instances of ClusterLocks for TLC.                                      *)
(***************************************************************************)
EXTENDS ClusterLocks, TLC

(* Monitors are alike, and so are servers: sound for the invariants.       *)
Alike == Permutations(Monitors) \cup Permutations(Servers)
===============================================================================
