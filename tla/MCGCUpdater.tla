---------------------------- MODULE MCGCUpdater ----------------------------
(* GCUpdater on small instances: the configurations set its constants.     *)
EXTENDS GCUpdater, TLC

(* Addresses are alike: sound for the instances without liveness.          *)
Alike == Permutations(Ptr)
=============================================================================
