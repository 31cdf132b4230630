------------------------- MODULE MCConnectionLimit -------------------------
(* Two workers: two sessions on the first one, one on the second one. *)
EXTENDS ConnectionLimit, TLC

CONSTANTS w1, w2, e1, e2, e3, plain, other

Homes == (e1 :> w1) @@ (e2 :> w1) @@ (e3 :> w2)
SomeKinds == {[e \in Endpoints |-> plain], [e \in Endpoints |-> IF e = e2 THEN other ELSE plain]}
=============================================================================
