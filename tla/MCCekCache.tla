----------------------------- MODULE MCCekCache -----------------------------
(* CekCache for TLC: two keys share a master key, the third has its own.    *)
EXTENDS CekCache, TLC

CONSTANTS c1, c2, k1, k2, k3, p1, p2

SharedPath == (k1 :> p1) @@ (k2 :> p1) @@ (k3 :> p2)
=============================================================================
