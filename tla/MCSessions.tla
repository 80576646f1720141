----------------------------- MODULE MCSessions -----------------------------
(* The sessions and requests of the instance.                              *)
EXTENDS Sessions

CONSTANTS s1, s2, r1, r2, r3
=============================================================================
