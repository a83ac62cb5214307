---------------------------- MODULE MCWriteQueue ----------------------------
(* Model-checking instances of WriteQueue.                                 *)
EXTENDS WriteQueue

CONSTANTS s1, a1, f1, d1, k1, k2
=============================================================================
