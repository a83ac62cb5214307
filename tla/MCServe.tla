------------------------------ MODULE MCServe ------------------------------
(* Model-checking instances of Serve.                                      *)
EXTENDS Serve

CONSTANTS r1, r2, t1, s1

\* Both requests carry one trace id: the second is a retry of the first.
SharedTrace == [r \in Requests |-> t1]
=============================================================================
