---------------------------- MODULE MCApprovals ----------------------------
(* A model-checking instance of Approvals.                                 *)
EXTENDS Approvals

CONSTANTS w1, w2

\* Two workers that share their rows, or one that crashes and whose calls fail.
MCDeployments ==
    {[pool |-> {w1, w2}, crashes |-> FALSE, faults |-> FALSE],
     [pool |-> {w1}, crashes |-> TRUE, faults |-> TRUE]}
=============================================================================
