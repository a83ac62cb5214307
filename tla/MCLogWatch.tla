----------------------------- MODULE MCLogWatch -----------------------------
(* Model-checking instance of LogWatch.                                    *)
EXTENDS LogWatch

CONSTANTS n1, p1, c1

\* Every record has the length one.
Unit == [r \in Records |-> 1]

\* The pattern matches every record but the second one.
MatchingMost == [p \in Patterns |-> Records \ {2}]
=============================================================================
