---------------------------- MODULE MCScheduler ----------------------------
(* Model-checking instances of Scheduler.                                  *)
EXTENDS Scheduler

CONSTANTS e1, e2, c1

\* All commands come from one chat, which may lose its place on the allowlist.
ChatOfOne == [c \in Calls |-> c1]
=============================================================================
