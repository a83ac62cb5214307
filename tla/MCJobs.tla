------------------------------- MODULE MCJobs -------------------------------
(* Model-checking instance of Jobs: two downloads to one path.             *)
EXTENDS Jobs

CONSTANTS j1, j2, p1

OnePath == [j \in Ids |-> p1]
=============================================================================
