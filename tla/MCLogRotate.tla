---------------------------- MODULE MCLogRotate ----------------------------
(* Model-checking instance of LogRotate.                                   *)
EXTENDS LogRotate

\* Short records, records that fill a file, and records longer than the cap.
Mixed == [r \in Records |-> <<1, 4, 1, 2, 5, 3, 1, 2>>[r]]
=============================================================================
