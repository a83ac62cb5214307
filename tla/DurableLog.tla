----------------------------- MODULE DurableLog -----------------------------
(***************************************************************************)
(* What the store promises its callers, whatever goroutines, channels and  *)
(* transactions it is made of: writes are accepted into one line, leave it *)
(* from the front, are logged or dropped, each once, and nobody is told    *)
(* anything about a write that is not so.                                  *)
(***************************************************************************)
EXTENDS Naturals, Sequences

CONSTANTS
    Ops,      \* the writes
    Waiting   \* those whose callers wait for the transaction

VARIABLES
    pending,   \* the line of accepted writes
    log,       \* the writes in the database, in the order they got there
    accepted,  \* the writes that were accepted
    told       \* what each caller was told

vars == <<pending, log, accepted, told>>

In(o, s) == \E i \in 1..Len(s) : s[i] = o

Init ==
    /\ pending = <<>> /\ log = <<>> /\ accepted = {}
    /\ told = [o \in Ops |-> "none"]

Tell(o, a) == told[o] = "none" /\ told' = [told EXCEPT ![o] = a]

\* A write joins the line; a caller that does not wait has its answer.
Accept(o) ==
    /\ o \notin accepted /\ told[o] = "none"
    /\ accepted' = accepted \cup {o}
    /\ pending' = Append(pending, o)
    /\ told' = IF o \in Waiting THEN told ELSE [told EXCEPT ![o] = "ok"]
    /\ UNCHANGED log

\* It is not taken, and leaves no trace.
Refuse(o) ==
    /\ o \notin accepted
    /\ \E a \in {"closed", "full", "failed"} : Tell(o, a)
    /\ UNCHANGED <<pending, log, accepted>>

\* The front of the line is logged, all of it, or dropped.
Leave(k) ==
    /\ pending' = SubSeq(pending, k + 1, Len(pending))
    /\ log' = log \o SubSeq(pending, 1, k) \/ UNCHANGED log
    /\ UNCHANGED <<accepted, told>>

\* A write that needs no line.
Direct(o) ==
    /\ o \notin accepted
    /\ accepted' = accepted \cup {o}
    /\ log' = Append(log, o)
    /\ Tell(o, "ok")
    /\ UNCHANGED pending

\* A caller that waits is told the truth, or leaves.
Answer(o) ==
    /\ o \in accepted
    /\ \/ In(o, log) /\ Tell(o, "ok")
       \/ ~In(o, log) /\ ~In(o, pending) /\ Tell(o, "failed")
       \/ Tell(o, "ctx")
    /\ UNCHANGED <<pending, log, accepted>>

Next ==
    \/ \E o \in Ops : Accept(o) \/ Refuse(o) \/ Direct(o) \/ Answer(o)
    \/ \E k \in 1..Len(pending) : Leave(k)

Spec == Init /\ [][Next]_vars
=============================================================================
