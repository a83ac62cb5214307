------------------------------- MODULE Wiring -------------------------------
(***************************************************************************)
(* How the Telegram dispatcher is wired up at boot (startTelegram in       *)
(* internal/app/app.go) and what it makes of an update meanwhile and after.*)
(*                                                                         *)
(* The worker pool starts before the dispatcher's sources and gated actions*)
(* are set, one call at a time, and the workers read those fields without a*)
(* lock: rows left over from before the boot meet a half-wired dispatcher. *)
(***************************************************************************)
EXTENDS Routes

CONSTANTS
    Texts,       \* the texts the user sends
    Rules,       \* the router's live rules: [heads, matches]
    Documented   \* the texts the command reference lists

NoText == [allowed |-> FALSE, callback |-> FALSE, cmd |-> "", rest |-> "none"]

VARIABLES
    step,      \* calls of BootSteps made so far
    sources,   \* sources set by the Set* calls
    gated,     \* the commands of d.gated
    row,       \* a row waiting in the inbox, or NoText
    answer     \* the last update processed: [text, route, booted]

vars == <<step, sources, gated, row, answer>>

Gate(cmd) == [call |-> "RegisterGated", arg |-> cmd]
Source(name) == [call |-> "Set", arg |-> name]

\* The calls of startTelegram that a worker or a user can notice, in order.
BootSteps ==
    << [call |-> "pool.Start", arg |-> ""],
       Gate("/reload_rules"), Gate("/addrule"), Gate("/register_rules"),
       Source("stats"), Source("history"), Source("health"), Source("rulesExport"),
       Source("schedules"), Source("watch"), Source("logAnalysis"),
       Source("jobs"), Source("jobCancel"), Source("onDecided"),
       [call |-> "transport", arg |-> ""] >>

Booted == step = Len(BootSteps)

\* The inbox is durable: a row may be left over from the previous process.
Init ==
    /\ step = 0
    /\ sources = {}
    /\ gated = {}
    /\ row \in Texts \cup {NoText}
    /\ answer = [text |-> NoText, route |-> <<>>, booted |-> FALSE]

\* RegisterGated stores the map it is given.
RegisterGated(cmd) == gated' = {cmd}

\* The next call of startTelegram.
BootStep ==
    /\ ~Booted
    /\ LET s == BootSteps[step + 1]
       IN  /\ \/ s.call = "RegisterGated" /\ RegisterGated(s.arg)
              \/ s.call # "RegisterGated" /\ UNCHANGED gated
           /\ sources' = IF s.call = "Set" THEN sources \cup {s.arg} ELSE sources
    /\ step' = step + 1
    /\ UNCHANGED <<row, answer>>

\* The user writes: the transport is the last thing to start.
Deliver(t) ==
    /\ Booted
    /\ row = NoText
    /\ row' = t
    /\ UNCHANGED <<step, sources, gated, answer>>

\* A worker hands the row to Process.
Handle ==
    /\ step >= 1
    /\ row # NoText
    /\ answer' = [text |-> row,
                  route |-> Route(row, [sources |-> sources, gated |-> gated, rules |-> Rules]),
                  booted |-> Booted]
    /\ row' = NoText
    /\ UNCHANGED <<step, sources, gated>>

Next == BootStep \/ Handle \/ \E t \in Texts : Deliver(t)

Spec == Init /\ [][Next]_vars

-----------------------------------------------------------------------------
(* Properties.                                                             *)

\* Once startTelegram has returned, a command of the README's command
\* reference is never answered with "Unknown command" (Process, ladder of
\* arms; "Unknown slash-commands NEVER reach the LLM" is meant for others).
DocumentedCommandsReachable ==
    answer.booted /\ answer.text \in Documented => Head(answer.route) # "unknown"
=============================================================================
