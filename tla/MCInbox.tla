------------------------------ MODULE MCInbox ------------------------------
(* Model-checking instance of Inbox: two updates, in every mix of the arms *)
(* of Process that treat the claim differently, as Routes sends them there.*)
EXTENDS Inbox, Routes

CONSTANTS w1, w2

Wired ==
    [sources |-> {"logAnalysis", "watch"}, gated |-> {"/register_rules"},
     rules |-> {[heads |-> {"/uptime"}, matches |-> {Text("/uptime", "none")}]}]

KindOf(t) == ReplyKind(Route(t, Wired))

Denied == [Text("/uptime", "none") EXCEPT !.allowed = FALSE]
Help == Text("/help", "none")
Audit == Text("/audit", "none")
Uptime == Text("/uptime", "none")
Prompt == Text("", "arg")

MCScenarios ==
    { [webhook |-> TRUE, kind |-> <<KindOf(Audit), KindOf(Prompt)>>],
      [webhook |-> TRUE, kind |-> <<KindOf(Uptime), KindOf(Denied)>>],
      [webhook |-> FALSE, kind |-> <<KindOf(Help), KindOf(Prompt)>>] }
=============================================================================
