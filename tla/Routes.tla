------------------------------- MODULE Routes -------------------------------
(***************************************************************************)
(* Which arm of the Telegram dispatcher handles an update: the ladder of   *)
(* guards of Process (internal/telegram/dispatcher.go), with the AI-free   *)
(* guard of hitl.go and the router's match at its end.                     *)
(*                                                                         *)
(* A text is its first word and the shape of what follows it: nothing, an  *)
(* argument, the word "export", or lines pasted after a newline.  A rule of*)
(* the router is the words its pattern begins with (what the guard looks   *)
(* at) and the texts the pattern matches (what the router looks at).       *)
(***************************************************************************)
EXTENDS Naturals, Sequences, FiniteSetsExt

Rests == {"none", "arg", "export", "paste"}

\* An update from an allowlisted chat; cmd is "" for a text with no word that
\* Process looks for.  Two words it looks for have no slash (see "decide").
Text(cmd, rest) == [allowed |-> TRUE, callback |-> FALSE, cmd |-> cmd, rest |-> rest]
EmptyText == Text("", "none")

Slash(t) == t.cmd \notin {"", "approve", "deny"}

\* row.Text = cmd, and strings.HasPrefix(row.Text, cmd + " ").
Exactly(t, cmds) == t.cmd \in cmds /\ t.rest = "none"
WithArgument(t, cmds) == t.cmd \in cmds /\ t.rest \in {"arg", "export"}

\* SplitN(text, " ", 2)[0]: pasted lines stick to the word before them.
FirstWord(t) == IF t.rest = "paste" THEN "glued" ELSE t.cmd

AnalysisCmds == {"/api_perf", "/exceptions", "/access", "/audit", "/behaviour"}
WatchCmds == {"/watch", "/unwatch", "/watchlist", "/analyze"}

\* knownRouterCommand: the first word begins the pattern of a live rule.
KnownRouterCommand(t, w) == \E r \in w.rules : FirstWord(t) \in r.heads

\* Router.Handle: a live rule matches the whole text.
RuleMatches(t, w) == \E r \in w.rules : t \in r.matches

\* The guards of Process in the order of the code.  An arm that does not
\* return lets the ones below it see the text as well.
ArmTable(t, w) ==
    LET Arm(a, g) == [arm |-> a, taken |-> g, returns |-> TRUE]
        Through(a, g) == [arm |-> a, taken |-> g, returns |-> FALSE]
        Has(s) == s \in w.sources
    IN  << Arm("denied", ~t.allowed),
           Arm("empty", ~t.callback /\ t = EmptyText),
           Arm("callback", t.callback),
           Arm("statsWindow", WithArgument(t, {"/stats"})),
           Arm("rulesExport", t.cmd = "/rules" /\ t.rest = "export"),
           Arm("every", WithArgument(t, {"/every"})),
           Arm("cancelJob", WithArgument(t, {"/cancel_job"})),
           Arm("help", Exactly(t, {"/help", "/start"})),
           Arm("rules", Exactly(t, {"/rules"})),
           Arm("approvals", Exactly(t, {"/approvals"})),
           Arm("status", Exactly(t, {"/status", "/stats"})),
           Arm("history", Exactly(t, {"/history"})),
           Arm("health", Exactly(t, {"/health"})),
           Arm("jobs", Exactly(t, {"/jobs"})),
           Arm("cancelJobUsage", Exactly(t, {"/cancel_job"})),
           Arm("scheduled", Exactly(t, {"/scheduled"})),
           Arm("unschedule", Exactly(t, {"/unschedule"})),
           Arm("notWired", Exactly(t, AnalysisCmds) /\ ~Has("logAnalysis")),
           Through("analysis", Exactly(t, AnalysisCmds)),
           Arm("notWired", Exactly(t, WatchCmds) /\ ~Has("watch")),
           Through("watch", Exactly(t, WatchCmds)),
           Arm("decideUsage", Exactly(t, {"/approve", "/deny"})),
           Arm("decide", WithArgument(t, {"/approve", "/deny", "approve", "deny"})),
           Arm("gated", FirstWord(t) \in w.gated),
           Arm("unknown", Slash(t) /\ ~KnownRouterCommand(t, w)),
           Arm("prompt", ~Slash(t)),
           Arm("rule", RuleMatches(t, w)),
           Arm("fallback", TRUE) >>

\* The arms a text runs through: those taken, down to the first that returns.
Route(t, w) ==
    LET tab == ArmTable(t, w)
        last == Min({i \in DOMAIN tab : tab[i].taken /\ tab[i].returns})
        ran == SelectSeq(SubSeq(tab, 1, last), LAMBDA a : a.taken)
    IN  [i \in DOMAIN ran |-> ran[i].arm]

\* How the arms of a route claim and reply: not at all; run, then claim and
\* send; that and a second claim in the arm below; claim, placeholder, run,
\* edit; claim, run, send.
ReplyKind(route) ==
    CASE Head(route) \in {"denied", "empty"} -> "skip"
      [] Len(route) > 1 -> "analysis"
      [] route = <<"prompt">> -> "prompt"
      [] Head(route) \in {"rule", "fallback"} -> "router"
      [] OTHER -> "command"
=============================================================================
