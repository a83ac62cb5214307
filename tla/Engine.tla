------------------------------- MODULE Engine -------------------------------
(***************************************************************************)
(* The hybrid decision engine (internal/engine/engine.go) with the router  *)
(* it consults (internal/router), the shadow comparisons it records        *)
(* (internal/store/shadow.go) and the hot reload of the rules table.       *)
(*                                                                         *)
(* A run routes one prompt: a live rule matches and its tool executes, or  *)
(* nothing matches.  Shadow rules, and a sample of the promoted mined      *)
(* ones, are compared with the LLM's choice of tool; the comparison is     *)
(* recorded and moves the rule through its lifecycle.  Runs, reloads, the  *)
(* miner and the operator all share the rules table, and none of them      *)
(* holds a lock across its reads and writes.                               *)
(*                                                                         *)
(* Which prompt matches which regular expression, the text of answers,     *)
(* confidence scores and latencies are abstracted away.                    *)
(***************************************************************************)
EXTENDS Naturals, Sequences, FiniteSets

CONSTANTS
    Runs,         \* concurrent callers of Run and RunStreaming
    Seeds,        \* names of the rules compiled into the binary (Seeded)
    Mined,        \* names of the rules the miner can add
    NoRule,       \* Decision.Handled = false
    Reloaders,    \* the hot-reload ticker, and gates that reload on demand
    PromoteAfter, \* engine.PromoteAfter (5 by default)
    StreakLimit,  \* LIMIT of ShadowStreak's query (100 in the code)
    Setups,       \* the deployments to consider: see SetupType
    MaxRuns       \* bound on the runs of a behaviour

RuleNames == Seeds \cup Mined

ASSUME RulesAssumption == Seeds \cap Mined = {} /\ NoRule \notin RuleNames
ASSUME BoundsAssumption ==
    /\ PromoteAfter \in Nat \ {0}
    /\ StreakLimit \in Nat
    /\ MaxRuns \in Nat

\* A deployment: no LLM, an LLM, or an LLM and a classifier; the callers and
\* reloaders at work; whether store calls may fail; whether the operator uses
\* `aegis ctl rules promote|demote'.
SetupType == [llm : {"off", "on", "classifier"}, callers : SUBSET Runs,
              reloaders : SUBSET Reloaders, fails : BOOLEAN, operator : BOOLEAN]

ASSUME SetupsAssumption == Setups \subseteq SetupType

VARIABLES
    rstate,     \* rules.state of each row, "absent" if there is no row
    enabled,    \* rules.enabled of each row
    live,       \* Router.rules: the state of each rule of the live set
    loaded,     \* what each reloader has read and not yet swapped in
    shadow,     \* shadow_events of each rule, oldest first: TRUE = agreed
    run,        \* [pc, rule, evaluate, fromRule, agreed] of each caller
    logged,     \* history: the lines Audit logged for each caller's current run
    audits,     \* history: the audit rows that came of them
    corpus,     \* history: fallback_events rows of the current run
    nruns,      \* runs started
    setup,      \* the deployment of this behaviour
    manual      \* history: rules the operator promoted and nobody demoted since

tableVars == <<rstate, enabled>>
sinkVars == <<logged, audits, corpus>>
runVars == <<run, sinkVars, nruns>>
opVars == <<manual, setup>>
vars == <<tableVars, live, loaded, shadow, runVars, opVars>>

LLMOn == setup.llm # "off"                \* Engine.LLM # nil
ClassifierOn == setup.llm = "classifier"  \* Engine.Classifier # nil

RuleStates == {"absent", "active", "shadow", "demoted"}
NotLoaded == [r \in RuleNames |-> "unread"]

Sources == {"router", "llm", "llm_disabled", "llm_classifier", "error"}

PCs == {"idle", "router", "llmoff", "classify", "llm", "compare", "record", "judge",
        "promote", "answer", "done"}

TypeOK ==
    /\ rstate \in [RuleNames -> RuleStates]
    /\ enabled \in [RuleNames -> BOOLEAN]
    /\ live \in [RuleNames -> RuleStates]
    /\ loaded \in [Reloaders -> [RuleNames -> RuleStates] \cup {NotLoaded}]
    /\ shadow \in [RuleNames -> Seq(BOOLEAN)]
    /\ run \in [Runs -> [pc : PCs, rule : RuleNames \cup {NoRule},
                         evaluate : BOOLEAN, fromRule : BOOLEAN, agreed : BOOLEAN]]
    /\ logged \in [Runs -> Seq(Sources)]
    /\ audits \in [Runs -> Seq(Sources)]
    /\ corpus \in [Runs -> 0..1]
    /\ nruns \in 0..MaxRuns
    /\ setup \in Setups
    /\ manual \in SUBSET RuleNames

Idle == [pc |-> "idle", rule |-> NoRule, evaluate |-> FALSE,
         fromRule |-> FALSE, agreed |-> FALSE]

\* The state app.Build leaves: the seed rules are in the table and live.
Init ==
    /\ rstate = [r \in RuleNames |-> IF r \in Seeds THEN "active" ELSE "absent"]
    /\ enabled = [r \in RuleNames |-> r \in Seeds]
    /\ live = rstate
    /\ loaded = [x \in Reloaders |-> NotLoaded]
    /\ shadow = [r \in RuleNames |-> <<>>]
    /\ run = [p \in Runs |-> Idle]
    /\ logged = [p \in Runs |-> <<>>]
    /\ audits = [p \in Runs |-> <<>>]
    /\ corpus = [p \in Runs |-> 0]
    /\ nruns = 0
    /\ setup \in Setups
    /\ manual = {}

-----------------------------------------------------------------------------
(* The rules table.                                                        *)

\* SetRuleState: an UPDATE, so a missing row stays missing.
SetRuleState(r, state, on) ==
    /\ rstate' = [rstate EXCEPT ![r] = IF @ = "absent" THEN @ ELSE state]
    /\ enabled' = [enabled EXCEPT ![r] = IF rstate[r] = "absent" THEN @ ELSE on]

\* Mutant: LoadRules forgets WHERE enabled=1.
LoadRulesAll == rstate

\* The rule set LoadRules returns: the enabled rows, or, when there are none,
\* the compiled-in seeds.
LoadRules ==
    IF \E r \in RuleNames : enabled[r]
    THEN [r \in RuleNames |-> IF enabled[r] THEN rstate[r] ELSE "absent"]
    ELSE [r \in RuleNames |-> IF r \in Seeds THEN "active" ELSE "absent"]

\* seedRules, run by LoadRules when no row is enabled: INSERT OR IGNORE.
SeedRules ==
    LET missing == IF \E r \in RuleNames : enabled[r] THEN {}
                   ELSE {r \in Seeds : rstate[r] = "absent"}
    IN  /\ rstate' = [r \in RuleNames |-> IF r \in missing THEN "active" ELSE rstate[r]]
        /\ enabled' = [r \in RuleNames |-> enabled[r] \/ r \in missing]

\* A reload reads the table (StartHotReload's tick, ReloadGate.Run) ...
ReloadRead(x) ==
    /\ loaded[x] = NotLoaded
    /\ loaded' = [loaded EXCEPT ![x] = LoadRules]
    /\ SeedRules
    /\ UNCHANGED <<live, shadow, runVars, opVars>>

\* ... and swaps the set it read into the router.
ReloadSwap(x) ==
    /\ loaded[x] # NotLoaded
    /\ live' = loaded[x]
    /\ loaded' = [loaded EXCEPT ![x] = NotLoaded]
    /\ UNCHANGED <<tableVars, shadow, runVars, opVars>>

\* Swap rejects the set (a rule that names an unknown tool or does not
\* compile): the previous rules stay.
ReloadRejected(x) ==
    /\ setup.fails
    /\ loaded[x] # NotLoaded
    /\ loaded' = [loaded EXCEPT ![x] = NotLoaded]
    /\ UNCHANGED <<tableVars, live, shadow, runVars, opVars>>

\* Mine inserts a shadow rule for a new shape.
MineInsert(r) ==
    /\ r \in Mined
    /\ rstate[r] = "absent"
    /\ rstate' = [rstate EXCEPT ![r] = "shadow"]
    /\ enabled' = [enabled EXCEPT ![r] = TRUE]
    /\ UNCHANGED <<live, loaded, shadow, runVars, opVars>>

\* aegis ctl rules promote <name>
CtlPromote(r) ==
    /\ setup.operator
    /\ rstate[r] # "absent"
    /\ SetRuleState(r, "active", TRUE)
    /\ manual' = manual \cup {r}
    /\ UNCHANGED <<live, loaded, shadow, runVars, setup>>

\* aegis ctl rules demote <name>
CtlDemote(r) ==
    /\ setup.operator
    /\ rstate[r] # "absent"
    /\ SetRuleState(r, "demoted", FALSE)
    /\ manual' = manual \ {r}
    /\ UNCHANGED <<live, loaded, shadow, runVars, setup>>

-----------------------------------------------------------------------------
(* One run of the pipeline.                                                *)

\* Router.Handle's decision for a prompt that rule r matches first (its tool
\* has run by now), or that no rule matches.
Decision(r, sampled) ==
    [rule |-> r,
     evaluate |-> r # NoRule /\ (live[r] = "shadow" \/ (live[r] = "active" /\ r \in Mined /\ sampled)),
     fromRule |-> r # NoRule /\ live[r] = "active" /\ r \in Mined /\ sampled]

\* Where a prompt goes that no rule matches.
Miss == IF ~LLMOn THEN "llmoff" ELSE IF ClassifierOn THEN "classify" ELSE "llm"

\* runUnwrapped's branches, up to the first call that can block.
RunBranch(d) ==
    CASE d.rule = NoRule -> Miss
      [] d.rule # NoRule /\ d.evaluate /\ LLMOn -> "compare"
      [] OTHER -> "router"

\* RunStreaming's branches: compareShadow itself finds that there is no LLM.
StreamBranch(d) ==
    CASE d.rule = NoRule -> Miss
      [] d.rule # NoRule /\ d.evaluate -> "compare"
      [] OTHER -> "router"

\* A caller enters Run or RunStreaming and the router decides.
Handle(p, mode) ==
    /\ run[p].pc = "idle"
    /\ nruns < MaxRuns
    /\ \E r \in {q \in RuleNames : live[q] # "absent"} \cup {NoRule}, sampled \in BOOLEAN :
        LET d == Decision(r, sampled) IN
        run' = [run EXCEPT ![p] =
                   [pc |-> IF mode = "run" THEN RunBranch(d) ELSE StreamBranch(d),
                    rule |-> r, evaluate |-> d.evaluate, fromRule |-> d.fromRule, agreed |-> FALSE]]
    /\ nruns' = nruns + 1
    /\ UNCHANGED <<tableVars, live, loaded, shadow, sinkVars, opVars>>

Goto(p, pc) == run' = [run EXCEPT ![p].pc = pc]

\* What becomes of a write that exec queues: its error is dropped, so that a
\* full queue, or a batch that fails, loses it.
Stored == IF setup.fails THEN BOOLEAN ELSE {TRUE}

\* A tail of the pipeline: Audit logs a line and queues a row, and, where the
\* LLM chose the tools, RecordFallback queues a row of mining corpus.
Finish(p, source, rows) ==
    /\ Goto(p, "done")
    /\ logged' = [logged EXCEPT ![p] = Append(@, source)]
    /\ \E kept \in Stored :
        audits' = [audits EXCEPT ![p] = IF kept THEN Append(@, source) ELSE @]
    /\ \E kept \in Stored :
        corpus' = [corpus EXCEPT ![p] = IF kept THEN @ + rows ELSE @]
    /\ UNCHANGED <<tableVars, live, loaded, shadow, nruns, opVars>>

FinishRouter(p) == run[p].pc = "router" /\ Finish(p, "router", 0)

FinishLLMOff(p) == run[p].pc = "llmoff" /\ Finish(p, "llm_disabled", 0)

Quiet == UNCHANGED <<tableVars, live, loaded, shadow, sinkVars, nruns, opVars>>

\* tryClassifier: the fast tier resolves the prompt, or declines.
Classify(p) ==
    /\ run[p].pc = "classify"
    /\ \/ Finish(p, "llm_classifier", 1)
       \/ Goto(p, "llm") /\ Quiet

\* The LLM fallback; finishLLMError when the provider (or, for a stream, the
\* client) fails.
Fallback(p) ==
    /\ run[p].pc = "llm"
    /\ Finish(p, "llm", 1) \/ Finish(p, "error", 0)

\* compareShadow's LLM run: the comparison, or nil if it is unavailable.
Compare(p) ==
    /\ run[p].pc = "compare"
    /\ \/ Goto(p, "router")
       \/ /\ LLMOn
          /\ \E agreed \in BOOLEAN :
                run' = [run EXCEPT ![p].pc = "record", ![p].agreed = agreed]
    /\ Quiet

\* RecordShadow; its error is only logged.
Record(p) ==
    /\ run[p].pc = "record"
    /\ Goto(p, "judge")
    /\ \/ shadow' = [shadow EXCEPT ![run[p].rule] = Append(@, run[p].agreed)]
       \/ setup.fails /\ UNCHANGED shadow
    /\ UNCHANGED <<tableVars, live, loaded, sinkVars, nruns, opVars>>

\* Mutant: agreements are counted across a divergence.
StreakIgnoringBreaks(s) == Cardinality({i \in 1..Len(s) : s[i]})

\* ShadowStreak: consecutive agreements, newest first, over the newest
\* StreakLimit rows.
ShadowStreak(s) ==
    Cardinality({i \in 1..Len(s) : /\ Len(s) - i < StreakLimit
                                   /\ \A j \in i..Len(s) : s[j]})

\* What a divergence does to the rule's row.
Demote(r) == SetRuleState(r, "demoted", FALSE)

\* evaluateLifecycle: a divergence demotes; an agreement reads the streak.
Judge(p) ==
    /\ run[p].pc = "judge"
    /\ \/ /\ ~run[p].agreed
          /\ Demote(run[p].rule)
          /\ manual' = manual \ {run[p].rule}
          /\ Goto(p, "answer")
       \/ /\ run[p].agreed
          /\ Goto(p, IF ShadowStreak(shadow[run[p].rule]) >= PromoteAfter
                     THEN "promote" ELSE "answer")
          /\ UNCHANGED <<tableVars, manual>>
       \/ setup.fails /\ Goto(p, "answer") /\ UNCHANGED <<tableVars, manual>>
    /\ UNCHANGED <<live, loaded, shadow, sinkVars, nruns, setup>>

\* evaluateLifecycle's promotion, a write of its own after the streak's read.
Promote(p) ==
    /\ run[p].pc = "promote"
    /\ \/ SetRuleState(run[p].rule, "active", TRUE)
       \/ setup.fails /\ UNCHANGED tableVars
    /\ Goto(p, "answer")
    /\ UNCHANGED <<live, loaded, shadow, sinkVars, nruns, opVars>>

\* Mutant: a sampled rule's run is audited as an LLM answer.
AnswerIgnoringSample(p) == run[p].pc = "answer" /\ Finish(p, "llm", 1)

\* finishShadow after a comparison, or RunStreaming's deterministic branch:
\* a sampled rule answers itself, otherwise the LLM's answer wins.
Answer(p) ==
    /\ run[p].pc = "answer"
    /\ IF run[p].fromRule THEN Finish(p, "router", 0) ELSE Finish(p, "llm", 1)

\* Run or RunStreaming returns.
Return(p) ==
    /\ run[p].pc = "done"
    /\ run' = [run EXCEPT ![p] = Idle]
    /\ logged' = [logged EXCEPT ![p] = <<>>]
    /\ audits' = [audits EXCEPT ![p] = <<>>]
    /\ corpus' = [corpus EXCEPT ![p] = 0]
    /\ UNCHANGED <<tableVars, live, loaded, shadow, nruns, opVars>>

-----------------------------------------------------------------------------

RunStep(p) ==
    \/ FinishRouter(p) \/ FinishLLMOff(p) \/ Classify(p) \/ Fallback(p)
    \/ Compare(p) \/ Record(p) \/ Judge(p) \/ Promote(p) \/ Answer(p) \/ Return(p)

ReloadStep(x) == ReloadRead(x) \/ ReloadSwap(x) \/ ReloadRejected(x)

AdminStep(r) == MineInsert(r) \/ CtlPromote(r) \/ CtlDemote(r)

Next ==
    \/ \E p \in setup.callers : RunStep(p) \/ \E mode \in {"run", "stream"} : Handle(p, mode)
    \/ \E x \in setup.reloaders : ReloadStep(x)
    \/ \E r \in RuleNames : AdminStep(r)

Spec == Init /\ [][Next]_vars

\* Runs that began go on (every LLM call has a deadline) and the hot-reload
\* ticker keeps ticking.  Nobody need send a prompt, mine or use ctl.
Fairness ==
    /\ \A p \in Runs : WF_vars(RunStep(p))
    /\ \A x \in Reloaders : WF_vars(x \in setup.reloaders /\ ReloadRead(x))
                         /\ WF_vars(x \in setup.reloaders /\ ReloadSwap(x))

FairSpec == Spec /\ Fairness

-----------------------------------------------------------------------------
(* Properties.                                                             *)

\* The decision source a finished run must report, stated once for Run and
\* RunStreaming (the audit contract of every tail helper).
Reported(p) ==
    LET k == run[p] IN
    IF k.rule = NoRule
    THEN IF ~LLMOn THEN {"llm_disabled"}
         ELSE {"llm", "error"} \cup (IF ClassifierOn THEN {"llm_classifier"} ELSE {})
    ELSE IF k.evaluate /\ ~k.fromRule /\ LLMOn THEN {"router", "llm"} ELSE {"router"}

\* Audit's "dual-sink": every run logs exactly one line, whose source is the
\* one the decision calls for, whichever tail it took.  The rows say the same:
\* there is no second audit row and none of another source, and a corpus row
\* only when the LLM chose the tools; and none of them is missing unless store
\* calls fail.
OneAuditRow ==
    \A p \in Runs : run[p].pc = "done" =>
        LET mined == IF logged[p][1] \in {"llm", "llm_classifier"} THEN 1 ELSE 0
        IN  /\ Len(logged[p]) = 1
            /\ logged[p][1] \in Reported(p)
            /\ audits[p] \in {<<>>, logged[p]}
            /\ corpus[p] \in {0, mined}
            /\ ~setup.fails => audits[p] = logged[p] /\ corpus[p] = mined

\* "Divergence ALWAYS demotes": a mined rule whose newest comparison diverged
\* is not active without the operator's hand, unless the run that found it out
\* has not come to the table yet.  (Where no store call fails.)
DivergenceDemotes ==
    \A r \in Mined :
        LET n == Len(shadow[r]) IN
        n > 0 /\ ~shadow[r][n] /\ rstate[r] = "active" /\ r \notin manual /\ ~setup.fails =>
            \E p \in Runs : run[p].pc = "judge" /\ run[p].rule = r /\ ~run[p].agreed

\* A mined rule that is active without the operator's hand has earned it:
\* PromoteAfter comparisons in a row agreed.  Reads of the streak, writes of
\* the row and other runs' comparisons interleave freely.
PromotionEarned ==
    \A r \in Mined : rstate[r] = "active" /\ r \notin manual =>
        \E i \in 1..Len(shadow[r]) :
            /\ i + PromoteAfter - 1 <= Len(shadow[r])
            /\ \A j \in i..(i + PromoteAfter - 1) : shadow[r][j]

\* When the table stops changing, and reloads are no longer rejected, the live
\* set becomes the enabled rows (or the seeds if none is enabled), however
\* stale the sets in flight were.
ReloadConverges ==
    (<>[][UNCHANGED tableVars /\ ~\E x \in Reloaders : ReloadRejected(x)]_vars) =>
        <>[](\A r \in RuleNames :
                (live[r] # "absent") = IF \E q \in RuleNames : enabled[q] THEN enabled[r]
                                       ELSE r \in Seeds)
=============================================================================
