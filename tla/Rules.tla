-------------------------------- MODULE Rules --------------------------------
(***************************************************************************)
(* Who writes the rules table and what the live router makes of it: the    *)
(* gated /addrule, /register_rules and /reload_rules (internal/app), the   *)
(* offline import (internal/cli/importrules.go), the miner (internal/      *)
(* miner), the engine that promotes and demotes the miner's rules          *)
(* (internal/engine), the operator's own edits, the reconciliation of the  *)
(* compiled-in rules at boot (internal/router/reconcile.go) and the hot    *)
(* reload (rulesstore.go).                                                 *)
(*                                                                         *)
(* A definition stands for pattern, tool and arguments together.  The wait *)
(* for a human is a choice between yes and no here (Approvals specifies    *)
(* it), parsing comes before everything and a text that does not parse     *)
(* changes nothing.  What a rule earns in shadow is Engine's subject: here *)
(* a comparison may end either way.                                        *)
(***************************************************************************)
EXTENDS Naturals, Sequences, FiniteSets

CONSTANTS
    Seeds,       \* names of the compiled-in rules
    Added,       \* names used by /addrule and imports
    MinedNames,  \* mined_1, mined_2, ...
    SeedDef,     \* the definition of the compiled-in rules
    Defs,        \* definitions
    BadDefs,     \* those that compileAll rejects
    Eligible,    \* patterns of the clusters that the miner would propose
    NoDef,       \* there is no such rule
    Jobs,        \* gated commands and imports
    KindOf,      \* "gate" or "import"
    SpecsOf,     \* the rules of each job: a sequence of [name, def]
    MaxEdits,    \* bound on the operator's edits
    MaxFaults    \* bound on failed store calls and restarts

Names == Seeds \cup Added \cup {MinedNames[i] : i \in 1..Len(MinedNames)}

ASSUME NamesAssumption == NoDef \notin Defs /\ SeedDef \in Defs \ BadDefs /\ Seeds # {}
ASSUME DefsAssumption == BadDefs \subseteq Defs /\ Eligible \subseteq Defs \ BadDefs
ASSUME JobsAssumption ==
    /\ NoDef \notin Jobs
    /\ KindOf \in [Jobs -> {"gate", "import"}]
    /\ \A j \in Jobs : SpecsOf[j] \in Seq([name : Names, def : Defs \ BadDefs])
ASSUME BoundsAssumption == MaxEdits \in Nat /\ MaxFaults \in Nat

VARIABLES
    table,     \* the rules table: [def, origin, on] of each name
    live,      \* Router.rules: the definition of each name
    up,        \* the daemon runs
    tick,      \* what the hot reload has read, NoDef everywhere if nothing
    job,       \* [pc, next, seen] of each job
    mining,    \* the proposal of the miner's pass: [pc, def, name]
    comparing, \* mined rules that runs of the engine are comparing with the LLM
    writer,    \* history: the job that wrote the row of each name last
    disabled,  \* history: rules the operator disabled, and no human enabled since
    chosen,    \* history: the definition that a human gave each name last
    edits,     \* edits so far
    faults     \* failed store calls and restarts so far

humanVars == <<writer, disabled, chosen>>
rowVars == <<table, humanVars>>
daemonVars == <<live, up, tick, comparing>>
vars == <<rowVars, daemonVars, job, mining, edits, faults>>

NoRow == [def |-> NoDef, origin |-> "none", on |-> FALSE]
NoRules == [n \in Names |-> NoDef]
Resting == [pc |-> "idle", def |-> NoDef, name |-> NoDef]

\* Nobody: the writer of a row that no job has written.
Nobody == NoDef

Row(d, origin) == [def |-> d, origin |-> origin, on |-> TRUE]

TypeOK ==
    /\ table \in [Names -> [def : Defs \cup {NoDef}, origin : {"none", "seed", "manual", "mined"},
                            on : BOOLEAN]]
    /\ live \in [Names -> Defs \cup {NoDef}]
    /\ up \in BOOLEAN
    /\ tick \in [Names -> Defs \cup {NoDef}]
    /\ \A j \in Jobs :
        /\ job[j].pc \in {"idle", "waiting", "writing", "swap", "ok", "failed", "no"}
        /\ job[j].next \in 1..(Len(SpecsOf[j]) + 1)
        /\ job[j].seen \in [Names -> Defs \cup {NoDef}]
    /\ mining.pc \in {"idle", "name", "insert"}
    /\ comparing \subseteq Names
    /\ writer \in [Names -> Jobs \cup {Nobody}]
    /\ disabled \subseteq Names
    /\ chosen \in [Names -> Defs \cup {NoDef}]
    /\ edits \in 0..MaxEdits /\ faults \in 0..MaxFaults

\* The table and the router after a first boot.
Init ==
    /\ table = [n \in Names |-> IF n \in Seeds THEN Row(SeedDef, "seed") ELSE NoRow]
    /\ live = [n \in Names |-> IF n \in Seeds THEN SeedDef ELSE NoDef]
    /\ up = TRUE
    /\ tick = NoRules
    /\ job = [j \in Jobs |-> [pc |-> "idle", next |-> 1, seen |-> NoRules]]
    /\ mining = Resting
    /\ comparing = {}
    /\ writer = [n \in Names |-> Nobody]
    /\ disabled = {}
    /\ chosen = NoRules
    /\ edits = 0 /\ faults = 0

Fault == faults < MaxFaults /\ faults' = faults + 1

-----------------------------------------------------------------------------
(* The table and the router.                                               *)

SomeEnabled == \E n \in Names : table[n].on

\* Mutant: LoadRules forgets WHERE enabled=1.
LoadRulesAll == [n \in Names |-> table[n].def]

\* What LoadRules returns: the enabled rows, or the compiled-in rules if no
\* row is enabled.
LoadRules ==
    IF SomeEnabled
    THEN [n \in Names |-> IF table[n].on THEN table[n].def ELSE NoDef]
    ELSE [n \in Names |-> IF n \in Seeds THEN SeedDef ELSE NoDef]

\* seedRules writes the missing ones, if no row is enabled.
SeedRules ==
    table' = [n \in Names |->
                IF ~SomeEnabled /\ n \in Seeds /\ table[n] = NoRow
                THEN Row(SeedDef, "seed") ELSE table[n]]

\* compileAll accepts a rule set as a whole or not at all.
Compiles(rules) == \A n \in Names : rules[n] \notin BadDefs

\* ON CONFLICT(name) DO UPDATE keeps the origin (and the state) of the row.
Upsert(n, d) ==
    IF table[n] = NoRow THEN Row(d, "manual") ELSE [table[n] EXCEPT !.def = d, !.on = TRUE]

-----------------------------------------------------------------------------
(* Gated commands and the import.                                          *)

Goto(j, pc) == job' = [job EXCEPT ![j].pc = pc]

\* Does the router that this job swaps belong to the daemon?
Daemons(j) == KindOf[j] # "import"

\* Handle: the request.  The diff that a reload shows is not kept, and decides
\* nothing.
Request(j) ==
    /\ job[j].pc = "idle"
    /\ up /\ Daemons(j)
    /\ Goto(j, "waiting")
    /\ UNCHANGED <<rowVars, daemonVars, mining, edits, faults>>

\* importRulesCmd asks nobody, and begins by building a router of the rules
\* there are: it writes nothing where these do not compile.
ImportBegins(j) ==
    /\ job[j].pc = "idle" /\ ~Daemons(j)
    /\ \/ SeedRules /\ Goto(j, IF Compiles(LoadRules) THEN "writing" ELSE "failed")
          /\ UNCHANGED faults
       \/ Fault /\ Goto(j, "failed") /\ UNCHANGED table
    /\ UNCHANGED <<humanVars, daemonVars, mining, edits>>

\* RunGated: the human approves, or does not.
Decide(j) ==
    /\ up /\ job[j].pc = "waiting"
    /\ Goto(j, "writing") \/ Goto(j, "no")
    /\ UNCHANGED <<rowVars, daemonVars, mining, edits, faults>>

\* Run: the next rule is written, each with a statement of its own.  An error
\* ends the job and leaves the rules before it in the table.
WriteRule(j) ==
    LET s == SpecsOf[j][job[j].next] IN
    /\ job[j].pc = "writing" /\ job[j].next <= Len(SpecsOf[j])
    /\ \/ /\ table' = [table EXCEPT ![s.name] = Upsert(s.name, s.def)]
          /\ writer' = [writer EXCEPT ![s.name] = j]
          /\ disabled' = disabled \ {s.name}
          /\ chosen' = [chosen EXCEPT ![s.name] = s.def]
          /\ job' = [job EXCEPT ![j].next = @ + 1]
          /\ UNCHANGED faults
       \/ Fault /\ Goto(j, "failed") /\ UNCHANGED rowVars
    /\ UNCHANGED <<daemonVars, mining, edits>>

\* Run: the table is read again.
LoadForSwap(j) ==
    /\ job[j].pc = "writing" /\ job[j].next > Len(SpecsOf[j])
    /\ \/ job' = [job EXCEPT ![j].pc = "swap", ![j].seen = LoadRules]
          /\ SeedRules /\ UNCHANGED faults
       \/ Fault /\ Goto(j, "failed") /\ UNCHANGED table
    /\ UNCHANGED <<humanVars, daemonVars, mining, edits>>

\* Run: Swap.  The import swaps a router of its own.
SwapRules(j) ==
    /\ job[j].pc = "swap"
    /\ job' = [job EXCEPT ![j].pc = IF Compiles(job[j].seen) THEN "ok" ELSE "failed",
                          ![j].seen = NoRules]
    /\ live' = IF Daemons(j) /\ Compiles(job[j].seen) THEN job[j].seen ELSE live
    /\ UNCHANGED <<rowVars, up, tick, comparing, mining, edits, faults>>

-----------------------------------------------------------------------------
(* The hot reload, the miner, the engine and the operator.                 *)

\* StartHotReload's tick reads the table ...
ReloadRead ==
    /\ up /\ tick = NoRules
    /\ tick' = LoadRules
    /\ SeedRules
    /\ UNCHANGED <<humanVars, live, up, comparing, job, mining, edits, faults>>

\* Mutant: the first tick is the last one.
ReloadSwapNever == FALSE /\ UNCHANGED vars

\* ... and swaps what it has read, however old that is by now.
ReloadSwap ==
    /\ up /\ tick # NoRules
    /\ live' = IF Compiles(tick) THEN tick ELSE live
    /\ tick' = NoRules
    /\ UNCHANGED <<rowVars, up, comparing, job, mining, edits, faults>>

\* Mutant: the miner does not look whether the pattern is there.
KnownNever(d) == FALSE

\* SELECT COUNT(*) FROM rules WHERE pattern = ?
Known(d) == \E n \in Names : table[n].def = d

\* Mine: a cluster whose pattern no row has.
MinePropose(d) ==
    /\ up /\ mining.pc = "idle"
    /\ ~Known(d)
    /\ mining' = [pc |-> "name", def |-> d, name |-> NoDef]
    /\ UNCHANGED <<rowVars, daemonVars, job, edits, faults>>

\* NextMinedName: the first free name after the number of mined rows.
NextMinedName ==
    LET n == Cardinality({m \in Names : table[m].origin = "mined"})
        free == {i \in (n + 1)..Len(MinedNames) : table[MinedNames[i]] = NoRow}
    IN  IF free = {} THEN NoDef ELSE MinedNames[CHOOSE i \in free : \A k \in free : i <= k]

MineName ==
    /\ up /\ mining.pc = "name"
    /\ NextMinedName # NoDef
    /\ mining' = [mining EXCEPT !.pc = "insert", !.name = NextMinedName]
    /\ UNCHANGED <<rowVars, daemonVars, job, edits, faults>>

\* The INSERT, which the primary key refuses if the name has been taken.
MineInsert ==
    /\ up /\ mining.pc = "insert"
    /\ table' = IF table[mining.name] = NoRow
                THEN [table EXCEPT ![mining.name] = Row(mining.def, "mined")] ELSE table
    /\ mining' = Resting
    /\ UNCHANGED <<humanVars, daemonVars, job, edits, faults>>

\* A prompt is routed to a live mined rule, and the run compares the rule with
\* the LLM.
EngineRoutes(n) ==
    /\ up
    /\ live[n] # NoDef /\ table[n].origin = "mined"
    /\ comparing' = comparing \cup {n}
    /\ UNCHANGED <<rowVars, live, up, tick, job, mining, edits, faults>>

\* evaluateLifecycle, later: the row is demoted, or promoted, whatever has
\* become of it meanwhile, or it stays as it is.  Other runs may be comparing
\* the same rule.
EngineJudges(n) ==
    /\ up /\ n \in comparing
    /\ (\E on \in BOOLEAN : table' = [table EXCEPT ![n].on = on]) \/ UNCHANGED table
    /\ comparing' \in {comparing, comparing \ {n}}
    /\ UNCHANGED <<humanVars, live, up, tick, job, mining, edits, faults>>

\* The operator disables a rule, enables it, or edits its definition.
OperatorEdits(n) ==
    /\ edits < MaxEdits /\ edits' = edits + 1
    /\ table[n] # NoRow
    /\ \/ /\ table' = [table EXCEPT ![n].on = FALSE] /\ disabled' = disabled \cup {n}
          /\ UNCHANGED chosen
       \/ /\ table' = [table EXCEPT ![n].on = TRUE] /\ disabled' = disabled \ {n}
          /\ UNCHANGED chosen
       \/ \E d \in Defs :
            /\ table' = [table EXCEPT ![n].def = d] /\ chosen' = [chosen EXCEPT ![n] = d]
            /\ UNCHANGED disabled
    /\ writer' = [writer EXCEPT ![n] = Nobody]
    /\ UNCHANGED <<daemonVars, job, mining, faults>>

-----------------------------------------------------------------------------
(* Restarts.                                                               *)

\* The daemon ends, with the commands it was running.
Stop ==
    /\ Fault
    /\ up /\ up' = FALSE
    /\ live' = NoRules /\ tick' = NoRules
    /\ mining' = Resting /\ comparing' = {}
    /\ job' = [j \in Jobs |->
                IF Daemons(j) /\ job[j].pc \in {"waiting", "writing", "swap"}
                THEN [job[j] EXCEPT !.pc = "failed", !.seen = NoRules] ELSE job[j]]
    /\ UNCHANGED <<rowVars, edits>>

\* Mutant: INSERT OR REPLACE instead of INSERT OR IGNORE.
ReconciledReplace == [n \in Names |-> IF n \in Seeds THEN Row(SeedDef, "seed") ELSE table[n]]

\* ReconcileSeeded: compiled-in rules that have no row get one, and no row is
\* changed.
Reconciled ==
    [n \in Names |-> IF n \in Seeds /\ table[n] = NoRow THEN Row(SeedDef, "seed") ELSE table[n]]

\* Build: reconcile, then LoadRules and router.New, which fails on a rule
\* that does not compile: then the daemon does not start.
Boot ==
    /\ ~up
    /\ table' = Reconciled
    /\ LET rules == IF \E n \in Names : Reconciled[n].on
                    THEN [n \in Names |-> IF Reconciled[n].on THEN Reconciled[n].def ELSE NoDef]
                    ELSE [n \in Names |-> IF n \in Seeds THEN SeedDef ELSE NoDef]
       IN  /\ up' = Compiles(rules)
           /\ live' = IF Compiles(rules) THEN rules ELSE NoRules
    /\ UNCHANGED <<humanVars, tick, comparing, job, mining, edits, faults>>

-----------------------------------------------------------------------------
JobStep(j) ==
    \/ Request(j) \/ ImportBegins(j) \/ Decide(j)
    \/ WriteRule(j) \/ LoadForSwap(j) \/ SwapRules(j)

Next ==
    \/ \E j \in Jobs : JobStep(j)
    \/ ReloadRead \/ ReloadSwap
    \/ (\E d \in Eligible : MinePropose(d)) \/ MineName \/ MineInsert
    \/ \E n \in Names : EngineRoutes(n) \/ EngineJudges(n) \/ OperatorEdits(n)
    \/ Stop \/ Boot

Spec == Init /\ [][Next]_vars

\* The reload ticks as long as the daemon runs, and the supervisor starts it
\* again.  Nobody need use it.
FairSpec == Spec /\ WF_vars(ReloadRead) /\ WF_vars(ReloadSwap) /\ WF_vars(Boot)

-----------------------------------------------------------------------------
(* Properties.                                                             *)

\* A running daemon routes by rules that compile, and by at least one: a bad
\* row set keeps the previous rules, an empty one falls back to the seeds.
LiveCompiles == up => live # NoRules /\ \A n \in Names : live[n] \notin BadDefs

\* "operator decisions win", in the table: a rule that a human replaced keeps
\* that definition, and one that the operator disabled stays disabled, through
\* reconciliations, reseeding, the miner, the engine and restarts, until a human
\* writes the row again.  The miner's rules are excepted: the engine's promotion
\* enables the row, whoever disabled it.
OperatorDecisionStands ==
    /\ \A n \in disabled : table[n].origin # "mined" => ~table[n].on
    /\ \A n \in Names : chosen[n] # NoDef => table[n].def = chosen[n]

\* Somebody may still route by this rule or write it from what was read before:
\* the router, a reload or a job that has read the table, a run that compares.
Held(n) ==
    \/ live[n] # NoDef \/ tick[n] # NoDef \/ n \in comparing
    \/ \E j \in Jobs : job[j].seen[n] # NoDef

Dropped(n) == ~table[n].on /\ ~Held(n)

\* The same for what is routed: once a rule that the operator disabled, mined or
\* not, has left the router and everything that was read before, nobody brings
\* it back, in the table or in the router, until a human enables it.  (The
\* compiled-in rules return where no row is enabled: that is the fallback.)
DroppedStaysOut ==
    [][\A n \in disabled \cap disabled' :
          Dropped(n) => Dropped(n)' \/ (n \in Seeds /\ ~SomeEnabled)]_vars

\* "never inserts duplicates (same pattern => skip)": no two mined rules have
\* one pattern, as long as the operator edits no definition and one miner runs.
NoDuplicateMined ==
    \A m, n \in Names :
        (m # n /\ table[m].origin = "mined" /\ table[n].origin = "mined" /\ edits = 0
         /\ writer[m] = Nobody /\ writer[n] = Nobody)
        => table[m].def # table[n].def

\* "registered & live", "daemon hot-reload applies them": the rules of a job
\* that reported success are live in the end, whatever a reload that was
\* under way swapped in, unless somebody has written them since, the engine
\* judges them (they have taken the name of a mined rule), the table does not
\* compile or the daemon cannot run.
ReportedRulesGoLive ==
    \A j \in Jobs :
        job[j].pc = "ok" ~>
            \/ \A i \in 1..Len(SpecsOf[j]) :
                LET s == SpecsOf[j][i] IN
                writer[s.name] = j /\ table[s.name].origin # "mined" => live[s.name] = s.def \/ \E k \in 1..Len(SpecsOf[j]) :
                    k > i /\ SpecsOf[j][k].name = s.name
            \/ ~Compiles(LoadRules)

\* "one atomic batch": a job that failed before its last rule was written has
\* left none of its rules.  The code does not keep it: each rule is a statement
\* of its own, and an error or a stop leaves the rules before it in the table.
BatchesAreAtomic ==
    \A j \in Jobs : job[j].pc = "failed" /\ job[j].next <= Len(SpecsOf[j]) =>
        \A n \in Names : writer[n] # j
=============================================================================
