------------------------------ MODULE RulesProofs ------------------------------
(***************************************************************************)
(* Proofs about the rules table and the live router, for any names,        *)
(* definitions, jobs, edits and faults: type correctness, the operator's   *)
(* decisions stand in the table and in the router, the miner proposes no   *)
(* pattern twice and a running daemon routes by rules that compile.        *)
(***************************************************************************)
EXTENDS Rules, TLAPS

-----------------------------------------------------------------------------
(* The inductive invariant.                                                *)

RuleSets == [Names -> Defs \cup {NoDef}]
RowType == [def : Defs \cup {NoDef}, origin : {"none", "seed", "manual", "mined"}, on : BOOLEAN]
PCs == {"idle", "waiting", "writing", "swap", "ok", "failed", "no"}

\* A row of the miner's that nobody has written since.
Mined(n) == table[n].origin = "mined" /\ writer[n] = Nobody

\* The table has whole rows, and one for each name that the operator disabled
\* and each that a human wrote; what the engine compares is a mined row.
TableInv ==
    /\ table \in [Names -> RowType]
    /\ \A n \in Names : table[n] # NoRow => table[n].def \in Defs /\ table[n].origin # "none"
    /\ writer \in [Names -> Jobs \cup {Nobody}]
    /\ disabled \subseteq Names
    /\ chosen \in [Names -> Defs \cup {NoDef}]
    /\ comparing \subseteq Names
    /\ \A n \in disabled : table[n] # NoRow
    /\ \A n \in Names : chosen[n] # NoDef => table[n] # NoRow
    /\ \A n \in comparing : table[n].origin = "mined"
    /\ OperatorDecisionStands

\* What the miner is about to insert is new to its own rows, although the
\* table is free to change between its query and its INSERT.
MinerInv ==
    /\ mining.pc \in {"idle", "name", "insert"}
    /\ mining = [pc |-> mining.pc, def |-> mining.def, name |-> mining.name]
    /\ mining.pc # "idle" => mining.def \in Defs
    /\ edits \in 0..MaxEdits
    /\ edits = 0 /\ mining.pc # "idle" =>
          \A n \in Names : Mined(n) => table[n].def # mining.def
    /\ NoDuplicateMined

\* A rule set that waits to be swapped in is never empty.
JobInv ==
    /\ job \in [Jobs -> [pc : PCs, next : Nat, seen : RuleSets]]
    /\ \A j \in Jobs : /\ job[j].next \in 1..(Len(SpecsOf[j]) + 1)
                       /\ job[j].pc = "swap" => job[j].seen # NoRules

RouterInv ==
    /\ live \in RuleSets /\ tick \in RuleSets /\ up \in BOOLEAN
    /\ LiveCompiles

IInv == TableInv /\ MinerInv /\ JobInv /\ RouterInv /\ faults \in 0..MaxFaults

-----------------------------------------------------------------------------
(* Facts about rows and rule sets.                                         *)

\* What a name's specification holds.
LEMMA SpecFacts ==
  ASSUME JobInv, NEW j \in Jobs, job[j].next <= Len(SpecsOf[j])
  PROVE  /\ SpecsOf[j][job[j].next].name \in Names
         /\ SpecsOf[j][job[j].next].def \in Defs
         /\ job[j].next + 1 \in 1..(Len(SpecsOf[j]) + 1)
<1>. DEFINE S == [name : Names, def : Defs \ BadDefs]
            n == Len(SpecsOf[j])
            k == job[j].next
<1>1. SpecsOf[j] \in Seq(S)
  BY JobsAssumption
<1>2. n \in Nat
  BY <1>1
<1>3. k \in 1..(n + 1) /\ k <= n
  BY DEF JobInv
<1>. HIDE DEF n, k
<1>4. k \in 1..n /\ k + 1 \in 1..(n + 1)
  BY <1>2, <1>3
<1>. HIDE DEF S
<1>5. SpecsOf[j][k] \in S
  BY <1>1, <1>4 DEF n
<1>. QED
  BY <1>4, <1>5 DEF n, k, S

\* A row is not the absence of one.
LEMMA RowFacts ==
  ASSUME NEW d \in Defs, NEW o \in {"seed", "manual", "mined"}
  PROVE  /\ Row(d, o) \in RowType /\ Row(d, o) # NoRow
         /\ Row(d, o).def = d /\ Row(d, o).origin = o /\ Row(d, o).on
BY DEF Row, NoRow, RowType

\* What ReadRules and the boot make of a table: some rule is in it.
LEMMA RulesOfTable ==
  ASSUME NEW t \in [Names -> RowType],
         \A n \in Names : t[n] # NoRow => t[n].def \in Defs /\ t[n].origin # "none"
  PROVE  LET rules == IF \E n \in Names : t[n].on
                      THEN [n \in Names |-> IF t[n].on THEN t[n].def ELSE NoDef]
                      ELSE [n \in Names |-> IF n \in Seeds THEN SeedDef ELSE NoDef]
         IN  rules \in RuleSets /\ rules # NoRules
<1>1. \A n \in Names : t[n].on => t[n].def \in Defs
  BY DEF NoRow
<1>2. SeedDef \in Defs /\ NoDef \notin Defs
  BY NamesAssumption
<1>3. ASSUME NEW n \in Names, t[n].on
      PROVE  [m \in Names |-> IF t[m].on THEN t[m].def ELSE NoDef] \in RuleSets \ {NoRules}
  <2>. DEFINE rules == [m \in Names |-> IF t[m].on THEN t[m].def ELSE NoDef]
  <2>1. rules \in RuleSets
    BY <1>1 DEF RuleSets
  <2>2. rules[n] \in Defs
    BY <1>1, <1>3
  <2>3. rules # NoRules
    BY <1>2, <2>2 DEF NoRules
  <2>. QED
    BY <2>1, <2>3
<1>4. [m \in Names |-> IF m \in Seeds THEN SeedDef ELSE NoDef] \in RuleSets \ {NoRules}
  <2>. DEFINE rules == [m \in Names |-> IF m \in Seeds THEN SeedDef ELSE NoDef]
  <2>1. rules \in RuleSets
    BY <1>2 DEF RuleSets
  <2>2. PICK n \in Names : n \in Seeds
    BY NamesAssumption DEF Names
  <2>3. rules[n] \in Defs
    BY <1>2, <2>2
  <2>4. rules # NoRules
    BY <1>2, <2>3 DEF NoRules
  <2>. QED
    BY <2>1, <2>4
<1>. QED
  BY <1>3, <1>4

\* LoadRules returns a rule set that is not empty.
LEMMA LoadFacts ==
  ASSUME TableInv
  PROVE  LoadRules \in RuleSets /\ LoadRules # NoRules
<1>1. /\ table \in [Names -> RowType]
      /\ \A n \in Names : table[n] # NoRow => table[n].def \in Defs /\ table[n].origin # "none"
  BY DEF TableInv
<1>. QED
  BY <1>1, RulesOfTable DEF LoadRules, SomeEnabled

\* A step that writes compiled-in rules where no row is keeps the table's part
\* of the invariant, and the miner's rows are as they were.
LEMMA SeedingStays ==
  ASSUME TableInv, UNCHANGED <<writer, disabled, chosen, comparing>>,
         table' \in [Names -> RowType],
         \A n \in Names : \/ table'[n] = table[n]
                          \/ table[n] = NoRow /\ table'[n] = Row(SeedDef, "seed")
  PROVE  /\ TableInv'
         /\ \A n \in Names : Mined(n)' => Mined(n) /\ table'[n].def = table[n].def
<1>1. /\ Row(SeedDef, "seed") # NoRow /\ Row(SeedDef, "seed").def \in Defs
      /\ Row(SeedDef, "seed").origin = "seed"
  BY NamesAssumption, RowFacts
<1>2. \A n \in Names : table'[n] # NoRow => table'[n].def \in Defs /\ table'[n].origin # "none"
  BY <1>1 DEF TableInv
<1>3. /\ \A n \in disabled : /\ table'[n] = table[n] /\ table[n] # NoRow
                              /\ table[n].origin # "mined" => ~table[n].on
      /\ \A n \in Names : chosen[n] # NoDef =>
            table'[n] = table[n] /\ table[n] # NoRow /\ table[n].def = chosen[n]
      /\ \A n \in comparing : table'[n] = table[n] /\ table[n].origin = "mined"
  BY DEF TableInv, OperatorDecisionStands, NoRow
<1>4. TableInv'
  BY <1>2, <1>3 DEF TableInv, OperatorDecisionStands
<1>5. ASSUME NEW n \in Names, Mined(n)'
      PROVE  Mined(n) /\ table'[n].def = table[n].def
  BY <1>1, <1>5 DEF Mined, Nobody
<1>. QED
  BY <1>4, <1>5

\* Seeding by LoadRules is such a step.
LEMMA SeedRulesFacts ==
  ASSUME TableInv, SeedRules
  PROVE  /\ table' \in [Names -> RowType]
         /\ \A n \in Names : \/ table'[n] = table[n]
                             \/ table[n] = NoRow /\ table'[n] = Row(SeedDef, "seed")
<1>1. Row(SeedDef, "seed") \in RowType
  BY NamesAssumption, RowFacts
<1>. QED
  BY <1>1 DEF TableInv, SeedRules

\* The miner's part stays true when none of its rows is new or redefined.
LEMMA MinerStays ==
  ASSUME MinerInv,
         UNCHANGED edits,
         UNCHANGED mining \/ mining' = Resting,
         \A n \in Names : Mined(n)' => Mined(n) /\ table'[n].def = table[n].def
  PROVE  MinerInv'
<1>1. NoDuplicateMined'
  <2>. SUFFICES ASSUME NEW m \in Names, NEW n \in Names, m # n,
                       table'[m].origin = "mined", table'[n].origin = "mined", edits' = 0,
                       writer'[m] = Nobody, writer'[n] = Nobody
                PROVE  table'[m].def # table'[n].def
    BY DEF NoDuplicateMined, Nobody
  <2>1. Mined(m)' /\ Mined(n)'
    BY DEF Mined, Nobody
  <2>2. /\ Mined(m) /\ table'[m].def = table[m].def
        /\ Mined(n) /\ table'[n].def = table[n].def
    BY <2>1
  <2>. QED
    BY <2>2 DEF MinerInv, NoDuplicateMined, Mined
<1>2. CASE UNCHANGED mining
  BY <1>1, <1>2 DEF MinerInv
<1>3. CASE mining' = Resting
  BY <1>1, <1>3 DEF MinerInv, Resting
<1>. QED
  BY <1>2, <1>3

-----------------------------------------------------------------------------
(* Each step keeps the invariant.                                          *)

\* A gated command or an import begins, and the human decides.
LEMMA GateStep ==
  ASSUME IInv, NEW j \in Jobs, Request(j) \/ Decide(j)
  PROVE  IInv'
<1>1. TableInv /\ MinerInv /\ JobInv /\ RouterInv /\ faults \in 0..MaxFaults
  BY DEF IInv
<1>2. /\ UNCHANGED <<table, writer, disabled, chosen, live, up, tick, comparing, mining, edits, faults>>
      /\ \E pc \in {"waiting", "writing", "no"} : job' = [job EXCEPT ![j].pc = pc]
  BY DEF Request, Decide, Goto, rowVars, humanVars, daemonVars
<1>3. TableInv' /\ MinerInv' /\ RouterInv'
  BY <1>1, <1>2 DEF TableInv, OperatorDecisionStands, MinerInv, Mined, NoDuplicateMined, Nobody,
                    RouterInv, LiveCompiles
<1>4. JobInv'
  BY <1>1, <1>2 DEF JobInv, PCs
<1>. QED
  BY <1>1, <1>2, <1>3, <1>4 DEF IInv

\* An import begins: it reads the rules there are, which may seed them.
LEMMA ImportStep ==
  ASSUME IInv, NEW j \in Jobs, ImportBegins(j)
  PROVE  IInv'
<1>1. TableInv /\ MinerInv /\ JobInv /\ RouterInv /\ faults \in 0..MaxFaults
  BY DEF IInv
<1>2. /\ UNCHANGED <<writer, disabled, chosen, live, up, tick, comparing, mining, edits>>
      /\ \E pc \in {"writing", "failed"} : job' = [job EXCEPT ![j].pc = pc]
      /\ SeedRules \/ UNCHANGED table
      /\ UNCHANGED faults \/ (faults < MaxFaults /\ faults' = faults + 1)
  BY DEF ImportBegins, Goto, Fault, humanVars, daemonVars
<1>3. TableInv' /\ MinerInv'
  <2>1. CASE SeedRules
    BY <1>1, <1>2, <2>1, SeedRulesFacts, SeedingStays, MinerStays
  <2>2. CASE UNCHANGED table
    BY <1>1, <1>2, <2>2 DEF TableInv, OperatorDecisionStands, MinerInv, Mined, NoDuplicateMined, Nobody
  <2>. QED
    BY <1>2, <2>1, <2>2
<1>4. RouterInv'
  BY <1>1, <1>2 DEF RouterInv, LiveCompiles
<1>5. JobInv'
  BY <1>1, <1>2 DEF JobInv, PCs
<1>6. faults' \in 0..MaxFaults
  BY <1>1, <1>2, BoundsAssumption
<1>. QED
  BY <1>3, <1>4, <1>5, <1>6 DEF IInv

\* A job writes a rule: the row is the job's from now on, and approved.
LEMMA WriteStep ==
  ASSUME IInv, NEW j \in Jobs, WriteRule(j)
  PROVE  IInv'
<1>. DEFINE s == SpecsOf[j][job[j].next]
<1>1. TableInv /\ MinerInv /\ JobInv /\ RouterInv /\ faults \in 0..MaxFaults
  BY DEF IInv
<1>2. /\ UNCHANGED <<live, up, tick, comparing, mining, edits>>
      /\ job[j].pc = "writing" /\ job[j].next <= Len(SpecsOf[j])
  BY DEF WriteRule, daemonVars
<1>3. s.name \in Names /\ s.def \in Defs /\ job[j].next + 1 \in 1..(Len(SpecsOf[j]) + 1)
  BY <1>1, <1>2, SpecFacts
<1>4. RouterInv'
  BY <1>1, <1>2 DEF RouterInv, LiveCompiles
<1>5. CASE /\ table' = [table EXCEPT ![s.name] = Upsert(s.name, s.def)]
           /\ writer' = [writer EXCEPT ![s.name] = j]
           /\ disabled' = disabled \ {s.name}
           /\ chosen' = [chosen EXCEPT ![s.name] = s.def]
           /\ job' = [job EXCEPT ![j].next = @ + 1]
           /\ UNCHANGED faults
  <2>. DEFINE new == Upsert(s.name, s.def)
  <2>. HIDE DEF s
  <2>1. /\ new \in RowType /\ new # NoRow /\ new.def = s.def /\ new.def \in Defs
        /\ new.origin # "none" /\ (table[s.name].origin = "mined" => new.origin = "mined")
    <3>1. CASE table[s.name] = NoRow
      BY <1>3, <3>1, RowFacts DEF Upsert, NoRow
    <3>2. CASE table[s.name] # NoRow
      <4>1. table[s.name] \in RowType /\ table[s.name].origin # "none"
        BY <1>1, <1>3, <3>2 DEF TableInv
      <4>2. new = [table[s.name] EXCEPT !.def = s.def, !.on = TRUE]
        BY <3>2 DEF Upsert
      <4>. HIDE DEF new
      <4>3. /\ new \in RowType /\ new.def = s.def /\ new.def \in Defs
            /\ new.origin = table[s.name].origin /\ new.origin # "none"
        BY <1>3, <4>1, <4>2 DEF RowType
      <4>. QED
        BY <4>3 DEF NoRow
    <3>. QED
      BY <3>1, <3>2
  <2>. HIDE DEF new
  <2>2. /\ table' \in [Names -> RowType] /\ table'[s.name] = new
        /\ \A n \in Names : n # s.name => table'[n] = table[n]
    BY <1>1, <1>3, <1>5, <2>1 DEF TableInv, new
  <2>3. /\ writer' \in [Names -> Jobs \cup {Nobody}] /\ writer'[s.name] = j /\ j # Nobody
        /\ \A n \in Names : n # s.name => writer'[n] = writer[n]
    BY <1>1, <1>3, <1>5, JobsAssumption DEF TableInv, Nobody
  <2>4. TableInv'
    <3>1. disabled' \subseteq Names /\ \A n \in disabled' : n \in disabled /\ n \in Names /\ n # s.name
      BY <1>1, <1>5 DEF TableInv
    <3>2. \A n \in disabled' : table'[n] # NoRow /\ (table'[n].origin # "mined" => ~table'[n].on)
      BY <1>1, <2>2, <3>1 DEF TableInv, OperatorDecisionStands
    <3>3. \A n \in Names : table'[n] # NoRow => table'[n].def \in Defs /\ table'[n].origin # "none"
      BY <1>1, <2>1, <2>2 DEF TableInv
    <3>4. /\ chosen' \in [Names -> Defs \cup {NoDef}] /\ chosen'[s.name] = s.def
          /\ \A n \in Names : n # s.name => chosen'[n] = chosen[n]
      BY <1>1, <1>3, <1>5 DEF TableInv
    <3>5. \A n \in Names : chosen'[n] # NoDef => table'[n] # NoRow /\ table'[n].def = chosen'[n]
      BY <1>1, <2>1, <2>2, <3>4 DEF TableInv, OperatorDecisionStands
    <3>6. comparing' \subseteq Names /\ \A n \in comparing' : table'[n].origin = "mined"
      BY <1>1, <1>2, <2>1, <2>2 DEF TableInv
    <3>. QED
      BY <2>2, <2>3, <3>1, <3>2, <3>3, <3>4, <3>5, <3>6 DEF TableInv, OperatorDecisionStands
  <2>5. ASSUME NEW n \in Names, Mined(n)'
        PROVE  Mined(n) /\ table'[n].def = table[n].def
    <3>1. n # s.name
      BY <2>3, <2>5 DEF Mined, Nobody
    <3>. QED
      BY <2>2, <2>3, <2>5, <3>1 DEF Mined, Nobody
  <2>6. MinerInv'
    BY <1>1, <1>2, <2>5, MinerStays
  <2>7. JobInv'
    <3>1. job[j].next + 1 \in Nat
      BY <1>1 DEF JobInv
    <3>2. /\ job' \in [Jobs -> [pc : PCs, next : Nat, seen : RuleSets]]
          /\ \A k \in Jobs \ {j} : job'[k] = job[k]
          /\ job'[j].next = job[j].next + 1 /\ job'[j].pc = job[j].pc
      BY <1>1, <1>5, <3>1 DEF JobInv
    <3>. QED
      BY <1>1, <1>2, <1>3, <3>2 DEF JobInv
  <2>. QED
    BY <1>1, <1>4, <1>5, <2>4, <2>6, <2>7 DEF IInv
<1>6. CASE Fault /\ Goto(j, "failed") /\ UNCHANGED rowVars
  <2>1. /\ job' = [job EXCEPT ![j].pc = "failed"] /\ UNCHANGED <<table, writer, disabled, chosen>>
        /\ faults' = faults + 1 /\ faults < MaxFaults
    BY <1>6 DEF Fault, Goto, rowVars, humanVars
  <2>2. TableInv' /\ MinerInv'
    BY <1>1, <1>2, <2>1 DEF TableInv, OperatorDecisionStands, MinerInv, Mined, NoDuplicateMined, Nobody
  <2>3. JobInv'
    BY <1>1, <2>1 DEF JobInv, PCs
  <2>4. faults' \in 0..MaxFaults
    BY <1>1, <2>1, BoundsAssumption
  <2>. QED
    BY <1>4, <2>2, <2>3, <2>4 DEF IInv
<1>. QED
  BY <1>5, <1>6 DEF WriteRule

\* A job reads the table again, which may seed it, and swaps what it has read.
LEMMA SwapStep ==
  ASSUME IInv, NEW j \in Jobs, LoadForSwap(j) \/ SwapRules(j)
  PROVE  IInv'
<1>1. TableInv /\ MinerInv /\ JobInv /\ RouterInv /\ faults \in 0..MaxFaults
  BY DEF IInv
<1>2. CASE LoadForSwap(j)
  <2>1. UNCHANGED <<writer, disabled, chosen, live, up, tick, comparing, mining, edits>>
    BY <1>2 DEF LoadForSwap, humanVars, daemonVars
  <2>2. RouterInv'
    BY <1>1, <2>1 DEF RouterInv, LiveCompiles
  <2>3. CASE /\ job' = [job EXCEPT ![j].pc = "swap", ![j].seen = LoadRules]
             /\ SeedRules /\ UNCHANGED faults
    <3>1. LoadRules \in RuleSets /\ LoadRules # NoRules
      BY <1>1, LoadFacts
    <3>2. JobInv'
      <4>1. /\ job' \in [Jobs -> [pc : PCs, next : Nat, seen : RuleSets]]
            /\ \A k \in Jobs \ {j} : job'[k] = job[k]
            /\ job'[j].next = job[j].next /\ job'[j].seen = LoadRules
        BY <1>1, <2>3, <3>1 DEF JobInv, PCs
      <4>2. NoRules' = NoRules
        BY DEF NoRules
      <4>. QED
        BY <1>1, <3>1, <4>1, <4>2 DEF JobInv
    <3>3. TableInv' /\ MinerInv'
      BY <1>1, <2>1, <2>3, SeedRulesFacts, SeedingStays, MinerStays
    <3>. QED
      BY <1>1, <2>2, <2>3, <3>2, <3>3 DEF IInv
  <2>4. CASE Fault /\ Goto(j, "failed") /\ UNCHANGED table
    <3>1. /\ job' = [job EXCEPT ![j].pc = "failed"]
          /\ faults' = faults + 1 /\ faults < MaxFaults
      BY <2>4 DEF Fault, Goto
    <3>2. TableInv' /\ MinerInv'
      BY <1>1, <2>1, <2>4 DEF TableInv, OperatorDecisionStands, MinerInv, Mined, NoDuplicateMined, Nobody
    <3>3. JobInv'
      BY <1>1, <3>1 DEF JobInv, PCs
    <3>4. faults' \in 0..MaxFaults
      BY <1>1, <3>1, BoundsAssumption
    <3>. QED
      BY <2>2, <3>2, <3>3, <3>4 DEF IInv
  <2>. QED
    BY <1>2, <2>3, <2>4 DEF LoadForSwap
<1>3. CASE SwapRules(j)
  <2>1. /\ UNCHANGED <<table, writer, disabled, chosen, up, tick, comparing, mining, edits, faults>>
        /\ job[j].pc = "swap"
        /\ live' = IF Daemons(j) /\ Compiles(job[j].seen) THEN job[j].seen ELSE live
    BY <1>3 DEF SwapRules, rowVars, humanVars
  <2>2. job[j].seen \in RuleSets /\ job[j].seen # NoRules
    BY <1>1, <2>1 DEF JobInv
  <2>3. TableInv' /\ MinerInv'
    BY <1>1, <2>1 DEF TableInv, OperatorDecisionStands, MinerInv, Mined, NoDuplicateMined, Nobody
  <2>4. RouterInv'
    BY <1>1, <2>1, <2>2 DEF RouterInv, LiveCompiles, Compiles
  <2>5. JobInv'
    <3>1. \E pc \in {"ok", "failed"} :
             job' = [job EXCEPT ![j].pc = pc, ![j].seen = NoRules]
      BY <1>3 DEF SwapRules
    <3>2. NoRules \in RuleSets /\ NoRules' = NoRules
      BY DEF NoRules, RuleSets
    <3>3. PICK pc \in {"ok", "failed"} :
             job' = [job EXCEPT ![j].pc = pc, ![j].seen = NoRules]
      BY <3>1
    <3>4. job \in [Jobs -> [pc : PCs, next : Nat, seen : RuleSets]]
      BY <1>1 DEF JobInv
    <3>5. job' \in [Jobs -> [pc : PCs, next : Nat, seen : RuleSets]]
      BY <3>2, <3>3, <3>4 DEF PCs
    <3>6. /\ \A k \in Jobs \ {j} : job'[k] = job[k]
          /\ job'[j].next = job[j].next /\ job'[j].pc # "swap"
      BY <3>3, <3>4
    <3>. QED
      BY <1>1, <3>2, <3>5, <3>6 DEF JobInv
  <2>. QED
    BY <1>1, <2>1, <2>3, <2>4, <2>5 DEF IInv
<1>. QED
  BY <1>2, <1>3

\* The hot reload.
LEMMA ReloadStep ==
  ASSUME IInv, ReloadRead \/ ReloadSwap
  PROVE  IInv'
<1>1. TableInv /\ MinerInv /\ JobInv /\ RouterInv /\ faults \in 0..MaxFaults
  BY DEF IInv
<1>2. CASE ReloadRead
  <2>1. /\ UNCHANGED <<writer, disabled, chosen, live, up, comparing, job, mining, edits, faults>>
        /\ tick' = LoadRules /\ SeedRules
    BY <1>2 DEF ReloadRead, humanVars
  <2>2. RouterInv'
    BY <1>1, <2>1, LoadFacts DEF RouterInv, LiveCompiles
  <2>3. TableInv' /\ MinerInv'
    BY <1>1, <2>1, SeedRulesFacts, SeedingStays, MinerStays
  <2>4. JobInv'
    BY <1>1, <2>1 DEF JobInv
  <2>. QED
    BY <1>1, <2>1, <2>2, <2>3, <2>4 DEF IInv
<1>3. CASE ReloadSwap
  <2>1. /\ UNCHANGED <<table, writer, disabled, chosen, up, comparing, job, mining, edits, faults>>
        /\ tick # NoRules /\ tick' = NoRules
        /\ live' = IF Compiles(tick) THEN tick ELSE live
    BY <1>3 DEF ReloadSwap, rowVars, humanVars
  <2>2. RouterInv'
    <3>1. NoRules \in RuleSets
      BY DEF NoRules, RuleSets
    <3>. QED
      BY <1>1, <2>1, <3>1 DEF RouterInv, LiveCompiles, Compiles
  <2>3. TableInv' /\ MinerInv'
    BY <1>1, <2>1 DEF TableInv, OperatorDecisionStands, MinerInv, Mined, NoDuplicateMined, Nobody
  <2>4. JobInv'
    BY <1>1, <2>1 DEF JobInv
  <2>. QED
    BY <1>1, <2>1, <2>2, <2>3, <2>4 DEF IInv
<1>. QED
  BY <1>2, <1>3

\* The miner's query, name and INSERT.
LEMMA MineStep ==
  ASSUME IInv, (\E d \in Eligible : MinePropose(d)) \/ MineName \/ MineInsert
  PROVE  IInv'
<1>1. TableInv /\ MinerInv /\ JobInv /\ RouterInv /\ faults \in 0..MaxFaults
  BY DEF IInv
<1>2. UNCHANGED <<writer, disabled, chosen, live, up, tick, comparing, job, edits, faults>>
  BY DEF MinePropose, MineName, MineInsert, rowVars, humanVars, daemonVars
<1>3. RouterInv' /\ JobInv'
  BY <1>1, <1>2 DEF RouterInv, LiveCompiles, JobInv
<1>4. ASSUME NEW d \in Eligible, MinePropose(d)
      PROVE  IInv'
  <2>1. /\ UNCHANGED table /\ mining' = [pc |-> "name", def |-> d, name |-> NoDef]
        /\ \A n \in Names : table[n].def # d
    BY <1>4 DEF MinePropose, Known, rowVars, humanVars
  <2>2. d \in Defs
    BY DefsAssumption
  <2>3. TableInv'
    BY <1>1, <1>2, <2>1 DEF TableInv, OperatorDecisionStands
  <2>4. NoDuplicateMined'
    BY <1>1, <1>2, <2>1 DEF MinerInv, NoDuplicateMined, Nobody
  <2>5. MinerInv'
    BY <1>1, <1>2, <2>1, <2>2, <2>4 DEF MinerInv
  <2>. QED
    BY <1>1, <1>2, <1>3, <2>3, <2>5 DEF IInv
<1>5. CASE MineName
  <2>1. /\ UNCHANGED table /\ mining.pc = "name"
        /\ mining' = [mining EXCEPT !.pc = "insert", !.name = NextMinedName]
    BY <1>5 DEF MineName, rowVars, humanVars
  <2>2. mining' = [pc |-> "insert", def |-> mining.def, name |-> NextMinedName]
    BY <1>1, <2>1 DEF MinerInv
  <2>3. TableInv'
    BY <1>1, <1>2, <2>1 DEF TableInv, OperatorDecisionStands
  <2>4. NoDuplicateMined'
    BY <1>1, <1>2, <2>1 DEF MinerInv, NoDuplicateMined, Nobody
  <2>5. MinerInv'
    BY <1>1, <1>2, <2>1, <2>2, <2>4 DEF MinerInv, Mined, Nobody
  <2>. QED
    BY <1>1, <1>2, <1>3, <2>3, <2>5 DEF IInv
<1>6. CASE MineInsert
  <2>. DEFINE e == mining.name
              new == Row(mining.def, "mined")
  <2>1. /\ mining.pc = "insert" /\ mining' = Resting
        /\ table' = IF table[e] = NoRow THEN [table EXCEPT ![e] = new] ELSE table
    BY <1>6 DEF MineInsert
  <2>2. /\ new \in RowType /\ new # NoRow /\ new.def = mining.def /\ mining.def \in Defs
        /\ new.origin = "mined"
    BY <1>1, <2>1, RowFacts DEF MinerInv
  <2>. HIDE DEF e, new
  <2>3. /\ table' \in [Names -> RowType]
        /\ \A n \in Names : \/ table'[n] = table[n]
                            \/ n = e /\ table[n] = NoRow /\ table'[n] = new
    BY <1>1, <2>1, <2>2 DEF TableInv
  <2>4. TableInv'
    <3>1. \A n \in Names : table'[n] # NoRow => table'[n].def \in Defs /\ table'[n].origin # "none"
      BY <1>1, <2>2, <2>3 DEF TableInv
    <3>2. /\ \A n \in disabled : table'[n] = table[n]
          /\ \A n \in Names : chosen[n] # NoDef => table'[n] = table[n]
          /\ \A n \in comparing : table'[n] = table[n]
      <4>1. \A n \in Names : table[n] # NoRow => table'[n] = table[n]
        BY <2>3
      <4>2. NoRow.origin # "mined"
        BY DEF NoRow
      <4>. QED
        BY <1>1, <4>1, <4>2 DEF TableInv
    <3>. QED
      BY <1>1, <1>2, <2>3, <3>1, <3>2 DEF TableInv, OperatorDecisionStands
  <2>5. ASSUME NEW n \in Names, Mined(n)'
        PROVE  \/ Mined(n) /\ table'[n].def = table[n].def
               \/ n = e /\ table'[n].def = mining.def
    BY <1>2, <2>2, <2>3, <2>5 DEF Mined, Nobody
  <2>6. NoDuplicateMined'
    <3>. SUFFICES ASSUME NEW m \in Names, NEW n \in Names, m # n,
                         table'[m].origin = "mined", table'[n].origin = "mined", edits' = 0,
                         writer'[m] = Nobody, writer'[n] = Nobody
                  PROVE  table'[m].def # table'[n].def
      BY DEF NoDuplicateMined, Nobody
    <3>1. Mined(m)' /\ Mined(n)'
      BY DEF Mined, Nobody
    <3>2. \A x \in Names : Mined(x) => table[x].def # mining.def
      BY <1>1, <1>2, <2>1 DEF MinerInv
    <3>3. Mined(m) /\ Mined(n) => table[m].def # table[n].def
      BY <1>1, <1>2 DEF MinerInv, NoDuplicateMined, Mined
    <3>. QED
      BY <2>5, <3>1, <3>2, <3>3
  <2>7. MinerInv'
    BY <1>1, <1>2, <2>1, <2>6 DEF MinerInv, Resting
  <2>. QED
    BY <1>1, <1>2, <1>3, <2>4, <2>7 DEF IInv
<1>. QED
  BY <1>4, <1>5, <1>6

\* The engine routes by a mined rule, and judges it: its row keeps everything
\* but the switch.
LEMMA EngineStep ==
  ASSUME IInv, NEW n \in Names, EngineRoutes(n) \/ EngineJudges(n)
  PROVE  IInv'
<1>1. TableInv /\ MinerInv /\ JobInv /\ RouterInv /\ faults \in 0..MaxFaults
  BY DEF IInv
<1>2. UNCHANGED <<writer, disabled, chosen, live, up, tick, job, mining, edits, faults>>
  BY DEF EngineRoutes, EngineJudges, rowVars, humanVars
<1>3. RouterInv' /\ JobInv'
  BY <1>1, <1>2 DEF RouterInv, LiveCompiles, JobInv
<1>4. table[n].origin = "mined" /\ table[n] \in RowType
  BY <1>1 DEF EngineRoutes, EngineJudges, TableInv
<1>5. /\ table' \in [Names -> RowType]
      /\ \A m \in Names : m # n => table'[m] = table[m]
      /\ table'[n].def = table[n].def /\ table'[n].origin = table[n].origin
  <2>1. CASE UNCHANGED table
    BY <1>1, <2>1 DEF TableInv
  <2>2. ASSUME NEW on \in BOOLEAN, table' = [table EXCEPT ![n].on = on]
        PROVE  <1>5!:
    <3>. DEFINE r == [table[n] EXCEPT !.on = on]
    <3>1. r \in RowType /\ r.def = table[n].def /\ r.origin = table[n].origin
      BY <1>4 DEF RowType
    <3>2. table' = [table EXCEPT ![n] = r]
      BY <2>2
    <3>. HIDE DEF r
    <3>. QED
      BY <1>1, <3>1, <3>2 DEF TableInv
  <2>3. UNCHANGED table \/ \E on \in BOOLEAN : table' = [table EXCEPT ![n].on = on]
    BY DEF EngineRoutes, EngineJudges, rowVars
  <2>. QED
    BY <2>1, <2>2, <2>3
<1>6. comparing' \subseteq Names /\ \A m \in comparing' : m \in comparing \/ m = n
  BY <1>1 DEF EngineRoutes, EngineJudges, TableInv
<1>7. TableInv'
  <2>1. \A m \in Names : /\ table'[m].def = table[m].def /\ table'[m].origin = table[m].origin
                         /\ table[m] # NoRow => table'[m] # NoRow
                         /\ table'[m] # NoRow => table'[m] = table[m] \/ m = n
    <3>1. table'[n] # NoRow
      BY <1>4, <1>5 DEF NoRow
    <3>. QED
      BY <1>5, <3>1
  <2>2. table[n] # NoRow
    BY <1>4 DEF NoRow
  <2>3. \A m \in Names : table'[m] # NoRow => table'[m].def \in Defs /\ table'[m].origin # "none"
    BY <1>1, <2>1, <2>2 DEF TableInv
  <2>4. \A m \in disabled : table'[m] # NoRow /\ (table'[m].origin # "mined" => ~table'[m].on)
    BY <1>1, <1>4, <1>5, <2>1 DEF TableInv, OperatorDecisionStands
  <2>5. \A m \in Names : chosen[m] # NoDef => table'[m] # NoRow /\ table'[m].def = chosen[m]
    BY <1>1, <2>1 DEF TableInv, OperatorDecisionStands
  <2>6. \A m \in comparing' : table'[m].origin = "mined"
    BY <1>1, <1>4, <1>6, <2>1 DEF TableInv
  <2>. QED
    BY <1>1, <1>2, <1>5, <1>6, <2>3, <2>4, <2>5, <2>6 DEF TableInv, OperatorDecisionStands
<1>8. \A m \in Names : Mined(m)' => Mined(m) /\ table'[m].def = table[m].def
  BY <1>2, <1>5 DEF Mined, Nobody
<1>9. MinerInv'
  BY <1>1, <1>2, <1>8, MinerStays
<1>. QED
  BY <1>1, <1>2, <1>3, <1>7, <1>9 DEF IInv

\* The operator's edits.
LEMMA OperatorStep ==
  ASSUME IInv, NEW n \in Names, OperatorEdits(n)
  PROVE  IInv'
<1>1. TableInv /\ MinerInv /\ JobInv /\ RouterInv /\ faults \in 0..MaxFaults
  BY DEF IInv
<1>2. /\ UNCHANGED <<live, up, tick, comparing, job, mining, faults>>
      /\ edits < MaxEdits /\ edits' = edits + 1 /\ table[n] # NoRow
      /\ writer' = [writer EXCEPT ![n] = Nobody]
  BY DEF OperatorEdits, daemonVars
<1>3. RouterInv' /\ JobInv'
  BY <1>1, <1>2 DEF RouterInv, LiveCompiles, JobInv
<1>4. table[n] \in RowType /\ table[n].def \in Defs /\ table[n].origin # "none"
  BY <1>1, <1>2 DEF TableInv
<1>5. PICK r \in RowType :
        /\ table' = [table EXCEPT ![n] = r]
        /\ r.def \in Defs /\ r.origin # "none" /\ r.origin = table[n].origin
        /\ chosen' = [chosen EXCEPT ![n] = r.def] \/ (r.def = table[n].def /\ chosen' = chosen)
        /\ \/ ~r.on /\ disabled' = disabled \cup {n}
           \/ disabled' = disabled \ {n}
           \/ r.on = table[n].on /\ disabled' = disabled
  <2>1. CASE /\ table' = [table EXCEPT ![n].on = FALSE] /\ disabled' = disabled \cup {n}
             /\ UNCHANGED chosen
    <3>. DEFINE r == [table[n] EXCEPT !.on = FALSE]
    <3>1. r \in RowType /\ r.def \in Defs /\ r.origin # "none" /\ ~r.on
          /\ r.origin = table[n].origin /\ r.def = table[n].def
      BY <1>4 DEF RowType
    <3>2. table' = [table EXCEPT ![n] = r]
      BY <2>1
    <3>. HIDE DEF r
    <3>. QED
      BY <2>1, <3>1, <3>2
  <2>2. CASE /\ table' = [table EXCEPT ![n].on = TRUE] /\ disabled' = disabled \ {n}
             /\ UNCHANGED chosen
    <3>. DEFINE r == [table[n] EXCEPT !.on = TRUE]
    <3>1. r \in RowType /\ r.def \in Defs /\ r.origin # "none"
          /\ r.origin = table[n].origin /\ r.def = table[n].def
      BY <1>4 DEF RowType
    <3>2. table' = [table EXCEPT ![n] = r]
      BY <2>2
    <3>. HIDE DEF r
    <3>. QED
      BY <2>2, <3>1, <3>2
  <2>3. ASSUME NEW d \in Defs, table' = [table EXCEPT ![n].def = d],
               chosen' = [chosen EXCEPT ![n] = d], UNCHANGED disabled
        PROVE  \E r \in RowType :
                 /\ table' = [table EXCEPT ![n] = r]
                 /\ r.def \in Defs /\ r.origin # "none" /\ r.origin = table[n].origin
                 /\ chosen' = [chosen EXCEPT ![n] = r.def]
                 /\ r.on = table[n].on /\ disabled' = disabled
    <3>. DEFINE r == [table[n] EXCEPT !.def = d]
    <3>1. /\ r \in RowType /\ r.def \in Defs /\ r.origin # "none" /\ r.on = table[n].on
          /\ r.origin = table[n].origin /\ r.def = d
      BY <1>4 DEF RowType
    <3>2. table' = [table EXCEPT ![n] = r]
      BY <2>3
    <3>. HIDE DEF r
    <3>. QED
      BY <2>3, <3>1, <3>2
  <2>. QED
    BY <2>1, <2>2, <2>3 DEF OperatorEdits
<1>6. /\ table' \in [Names -> RowType] /\ table'[n] = r /\ r # NoRow
      /\ \A m \in Names : m # n => table'[m] = table[m]
  BY <1>1, <1>5 DEF TableInv, NoRow
<1>7. TableInv'
  <2>1. \A m \in Names : table'[m] # NoRow => table'[m].def \in Defs /\ table'[m].origin # "none"
    BY <1>1, <1>5, <1>6 DEF TableInv
  <2>2. disabled' \subseteq Names
    BY <1>1, <1>5 DEF TableInv
  <2>3. ASSUME NEW m \in disabled'
        PROVE  table'[m] # NoRow /\ (table'[m].origin # "mined" => ~table'[m].on)
    <3>1. CASE m = n
      BY <1>1, <1>5, <1>6, <2>3, <3>1 DEF TableInv, OperatorDecisionStands
    <3>2. CASE m # n
      BY <1>1, <1>5, <1>6, <2>2, <2>3, <3>2 DEF TableInv, OperatorDecisionStands
    <3>. QED
      BY <3>1, <3>2
  <2>4. writer' \in [Names -> Jobs \cup {Nobody}]
    BY <1>1, <1>2 DEF TableInv
  <2>5. /\ chosen' \in [Names -> Defs \cup {NoDef}]
        /\ \A m \in Names : m # n => chosen'[m] = chosen[m]
        /\ chosen'[n] = r.def \/ (chosen'[n] = chosen[n] /\ r.def = table[n].def)
    BY <1>1, <1>5 DEF TableInv
  <2>6. \A m \in Names : chosen'[m] # NoDef => table'[m] # NoRow /\ table'[m].def = chosen'[m]
    BY <1>1, <1>6, <2>5 DEF TableInv, OperatorDecisionStands
  <2>7. comparing' \subseteq Names /\ \A m \in comparing' : table'[m].origin = "mined"
    BY <1>1, <1>2, <1>5, <1>6 DEF TableInv
  <2>. QED
    BY <1>6, <2>1, <2>2, <2>3, <2>4, <2>5, <2>6, <2>7 DEF TableInv, OperatorDecisionStands
<1>8. MinerInv'
  <2>1. edits' \in 0..MaxEdits /\ edits' # 0
    BY <1>1, <1>2, BoundsAssumption DEF MinerInv
  <2>. QED
    BY <1>1, <1>2, <2>1 DEF MinerInv, NoDuplicateMined
<1>. QED
  BY <1>1, <1>2, <1>3, <1>7, <1>8 DEF IInv

\* The daemon ends, and boots: reconciliation changes no row.
LEMMA RestartStep ==
  ASSUME IInv, Stop \/ Boot
  PROVE  IInv'
<1>1. TableInv /\ MinerInv /\ JobInv /\ RouterInv /\ faults \in 0..MaxFaults
  BY DEF IInv
<1>2. NoRules \in RuleSets
  BY DEF NoRules, RuleSets
<1>3. CASE Stop
  <2>1. /\ UNCHANGED <<table, writer, disabled, chosen, edits>>
        /\ faults < MaxFaults /\ faults' = faults + 1
        /\ up' = FALSE /\ live' = NoRules /\ tick' = NoRules /\ mining' = Resting
        /\ comparing' = {}
    BY <1>3 DEF Stop, Fault, rowVars, humanVars
  <2>2. TableInv'
    BY <1>1, <2>1 DEF TableInv, OperatorDecisionStands
  <2>3. MinerInv'
    BY <1>1, <2>1, MinerStays DEF Mined, Nobody
  <2>4. RouterInv'
    BY <1>2, <2>1 DEF RouterInv, LiveCompiles
  <2>5. JobInv'
    <3>. DEFINE JobType == [pc : PCs, next : Nat, seen : RuleSets]
    <3>1. ASSUME NEW j \in Jobs
          PROVE  /\ job'[j] \in JobType
                 /\ job'[j].next = job[j].next
                 /\ job'[j].pc = "swap" => job'[j].seen = job[j].seen /\ job[j].pc = "swap"
      <4>1. job[j] \in JobType
        BY <1>1 DEF JobInv
      <4>2. CASE job'[j] = job[j]
        BY <4>1, <4>2
      <4>3. CASE job'[j] = [job[j] EXCEPT !.pc = "failed", !.seen = NoRules]
        BY <1>2, <4>1, <4>3 DEF PCs
      <4>4. job'[j] = job[j] \/ job'[j] = [job[j] EXCEPT !.pc = "failed", !.seen = NoRules]
        BY <1>3 DEF Stop
      <4>. QED
        BY <4>2, <4>3, <4>4
    <3>2. job' = [j \in Jobs |-> job'[j]]
      BY <1>3 DEF Stop
    <3>. HIDE DEF JobType
    <3>3. job' \in [Jobs -> JobType]
      BY <3>1, <3>2
    <3>4. NoRules' = NoRules
      BY DEF NoRules
    <3>. QED
      BY <1>1, <3>1, <3>3, <3>4 DEF JobInv, JobType
  <2>6. faults' \in 0..MaxFaults
    BY <1>1, <2>1, BoundsAssumption
  <2>. QED
    BY <2>2, <2>3, <2>4, <2>5, <2>6 DEF IInv
<1>4. CASE Boot
  <2>. DEFINE rules == IF \E n \in Names : Reconciled[n].on
                       THEN [n \in Names |-> IF Reconciled[n].on THEN Reconciled[n].def ELSE NoDef]
                       ELSE [n \in Names |-> IF n \in Seeds THEN SeedDef ELSE NoDef]
  <2>1. /\ UNCHANGED <<writer, disabled, chosen, tick, comparing, job, mining, edits, faults>>
        /\ table' = Reconciled
        /\ up' = Compiles(rules)
        /\ live' = IF Compiles(rules) THEN rules ELSE NoRules
    BY <1>4 DEF Boot, humanVars
  <2>2. /\ table' \in [Names -> RowType]
        /\ \A n \in Names : \/ table'[n] = table[n]
                            \/ table[n] = NoRow /\ table'[n] = Row(SeedDef, "seed")
    <3>1. Row(SeedDef, "seed") \in RowType
      BY NamesAssumption, RowFacts
    <3>. QED
      BY <1>1, <2>1, <3>1 DEF TableInv, Reconciled
  <2>3. TableInv' /\ MinerInv'
    BY <1>1, <2>1, <2>2, SeedingStays, MinerStays
  <2>4. rules \in RuleSets /\ rules # NoRules
    <3>1. Reconciled \in [Names -> RowType]
      BY <2>1, <2>2
    <3>2. \A n \in Names : Reconciled[n] # NoRow =>
             Reconciled[n].def \in Defs /\ Reconciled[n].origin # "none"
      BY <2>1, <2>3 DEF TableInv
    <3>. QED
      BY <3>1, <3>2, RulesOfTable
  <2>. HIDE DEF rules
  <2>5. RouterInv'
    BY <1>1, <1>2, <2>1, <2>4 DEF RouterInv, LiveCompiles, Compiles
  <2>6. JobInv'
    BY <1>1, <2>1 DEF JobInv
  <2>. QED
    BY <1>1, <2>1, <2>3, <2>5, <2>6 DEF IInv
<1>. QED
  BY <1>3, <1>4

\* The first boot: the compiled-in rules are the table and the router.
LEMMA InitInvariant == Init => IInv
<1>. SUFFICES ASSUME Init
              PROVE  IInv
  OBVIOUS
<1>1. /\ Row(SeedDef, "seed") \in RowType /\ Row(SeedDef, "seed") # NoRow
      /\ Row(SeedDef, "seed").def \in Defs /\ Row(SeedDef, "seed").origin = "seed"
      /\ NoRow \in RowType /\ NoRow.origin = "none"
  <2>1. NoRow \in RowType /\ NoRow.origin = "none"
    BY DEF NoRow, RowType
  <2>. QED
    BY <2>1, NamesAssumption, RowFacts
<1>2. NoRules \in RuleSets
  BY DEF NoRules, RuleSets
<1>3. \A n \in Names : table[n].origin # "mined"
  BY <1>1 DEF Init
<1>4. TableInv
  BY <1>1 DEF Init, TableInv, OperatorDecisionStands, NoRules
<1>5. MinerInv
  <2>1. NoDuplicateMined
    BY <1>3 DEF NoDuplicateMined
  <2>2. mining = Resting /\ edits = 0
    BY DEF Init
  <2>. QED
    BY <2>1, <2>2, BoundsAssumption DEF MinerInv, Resting
<1>6. JobInv
  <2>1. job = [j \in Jobs |-> [pc |-> "idle", next |-> 1, seen |-> NoRules]]
    BY DEF Init
  <2>2. [pc |-> "idle", next |-> 1, seen |-> NoRules] \in [pc : PCs, next : Nat, seen : RuleSets]
    BY <1>2 DEF PCs
  <2>3. ASSUME NEW j \in Jobs
        PROVE  1 \in 1..(Len(SpecsOf[j]) + 1)
    <3>1. SpecsOf[j] \in Seq([name : Names, def : Defs \ BadDefs])
      BY JobsAssumption
    <3>2. Len(SpecsOf[j]) \in Nat
      BY <3>1
    <3>. QED
      BY <3>2
  <2>. QED
    BY <2>1, <2>2, <2>3 DEF JobInv
<1>7. RouterInv
  <2>1. PICK n \in Names : n \in Seeds
    BY NamesAssumption DEF Names
  <2>2. live[n] = SeedDef /\ SeedDef # NoDef
    BY <2>1, NamesAssumption DEF Init
  <2>3. live # NoRules
    BY <2>2 DEF NoRules
  <2>4. \A m \in Names : live[m] \notin BadDefs
    BY NamesAssumption, DefsAssumption DEF Init
  <2>. QED
    BY <1>2, <2>3, <2>4, NamesAssumption DEF Init, RouterInv, LiveCompiles, RuleSets
<1>8. faults \in 0..MaxFaults
  BY BoundsAssumption DEF Init
<1>. QED
  BY <1>4, <1>5, <1>6, <1>7, <1>8 DEF IInv

\* Every step keeps the invariant.
LEMMA NextInvariant == IInv /\ [Next]_vars => IInv'
<1>. SUFFICES ASSUME IInv, [Next]_vars
              PROVE  IInv'
  OBVIOUS
<1>1. CASE \E j \in Jobs : JobStep(j)
  BY <1>1, GateStep, ImportStep, WriteStep, SwapStep DEF JobStep
<1>2. CASE ReloadRead \/ ReloadSwap
  BY <1>2, ReloadStep
<1>3. CASE (\E d \in Eligible : MinePropose(d)) \/ MineName \/ MineInsert
  BY <1>3, MineStep
<1>4. CASE \E n \in Names : EngineRoutes(n) \/ EngineJudges(n) \/ OperatorEdits(n)
  BY <1>4, EngineStep, OperatorStep
<1>5. CASE Stop \/ Boot
  BY <1>5, RestartStep
<1>6. CASE UNCHANGED vars
  BY <1>6 DEF IInv, TableInv, OperatorDecisionStands, MinerInv, Mined, Nobody, NoDuplicateMined,
              JobInv, RouterInv, LiveCompiles, vars, rowVars, humanVars, daemonVars
<1>. QED
  BY <1>1, <1>2, <1>3, <1>4, <1>5, <1>6 DEF Next

-----------------------------------------------------------------------------
(* A disabled rule that nobody holds any more.                             *)

\* A read of the table does not bring it back, unless it is a compiled-in rule
\* and no row is enabled.
LEMMA LoadLeavesOut ==
  ASSUME TableInv, NEW n \in Names, ~table[n].on, ~(n \in Seeds /\ ~SomeEnabled)
  PROVE  LoadRules[n] = NoDef
BY DEF LoadRules, SomeEnabled

\* Nor does the seeding that comes with it touch its row.
LEMMA SeedsLeaveOut ==
  ASSUME TableInv, NEW n \in Names, table[n] # NoRow, SeedRules
  PROVE  table'[n] = table[n]
BY DEF SeedRules

\* No step brings it back, except a human's.
LEMMA DroppedStep ==
  ASSUME IInv, [Next]_vars, NEW n \in disabled \cap disabled', Dropped(n),
         ~(n \in Seeds /\ ~SomeEnabled)
  PROVE  Dropped(n)'
<1>1. /\ TableInv /\ JobInv /\ n \in Names /\ table[n] # NoRow /\ ~table[n].on
      /\ live[n] = NoDef /\ tick[n] = NoDef /\ n \notin comparing
      /\ \A j \in Jobs : job[j].seen[n] = NoDef
  BY DEF IInv, TableInv, Dropped, Held
<1>. DEFINE Kept == /\ ~table'[n].on
                    /\ live'[n] = NoDef /\ tick'[n] = NoDef /\ n \notin comparing'
                    /\ \A j \in Jobs : job'[j].seen[n] = NoDef
<1>. SUFFICES Kept
  BY DEF Dropped, Held
<1>2. NoRules[n] = NoDef /\ NoRules \in RuleSets
  BY <1>1 DEF NoRules, RuleSets
<1>3. LoadRules[n] = NoDef /\ LoadRules \in RuleSets
  BY <1>1, LoadLeavesOut, LoadFacts
<1>. DEFINE JobType == [pc : PCs, next : Nat, seen : RuleSets]
<1>4. job \in [Jobs -> JobType]
  BY <1>1 DEF JobInv
<1>5. ASSUME NEW j \in Jobs, JobStep(j)
      PROVE  Kept
  <2>1. UNCHANGED <<tick, comparing>>
    BY <1>5 DEF JobStep, Request, ImportBegins, Decide, WriteRule, LoadForSwap, SwapRules, daemonVars
  <2>2. \A k \in Jobs : /\ k # j => job'[k] = job[k]
                        /\ job'[j].seen = job[j].seen \/ job'[j].seen = NoRules
                           \/ job'[j].seen = LoadRules
    <3>1. CASE \E pc \in PCs : job' = [job EXCEPT ![j].pc = pc]
      BY <1>4, <3>1
    <3>2. CASE job' = [job EXCEPT ![j].next = @ + 1]
      BY <1>4, <3>2
    <3>3. CASE job' = [job EXCEPT ![j].pc = "swap", ![j].seen = LoadRules]
      BY <1>4, <3>3
    <3>4. CASE \E pc \in PCs : job' = [job EXCEPT ![j].pc = pc, ![j].seen = NoRules]
      BY <1>4, <3>4
    <3>5. /\ \A pc \in {"waiting", "writing", "failed", "no", "ok"} : pc \in PCs
          /\ \/ \E pc \in PCs : job' = [job EXCEPT ![j].pc = pc]
             \/ job' = [job EXCEPT ![j].next = @ + 1]
             \/ job' = [job EXCEPT ![j].pc = "swap", ![j].seen = LoadRules]
             \/ \E pc \in PCs : job' = [job EXCEPT ![j].pc = pc, ![j].seen = NoRules]
      BY <1>5 DEF JobStep, Request, ImportBegins, Decide, WriteRule, LoadForSwap, SwapRules, Goto, PCs
    <3>. QED
      BY <3>1, <3>2, <3>3, <3>4, <3>5
  <2>3. \A k \in Jobs : job'[k].seen[n] = NoDef
    BY <1>1, <1>2, <1>3, <2>2
  <2>4. live' = live \/ live' = job[j].seen
    BY <1>5 DEF JobStep, Request, ImportBegins, Decide, WriteRule, LoadForSwap, SwapRules, daemonVars
  <2>5. table'[n] = table[n]
    <3>1. CASE WriteRule(j)
      BY <1>1, <3>1 DEF WriteRule, rowVars, TableInv
    <3>2. CASE ~WriteRule(j)
      <4>1. SeedRules \/ UNCHANGED table
        BY <1>5, <3>2 DEF JobStep, Request, ImportBegins, Decide, LoadForSwap, SwapRules, rowVars
      <4>. QED
        BY <1>1, <4>1, SeedsLeaveOut
    <3>. QED
      BY <3>1, <3>2
  <2>. QED
    BY <1>1, <2>1, <2>3, <2>4, <2>5
<1>6. CASE ReloadRead
  <2>1. table'[n] = table[n]
    BY <1>1, <1>6, SeedsLeaveOut DEF ReloadRead
  <2>. QED
    BY <1>1, <1>3, <1>6, <2>1 DEF ReloadRead
<1>7. CASE ReloadSwap
  BY <1>1, <1>2, <1>7 DEF ReloadSwap, rowVars
<1>8. CASE (\E d \in Eligible : MinePropose(d)) \/ MineName \/ MineInsert
  <2>1. table'[n] = table[n]
    BY <1>1, <1>8 DEF MinePropose, MineName, MineInsert, rowVars, TableInv
  <2>. QED
    BY <1>1, <1>8, <2>1 DEF MinePropose, MineName, MineInsert, daemonVars
<1>9. ASSUME NEW m \in Names, EngineRoutes(m) \/ EngineJudges(m)
      PROVE  Kept
  <2>1. m # n
    BY <1>1, <1>9 DEF EngineRoutes, EngineJudges
  <2>2. table'[n] = table[n] /\ n \notin comparing' /\ UNCHANGED <<live, tick, job>>
    BY <1>1, <1>9, <2>1 DEF EngineRoutes, EngineJudges, rowVars, TableInv
  <2>. QED
    BY <1>1, <2>2
<1>10. ASSUME NEW m \in Names, OperatorEdits(m)
       PROVE  Kept
  <2>1. UNCHANGED <<live, tick, comparing, job>>
    BY <1>10 DEF OperatorEdits, daemonVars
  <2>2. ~table'[n].on
    <3>1. CASE m = n
      <4>1. \/ table' = [table EXCEPT ![n].on = FALSE]
            \/ \E d \in Defs : table' = [table EXCEPT ![n].def = d]
        BY <1>10, <3>1 DEF OperatorEdits
      <4>2. table[n] \in RowType /\ table \in [Names -> RowType]
        BY <1>1 DEF TableInv
      <4>. QED
        BY <1>1, <4>1, <4>2 DEF RowType
    <3>2. CASE m # n
      BY <1>1, <1>10, <3>2 DEF OperatorEdits, TableInv
    <3>. QED
      BY <3>1, <3>2
  <2>. QED
    BY <1>1, <2>1, <2>2
<1>11. CASE Stop
  <2>1. \A j \in Jobs : job'[j] = job[j] \/ job'[j] = [job[j] EXCEPT !.pc = "failed", !.seen = NoRules]
    BY <1>11 DEF Stop
  <2>2. \A j \in Jobs : job[j] \in JobType
    BY <1>4
  <2>3. \A j \in Jobs : job'[j].seen = job[j].seen \/ job'[j].seen = NoRules
    BY <2>1, <2>2
  <2>. QED
    BY <1>1, <1>2, <1>11, <2>3 DEF Stop, rowVars
<1>12. CASE Boot
  <2>. DEFINE rules == IF \E m \in Names : Reconciled[m].on
                       THEN [m \in Names |-> IF Reconciled[m].on THEN Reconciled[m].def ELSE NoDef]
                       ELSE [m \in Names |-> IF m \in Seeds THEN SeedDef ELSE NoDef]
  <2>1. /\ UNCHANGED <<tick, comparing, job>>
        /\ table' = Reconciled
        /\ live' = IF Compiles(rules) THEN rules ELSE NoRules
    BY <1>12 DEF Boot
  <2>2. Reconciled[n] = table[n] /\ \A m \in Names : table[m].on => Reconciled[m].on
    BY <1>1 DEF Reconciled, NoRow
  <2>3. rules[n] = NoDef
    <3>1. CASE SomeEnabled
      BY <1>1, <2>2, <3>1 DEF SomeEnabled
    <3>2. CASE n \notin Seeds
      BY <1>1, <2>2, <3>2
    <3>. QED
      BY <3>1, <3>2
  <2>. HIDE DEF rules
  <2>. QED
    BY <1>1, <1>2, <2>1, <2>2, <2>3
<1>13. CASE UNCHANGED vars
  BY <1>1, <1>13 DEF vars, rowVars, daemonVars
<1>. QED
  BY <1>5, <1>6, <1>7, <1>8, <1>9, <1>10, <1>11, <1>12, <1>13 DEF Next

-----------------------------------------------------------------------------
(* The theorems.                                                           *)

\* The inductive invariant holds of every behaviour.
THEOREM Invariant == Spec => []IInv
BY InitInvariant, NextInvariant, PTL DEF Spec

\* Type correctness: rows, rule sets, jobs and the miner's proposal.
THEOREM TypeCorrect == Spec => []TypeOK
<1>1. IInv => TypeOK
  <2>. SUFFICES ASSUME IInv
                PROVE  TypeOK
    OBVIOUS
  <2>1. TableInv /\ MinerInv /\ JobInv /\ RouterInv /\ faults \in 0..MaxFaults
    BY DEF IInv
  <2>2. ASSUME NEW j \in Jobs
        PROVE  /\ job[j].pc \in {"idle", "waiting", "writing", "swap", "ok", "failed", "no"}
               /\ job[j].next \in 1..(Len(SpecsOf[j]) + 1)
               /\ job[j].seen \in [Names -> Defs \cup {NoDef}]
    BY <2>1 DEF JobInv, PCs, RuleSets
  <2>. QED
    BY <2>1, <2>2 DEF TypeOK, TableInv, MinerInv, RouterInv, RowType, RuleSets
<1>. QED
  BY <1>1, Invariant, PTL

\* "operator decisions win": through any number of reconciliations, reseedings,
\* passes of the miner, comparisons of the engine and restarts, a definition
\* that a human wrote stays, and a rule that the operator disabled stays so, the
\* miner's rules excepted, which the engine may promote.
THEOREM OperatorWins == Spec => []OperatorDecisionStands
<1>1. IInv => OperatorDecisionStands
  BY DEF IInv, TableInv
<1>. QED
  BY <1>1, Invariant, PTL

\* A disabled rule, the miner's included, that is out of the router, of every
\* read under way and of every comparison is out until a human enables it.
THEOREM DisabledStaysOut == Spec => DroppedStaysOut
<1>1. ASSUME IInv, [Next]_vars
      PROVE  [\A n \in disabled \cap disabled' :
                Dropped(n) => Dropped(n)' \/ (n \in Seeds /\ ~SomeEnabled)]_vars
  BY <1>1, DroppedStep
<1>. QED
  BY <1>1, Invariant, PTL DEF Spec, DroppedStaysOut

\* The miner never has two rules of one pattern, although everybody else may
\* write between its query and its INSERT.
THEOREM MinesOnce == Spec => []NoDuplicateMined
<1>1. IInv => NoDuplicateMined
  BY DEF IInv, MinerInv
<1>. QED
  BY <1>1, Invariant, PTL

\* A running daemon always routes by rules that compile, and by at least one,
\* however stale the set it swaps in.
THEOREM RoutesCompile == Spec => []LiveCompiles
<1>1. IInv => LiveCompiles
  BY DEF IInv, RouterInv
<1>. QED
  BY <1>1, Invariant, PTL
==============================================================================
