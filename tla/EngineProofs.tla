---------------------------- MODULE EngineProofs ----------------------------
(***************************************************************************)
(* Proofs about the decision engine, for any number of callers, rules and  *)
(* reloaders, with and without an LLM, a classifier, an operator and       *)
(* failing store calls: type correctness, that every run logs exactly the  *)
(* audit line its decision calls for, with rows missing only where store   *)
(* calls fail, and that the lifecycle promotes a mined rule only on a      *)
(* streak of agreements.                                                   *)
(***************************************************************************)
EXTENDS Engine, FiniteSetTheorems, TLAPS

-----------------------------------------------------------------------------
(* The inductive invariant.                                                *)

Records == [pc : PCs, rule : RuleNames \cup {NoRule},
            evaluate : BOOLEAN, fromRule : BOOLEAN, agreed : BOOLEAN]

\* Where a run is says how the router decided: the pipeline's branches are
\* taken on the decision and on the deployment, and never left.
BranchInv ==
    \A p \in Runs :
        /\ run[p].pc \in {"llmoff", "classify", "llm"} => run[p].rule = NoRule
        /\ run[p].pc = "llmoff" => ~LLMOn
        /\ run[p].pc = "classify" => ClassifierOn
        /\ run[p].pc = "llm" => LLMOn
        /\ run[p].pc = "router" => run[p].rule # NoRule
        /\ run[p].pc \in {"compare", "record", "judge", "promote", "answer"} =>
              run[p].rule # NoRule /\ run[p].evaluate
        /\ run[p].pc \in {"record", "judge", "promote", "answer"} => LLMOn

\* Nothing is written for a run before its tail.
SilentInv ==
    \A p \in Runs : run[p].pc # "done" => logged[p] = <<>> /\ audits[p] = <<>> /\ corpus[p] = 0

\* A rule's comparisons hold a streak that is long enough.
Earned(s) ==
    \E i \in 1..Len(s) :
        /\ i + PromoteAfter - 1 <= Len(s)
        /\ \A j \in i..(i + PromoteAfter - 1) : s[j]

\* A run that goes on to promote has seen such a streak.
StreakInv ==
    \A p \in Runs : run[p].pc = "promote" => Earned(shadow[run[p].rule])

IInv == TypeOK /\ BranchInv /\ SilentInv /\ StreakInv /\ OneAuditRow /\ PromotionEarned

-----------------------------------------------------------------------------
(* Facts about streaks and about the table.                                *)

\* A streak that was seen stays in the record: comparisons are only added.
LEMMA EarnedGrows ==
  ASSUME NEW s \in Seq(BOOLEAN), NEW b \in BOOLEAN, Earned(s)
  PROVE  Earned(Append(s, b))
<1>1. PICK i \in 1..Len(s) : i + PromoteAfter - 1 <= Len(s)
                             /\ \A j \in i..(i + PromoteAfter - 1) : s[j]
  BY DEF Earned
<1>2. /\ Len(s) \in Nat /\ Len(Append(s, b)) = Len(s) + 1
      /\ \A j \in 1..Len(s) : Append(s, b)[j] = s[j]
  OBVIOUS
<1>3. i \in 1..Len(Append(s, b)) /\ i + PromoteAfter - 1 <= Len(Append(s, b))
  BY <1>1, <1>2, BoundsAssumption
<1>4. \A j \in i..(i + PromoteAfter - 1) : Append(s, b)[j]
  BY <1>1, <1>2, BoundsAssumption
<1>. QED
  BY <1>3, <1>4 DEF Earned

\* ShadowStreak: as many agreements as it counts stand at the end of the
\* record, so a count of PromoteAfter is a streak of that length.
LEMMA StreakFacts ==
  ASSUME NEW s \in Seq(BOOLEAN), ShadowStreak(s) >= PromoteAfter
  PROVE  Earned(s)
<1>. DEFINE n == Len(s)
            S == {i \in 1..n : n - i < StreakLimit /\ \A j \in i..n : s[j]}
            T == (n - PromoteAfter + 2)..n
<1>1. n \in Nat /\ PromoteAfter \in Nat \ {0}
  BY BoundsAssumption
<1>2. IsFiniteSet(1..n) /\ Cardinality(1..n) = n
  <2>1. IsFiniteSet(1..n) /\ Cardinality(1..n) = IF 1 > n THEN 0 ELSE n - 1 + 1
    BY <1>1, FS_Interval, 1 \in Int, n \in Int
  <2>. QED
    BY <1>1, <2>1
<1>3. IsFiniteSet(S) /\ Cardinality(S) <= n /\ Cardinality(S) \in Nat
  BY <1>2, FS_Subset, FS_CardinalityType
<1>4. Cardinality(S) >= PromoteAfter
  BY DEF ShadowStreak
<1>5. n - PromoteAfter + 1 \in 1..n
  BY <1>1, <1>3, <1>4
<1>6. \A j \in (n - PromoteAfter + 1)..n : s[j]
  <2>. SUFFICES ASSUME ~\A j \in (n - PromoteAfter + 1)..n : s[j]
                PROVE  FALSE
    OBVIOUS
  <2>1. S \subseteq T
    <3>. SUFFICES ASSUME NEW i \in S, i < n - PromoteAfter + 2
                  PROVE  FALSE
      BY <1>1
    <3>1. i \in 1..n /\ \A j \in i..n : s[j]
      OBVIOUS
    <3>. QED
      BY <1>1, <3>1
  <2>2. IsFiniteSet(T) /\ Cardinality(T) = PromoteAfter - 1
    <3>. DEFINE a == n - PromoteAfter + 2
    <3>1. a \in Int /\ n \in Int
      BY <1>1
    <3>2. IsFiniteSet(a..n) /\ Cardinality(a..n) = IF a > n THEN 0 ELSE n - a + 1
      BY ONLY <3>1, FS_Interval
    <3>. QED
      BY <1>1, <1>5, <3>2
  <2>3. Cardinality(S) <= PromoteAfter - 1
    BY <2>1, <2>2, FS_Subset
  <2>. QED
    BY <1>1, <1>3, <1>4, <2>3
<1>. DEFINE m == n - PromoteAfter + 1
<1>7. m + PromoteAfter - 1 = n /\ n <= n
  BY <1>1
<1>8. m + PromoteAfter - 1 <= Len(s) /\ \A j \in m..(m + PromoteAfter - 1) : s[j]
  BY <1>6, <1>7
<1>9. m \in 1..Len(s)
  BY <1>5
<1>. HIDE DEF m
<1>. QED
  BY <1>8, <1>9 DEF Earned

\* PromotionEarned, rule by rule.
LEMMA EarnedRules ==
  PromotionEarned <=> \A r \in Mined : rstate[r] = "active" /\ r \notin manual => Earned(shadow[r])
BY DEF PromotionEarned, Earned

\* LoadRules returns a rule set.
LEMMA LoadFacts ==
  ASSUME TypeOK
  PROVE  LoadRules \in [RuleNames -> RuleStates]
BY DEF LoadRules, TypeOK, RuleStates

\* SetRuleState writes one row of the table.
LEMMA SetFacts ==
  ASSUME TypeOK, NEW r \in RuleNames, NEW state \in {"active", "demoted"}, NEW on \in BOOLEAN,
         SetRuleState(r, state, on)
  PROVE  /\ rstate' \in [RuleNames -> RuleStates]
         /\ enabled' \in [RuleNames -> BOOLEAN]
         /\ rstate'[r] \in {"absent", state}
         /\ \A q \in RuleNames : q # r => rstate'[q] = rstate[q]
BY DEF SetRuleState, TypeOK, RuleStates

\* The record of a caller after one step, and everybody else's.
LEMMA RunMoves ==
  ASSUME TypeOK, NEW p \in Runs, NEW k \in Records, run' = [run EXCEPT ![p] = k]
  PROVE  /\ run' \in [Runs -> Records]
         /\ run'[p] = k
         /\ \A q \in Runs : q # p => run'[q] = run[q]
BY DEF TypeOK, Records

\* Goto is such a step.
LEMMA GotoFacts ==
  ASSUME TypeOK, NEW p \in Runs, NEW pc \in PCs, Goto(p, pc)
  PROVE  /\ run' \in [Runs -> Records]
         /\ run'[p].pc = pc
         /\ run'[p].rule = run[p].rule /\ run'[p].evaluate = run[p].evaluate
         /\ run'[p].fromRule = run[p].fromRule /\ run'[p].agreed = run[p].agreed
         /\ \A q \in Runs : q # p => run'[q] = run[q]
BY DEF Goto, TypeOK, Records

-----------------------------------------------------------------------------
(* The steps.                                                              *)

\* The inductive invariant holds when Build is done.
LEMMA InitIInv == Init => IInv
<1>. SUFFICES ASSUME Init PROVE IInv
  OBVIOUS
<1>1. \A r \in RuleNames : shadow[r] = <<>>
  BY DEF Init
<1>2. \A p \in Runs : run[p] = Idle /\ logged[p] = <<>> /\ audits[p] = <<>> /\ corpus[p] = 0
  BY DEF Init
<1>3. TypeOK
  <2>1. run \in [Runs -> Records]
    BY DEF Init, Idle, Records, PCs
  <2>2. shadow \in [RuleNames -> Seq(BOOLEAN)] /\ audits \in [Runs -> Seq(Sources)]
        /\ logged \in [Runs -> Seq(Sources)]
    BY DEF Init
  <2>3. nruns \in 0..MaxRuns
    BY BoundsAssumption DEF Init
  <2>. QED
    BY <2>1, <2>2, <2>3 DEF Init, TypeOK, Records, RuleStates
<1>4. BranchInv /\ SilentInv /\ StreakInv /\ OneAuditRow
  BY <1>2 DEF BranchInv, SilentInv, StreakInv, OneAuditRow, Idle
<1>5. PromotionEarned
  BY RulesAssumption DEF Init, PromotionEarned, RuleNames
<1>. QED
  BY <1>3, <1>4, <1>5 DEF IInv

\* A step that does not touch the runs keeps everything that is said of them
\* as long as comparisons are kept.
LEMMA RunsKeep ==
  ASSUME IInv, UNCHANGED <<run, logged, audits, corpus, setup, shadow>>
  PROVE  BranchInv' /\ SilentInv' /\ StreakInv' /\ OneAuditRow'
BY DEF IInv, BranchInv, SilentInv, StreakInv, OneAuditRow, Reported, LLMOn, ClassifierOn

\* Reloads, the miner and the operator: the table and the live set.
LEMMA TableSteps ==
  ASSUME IInv, (\E x \in setup.reloaders : ReloadStep(x)) \/ (\E r \in RuleNames : AdminStep(r))
  PROVE  IInv'
<1>. USE DEF IInv, TypeOK, runVars, sinkVars, opVars, tableVars
<1>1. UNCHANGED <<run, logged, audits, corpus, nruns, setup, shadow>>
  BY DEF ReloadStep, ReloadRead, ReloadSwap, ReloadRejected, AdminStep, MineInsert,
         CtlPromote, CtlDemote
<1>2. BranchInv' /\ SilentInv' /\ StreakInv' /\ OneAuditRow'
  BY <1>1, RunsKeep
<1>3. ASSUME NEW x \in Reloaders, ReloadStep(x)
      PROVE  TypeOK' /\ PromotionEarned'
  <2>1. CASE ReloadRead(x)
    <3>1. live' = live /\ manual' = manual
      BY <2>1 DEF ReloadRead
    <3>2. loaded' \in [Reloaders -> [RuleNames -> RuleStates] \cup {NotLoaded}]
      BY <2>1, LoadFacts DEF ReloadRead
    <3>3. rstate' \in [RuleNames -> RuleStates] /\ enabled' \in [RuleNames -> BOOLEAN]
      BY <2>1 DEF ReloadRead, SeedRules, RuleStates
    <3>4. \A r \in Mined : rstate'[r] = rstate[r]
      BY <2>1, RulesAssumption DEF ReloadRead, SeedRules, RuleNames
    <3>5. PromotionEarned'
      BY <1>1, <3>1, <3>4, EarnedRules DEF PromotionEarned
    <3>. QED
      BY <1>1, <3>1, <3>2, <3>3, <3>5
  <2>2. CASE ReloadSwap(x) \/ ReloadRejected(x)
    <3>1. UNCHANGED <<tableVars, manual>>
      BY <2>2 DEF ReloadSwap, ReloadRejected
    <3>2. /\ live' \in [RuleNames -> RuleStates]
          /\ loaded' \in [Reloaders -> [RuleNames -> RuleStates] \cup {NotLoaded}]
      BY <2>2 DEF ReloadSwap, ReloadRejected
    <3>. QED
      BY <1>1, <3>1, <3>2 DEF PromotionEarned
  <2>. QED
    BY <1>3, <2>1, <2>2 DEF ReloadStep
<1>4. ASSUME NEW r \in RuleNames, AdminStep(r)
      PROVE  TypeOK' /\ PromotionEarned'
  <2>1. UNCHANGED <<live, loaded>>
    BY <1>4 DEF AdminStep, MineInsert, CtlPromote, CtlDemote
  <2>2. CASE MineInsert(r)
    <3>1. /\ rstate' \in [RuleNames -> RuleStates] /\ enabled' \in [RuleNames -> BOOLEAN]
          /\ manual' = manual
          /\ \A q \in RuleNames : rstate'[q] = "active" => rstate[q] = "active"
      BY <2>2 DEF MineInsert, RuleStates
    <3>2. PromotionEarned'
      BY <1>1, <3>1 DEF PromotionEarned, RuleNames
    <3>. QED
      BY <1>1, <2>1, <3>1, <3>2
  <2>3. CASE CtlPromote(r)
    <3>1. /\ rstate' \in [RuleNames -> RuleStates] /\ enabled' \in [RuleNames -> BOOLEAN]
          /\ \A q \in RuleNames : q # r => rstate'[q] = rstate[q]
      BY <2>3, SetFacts DEF CtlPromote
    <3>2. manual' = manual \cup {r}
      BY <2>3 DEF CtlPromote
    <3>3. PromotionEarned'
      BY <1>1, <3>1, <3>2 DEF PromotionEarned, RuleNames
    <3>. QED
      BY <1>1, <2>1, <3>1, <3>2, <3>3
  <2>4. CASE CtlDemote(r)
    <3>1. /\ rstate' \in [RuleNames -> RuleStates] /\ enabled' \in [RuleNames -> BOOLEAN]
          /\ rstate'[r] \in {"absent", "demoted"}
          /\ \A q \in RuleNames : q # r => rstate'[q] = rstate[q]
      BY <2>4, SetFacts DEF CtlDemote
    <3>2. manual' = manual \ {r}
      BY <2>4 DEF CtlDemote
    <3>3. PromotionEarned'
      BY <1>1, <3>1, <3>2 DEF PromotionEarned, RuleNames
    <3>. QED
      BY <1>1, <2>1, <3>1, <3>2, <3>3
  <2>. QED
    BY <1>4, <2>2, <2>3, <2>4 DEF AdminStep
<1>5. setup.reloaders \subseteq Reloaders
  BY SetupsAssumption DEF SetupType
<1>. QED
  BY <1>2, <1>3, <1>4, <1>5

\* A tail of the pipeline: it keeps the invariant when it reports a source the
\* decision calls for and a corpus row exactly for the LLM's choices.
LEMMA FinishKeeps ==
  ASSUME IInv, NEW p \in Runs, NEW source \in Sources, run[p].pc # "done",
         source \in Reported(p),
         Finish(p, source, IF source \in {"llm", "llm_classifier"} THEN 1 ELSE 0)
  PROVE  IInv'
<1>. DEFINE rows == IF source \in {"llm", "llm_classifier"} THEN 1 ELSE 0
<1>1. /\ UNCHANGED <<rstate, enabled, live, loaded, shadow, nruns, manual, setup>>
      /\ Goto(p, "done")
      /\ logged' = [logged EXCEPT ![p] = Append(@, source)]
  BY DEF Finish, opVars, tableVars
<1>2. TypeOK /\ logged[p] = <<>> /\ audits[p] = <<>> /\ corpus[p] = 0
  BY DEF IInv, SilentInv
<1>3. /\ run' \in [Runs -> Records]
      /\ run'[p].pc = "done"
      /\ run'[p].rule = run[p].rule /\ run'[p].evaluate = run[p].evaluate
      /\ run'[p].fromRule = run[p].fromRule
      /\ \A q \in Runs : q # p => run'[q] = run[q]
  BY <1>1, <1>2, GotoFacts DEF PCs
<1>13. PICK kept \in Stored : audits' = [audits EXCEPT ![p] = IF kept THEN Append(@, source) ELSE @]
  BY DEF Finish
<1>14. PICK mined \in Stored : corpus' = [corpus EXCEPT ![p] = IF mined THEN @ + rows ELSE @]
  BY DEF Finish
<1>15. (kept \/ ~kept) /\ (~setup.fails => kept) /\ (mined \/ ~mined) /\ (~setup.fails => mined)
  BY DEF Stored
<1>4. /\ logged' \in [Runs -> Seq(Sources)] /\ audits' \in [Runs -> Seq(Sources)]
      /\ logged'[p] = <<source>>
      /\ audits'[p] \in {<<>>, <<source>>} /\ (~setup.fails => audits'[p] = <<source>>)
      /\ \A q \in Runs : q # p => logged'[q] = logged[q] /\ audits'[q] = audits[q]
  <2>1. Append(<<>>, source) = <<source>> /\ <<source>> \in Seq(Sources)
    OBVIOUS
  <2>2. logged' \in [Runs -> Seq(Sources)] /\ logged'[p] = <<source>>
        /\ \A q \in Runs : q # p => logged'[q] = logged[q]
    BY <1>1, <1>2, <2>1 DEF TypeOK
  <2>3. CASE kept
    <3>1. audits' = [audits EXCEPT ![p] = <<source>>]
      BY <1>2, <1>13, <2>1, <2>3
    <3>. QED
      BY <1>2, <2>1, <2>2, <3>1 DEF TypeOK
  <2>4. CASE ~kept
    <3>1. audits' = [audits EXCEPT ![p] = audits[p]]
      BY <1>13, <2>4
    <3>. QED
      BY <1>2, <1>15, <2>2, <2>4, <3>1 DEF TypeOK
  <2>. QED
    BY <1>15, <2>3, <2>4
<1>5. /\ corpus' \in [Runs -> 0..1]
      /\ corpus'[p] \in {0, rows} /\ (~setup.fails => corpus'[p] = rows)
      /\ \A q \in Runs : q # p => corpus'[q] = corpus[q]
  <2>1. CASE mined
    <3>1. corpus' = [corpus EXCEPT ![p] = rows]
      BY <1>2, <1>14, <2>1
    <3>. QED
      BY <1>2, <3>1 DEF TypeOK
  <2>2. CASE ~mined
    <3>1. corpus' = [corpus EXCEPT ![p] = corpus[p]]
      BY <1>14, <2>2
    <3>. QED
      BY <1>2, <1>15, <2>2, <3>1 DEF TypeOK
  <2>. QED
    BY <1>15, <2>1, <2>2
<1>6. TypeOK'
  BY <1>1, <1>2, <1>3, <1>4, <1>5 DEF TypeOK, Records
<1>7. BranchInv'
  BY <1>1, <1>3 DEF IInv, BranchInv, LLMOn, ClassifierOn
<1>8. SilentInv'
  BY <1>3, <1>4, <1>5 DEF IInv, SilentInv
<1>9. StreakInv'
  BY <1>1, <1>3 DEF IInv, StreakInv
<1>10. \A q \in Runs : Reported(q)' = Reported(q)
  BY <1>1, <1>3 DEF Reported, LLMOn, ClassifierOn
<1>11. OneAuditRow'
  <2>. DEFINE Mining(q) == IF logged'[q][1] \in {"llm", "llm_classifier"} THEN 1 ELSE 0
  <2>. SUFFICES ASSUME NEW q \in Runs, run'[q].pc = "done"
                PROVE  /\ Len(logged'[q]) = 1
                       /\ logged'[q][1] \in Reported(q)'
                       /\ audits'[q] \in {<<>>, logged'[q]}
                       /\ corpus'[q] \in {0, Mining(q)}
                       /\ ~setup'.fails => audits'[q] = logged'[q] /\ corpus'[q] = Mining(q)
    BY DEF OneAuditRow
  <2>1. CASE q = p
    <3>1. Len(logged'[p]) = 1 /\ logged'[p][1] = source /\ Mining(p) = rows
      BY <1>4
    <3>2. source \in Reported(p)'
      BY <1>10
    <3>. HIDE DEF Mining, rows
    <3>. QED
      BY <1>1, <1>4, <1>5, <2>1, <3>1, <3>2
  <2>2. CASE q # p
    <3>1. /\ run[q].pc = "done" /\ logged'[q] = logged[q] /\ audits'[q] = audits[q]
          /\ corpus'[q] = corpus[q] /\ Reported(q)' = Reported(q) /\ setup' = setup
      BY <1>1, <1>3, <1>4, <1>5, <1>10, <2>2
    <3>. QED
      BY <3>1 DEF IInv, OneAuditRow
  <2>. QED
    BY <2>1, <2>2
<1>12. PromotionEarned'
  BY <1>1 DEF IInv, PromotionEarned
<1>. QED
  BY <1>6, <1>7, <1>8, <1>9, <1>11, <1>12 DEF IInv

\* A step inside the pipeline that writes nothing for its caller: it keeps
\* what is said of the runs if its caller's new record is right.
LEMMA MoveKeeps ==
  ASSUME IInv, NEW p \in Runs, run[p].pc # "done", run'[p].pc # "done",
         \A q \in Runs : q # p => run'[q] = run[q],
         UNCHANGED <<logged, audits, corpus, setup>>,
         \A r \in RuleNames : Earned(shadow[r]) => Earned(shadow[r])',
         run'[p].pc = "promote" => Earned(shadow[run[p].rule])' /\ run'[p].rule = run[p].rule,
         run'[p].pc \in {"llmoff", "classify", "llm"} => run'[p].rule = NoRule,
         run'[p].pc = "llmoff" => ~LLMOn,
         run'[p].pc = "classify" => ClassifierOn,
         run'[p].pc = "llm" => LLMOn,
         run'[p].pc = "router" => run'[p].rule # NoRule,
         run'[p].pc \in {"compare", "record", "judge", "promote", "answer"} =>
            run'[p].rule # NoRule /\ run'[p].evaluate,
         run'[p].pc \in {"record", "judge", "promote", "answer"} => LLMOn
  PROVE  BranchInv' /\ SilentInv' /\ StreakInv' /\ OneAuditRow'
<1>1. BranchInv'
  BY DEF IInv, BranchInv, LLMOn, ClassifierOn
<1>2. SilentInv'
  BY DEF IInv, SilentInv
<1>3. StreakInv'
  <2>. SUFFICES ASSUME NEW q \in Runs, run'[q].pc = "promote"
                PROVE  Earned(shadow[run[q].rule])'
    BY DEF StreakInv
  <2>1. CASE q = p
    BY <2>1
  <2>2. CASE q # p
    <3>1. run[q].pc = "promote" /\ Earned(shadow[run[q].rule]) /\ run'[q] = run[q]
      BY <2>2 DEF IInv, StreakInv
    <3>2. run[q].rule \in RuleNames
      BY <3>1 DEF IInv, BranchInv, TypeOK
    <3>. QED
      BY <3>1, <3>2
  <2>. QED
    BY <2>1, <2>2
<1>4. OneAuditRow'
  BY DEF IInv, OneAuditRow, Reported, LLMOn, ClassifierOn
<1>. QED
  BY <1>1, <1>2, <1>3, <1>4

\* A caller enters and the router decides.
LEMMA HandleKeeps ==
  ASSUME IInv, NEW p \in Runs, NEW mode \in {"run", "stream"}, Handle(p, mode)
  PROVE  IInv'
<1>1. PICK r \in {q \in RuleNames : live[q] # "absent"} \cup {NoRule}, sampled \in BOOLEAN :
        run' = [run EXCEPT ![p] =
                 [pc |-> IF mode = "run" THEN RunBranch(Decision(r, sampled))
                                         ELSE StreamBranch(Decision(r, sampled)),
                  rule |-> r, evaluate |-> Decision(r, sampled).evaluate,
                  fromRule |-> Decision(r, sampled).fromRule, agreed |-> FALSE]]
  BY DEF Handle
<1>. DEFINE d == Decision(r, sampled)
            pc == IF mode = "run" THEN RunBranch(d) ELSE StreamBranch(d)
<1>2. d.rule = r /\ r \in RuleNames \cup {NoRule} /\ d.evaluate \in BOOLEAN /\ d.fromRule \in BOOLEAN
  BY DEF Decision
<1>3. \/ r = NoRule /\ pc = Miss
      \/ r # NoRule /\ d.evaluate /\ pc = "compare"
      \/ r # NoRule /\ pc = "router"
  BY <1>2 DEF RunBranch, StreamBranch
<1>4. \/ Miss = "llmoff" /\ ~LLMOn
      \/ Miss = "classify" /\ ClassifierOn
      \/ Miss = "llm" /\ LLMOn
  BY DEF Miss
<1>5. pc \in {"llmoff", "classify", "llm", "compare", "router"}
  BY <1>3, <1>4
<1>. HIDE DEF d, pc
<1>. DEFINE k == [pc |-> pc, rule |-> r, evaluate |-> d.evaluate,
                  fromRule |-> d.fromRule, agreed |-> FALSE]
<1>6. k \in Records
  BY <1>2, <1>5 DEF Records, PCs
<1>7. run' = [run EXCEPT ![p] = k]
  BY <1>1 DEF d, pc
<1>8. /\ run' \in [Runs -> Records] /\ run'[p] = k
      /\ \A q \in Runs : q # p => run'[q] = run[q]
  <2>. HIDE DEF k
  <2>. QED
    BY <1>6, <1>7, RunMoves DEF IInv
<1>9. /\ UNCHANGED <<rstate, enabled, live, loaded, shadow, logged, audits, corpus, manual, setup>>
      /\ run[p].pc = "idle" /\ nruns < MaxRuns /\ nruns' = nruns + 1
  BY DEF Handle, tableVars, sinkVars, opVars
<1>10. nruns' \in 0..MaxRuns
  BY <1>9, BoundsAssumption DEF IInv, TypeOK
<1>11. TypeOK'
  BY <1>8, <1>9, <1>10 DEF IInv, TypeOK, Records
<1>12. BranchInv' /\ SilentInv' /\ StreakInv' /\ OneAuditRow'
  BY <1>3, <1>4, <1>5, <1>8, <1>9, MoveKeeps
<1>13. PromotionEarned'
  BY <1>9 DEF IInv, PromotionEarned
<1>. QED
  BY <1>11, <1>12, <1>13 DEF IInv

\* The tails.
LEMMA TailSteps ==
  ASSUME IInv, NEW p \in Runs,
         FinishRouter(p) \/ FinishLLMOff(p) \/ Answer(p) \/ Fallback(p)
           \/ (run[p].pc = "classify" /\ Finish(p, "llm_classifier", 1))
  PROVE  IInv'
<1>1. /\ "router" \in Sources /\ "llm" \in Sources /\ "llm_disabled" \in Sources
      /\ "llm_classifier" \in Sources /\ "error" \in Sources
  BY DEF Sources
<1>2. CASE FinishRouter(p)
  <2>1. run[p].pc = "router" /\ Finish(p, "router", 0) /\ "router" \in Reported(p)
    BY <1>2 DEF FinishRouter, IInv, BranchInv, Reported
  <2>. QED
    BY <1>1, <2>1, FinishKeeps
<1>3. CASE FinishLLMOff(p)
  <2>1. run[p].pc = "llmoff" /\ Finish(p, "llm_disabled", 0) /\ "llm_disabled" \in Reported(p)
    BY <1>3 DEF FinishLLMOff, IInv, BranchInv, Reported
  <2>. QED
    BY <1>1, <2>1, FinishKeeps
<1>4. CASE Answer(p)
  <2>1. /\ run[p].pc = "answer" /\ "router" \in Reported(p)
        /\ ~run[p].fromRule => "llm" \in Reported(p)
    BY <1>4 DEF Answer, IInv, BranchInv, Reported
  <2>. QED
    BY <1>1, <1>4, <2>1, FinishKeeps DEF Answer
<1>5. CASE Fallback(p)
  <2>1. run[p].pc = "llm" /\ "llm" \in Reported(p) /\ "error" \in Reported(p)
    BY <1>5 DEF Fallback, IInv, BranchInv, Reported
  <2>. QED
    BY <1>1, <1>5, <2>1, FinishKeeps DEF Fallback
<1>6. CASE run[p].pc = "classify" /\ Finish(p, "llm_classifier", 1)
  <2>1. "llm_classifier" \in Reported(p)
    BY <1>6 DEF IInv, BranchInv, Reported, LLMOn, ClassifierOn
  <2>. QED
    BY <1>1, <1>6, <2>1, FinishKeeps
<1>. QED
  BY <1>2, <1>3, <1>4, <1>5, <1>6

\* The fast tier declines, or the comparison is made or given up.
LEMMA CompareSteps ==
  ASSUME IInv, NEW p \in Runs,
         (run[p].pc = "classify" /\ Goto(p, "llm") /\ Quiet) \/ Compare(p)
  PROVE  IInv'
<1>. DEFINE k == run'[p]
<1>1. UNCHANGED <<rstate, enabled, live, loaded, shadow, logged, audits, corpus, nruns, manual, setup>>
  BY DEF Compare, Quiet, tableVars, sinkVars, opVars
<1>2. /\ run' \in [Runs -> Records]
      /\ run'[p].rule = run[p].rule /\ run'[p].evaluate = run[p].evaluate
      /\ \A q \in Runs : q # p => run'[q] = run[q]
      /\ \/ run[p].pc = "classify" /\ run'[p].pc = "llm"
         \/ run[p].pc = "compare" /\ run'[p].pc = "router"
         \/ run[p].pc = "compare" /\ run'[p].pc = "record" /\ LLMOn
  <2>1. CASE run[p].pc = "classify" /\ Goto(p, "llm")
    BY <2>1, GotoFacts DEF PCs, IInv
  <2>2. CASE run[p].pc = "compare" /\ Goto(p, "router")
    BY <2>2, GotoFacts DEF PCs, IInv
  <2>3. ASSUME NEW agreed \in BOOLEAN, run[p].pc = "compare", LLMOn,
               run' = [run EXCEPT ![p].pc = "record", ![p].agreed = agreed]
        PROVE  /\ run' \in [Runs -> Records]
               /\ run'[p].rule = run[p].rule /\ run'[p].evaluate = run[p].evaluate
               /\ \A q \in Runs : q # p => run'[q] = run[q]
               /\ run'[p].pc = "record"
    BY <2>3 DEF IInv, TypeOK, Records, PCs
  <2>. QED
    BY <2>1, <2>2, <2>3 DEF Compare
<1>3. TypeOK'
  BY <1>1, <1>2 DEF IInv, TypeOK, Records
<1>4. BranchInv' /\ SilentInv' /\ StreakInv' /\ OneAuditRow'
  <2>1. /\ run[p].pc = "classify" => run[p].rule = NoRule /\ LLMOn
        /\ run[p].pc = "compare" => run[p].rule # NoRule /\ run[p].evaluate
    BY DEF IInv, BranchInv, LLMOn, ClassifierOn
  <2>. QED
    BY <1>1, <1>2, <2>1, MoveKeeps
<1>5. PromotionEarned'
  BY <1>1 DEF IInv, PromotionEarned
<1>. QED
  BY <1>3, <1>4, <1>5 DEF IInv

\* The comparison is recorded, or the insert fails.
LEMMA RecordKeeps ==
  ASSUME IInv, NEW p \in Runs, Record(p)
  PROVE  IInv'
<1>1. /\ UNCHANGED <<rstate, enabled, live, loaded, logged, audits, corpus, nruns, manual, setup>>
      /\ run[p].pc = "record" /\ Goto(p, "judge")
  BY DEF Record, tableVars, sinkVars, opVars
<1>2. /\ run' \in [Runs -> Records] /\ run'[p].pc = "judge"
      /\ run'[p].rule = run[p].rule /\ run'[p].evaluate = run[p].evaluate
      /\ \A q \in Runs : q # p => run'[q] = run[q]
  BY <1>1, GotoFacts DEF PCs, IInv
<1>3. run[p].rule \in RuleNames /\ run[p].evaluate /\ LLMOn /\ run[p].agreed \in BOOLEAN
  BY <1>1 DEF IInv, BranchInv, TypeOK
<1>4. /\ shadow' \in [RuleNames -> Seq(BOOLEAN)]
      /\ \A r \in RuleNames : \/ shadow'[r] = shadow[r]
                              \/ shadow'[r] = Append(shadow[r], run[p].agreed)
  <2>1. shadow \in [RuleNames -> Seq(BOOLEAN)]
    BY DEF IInv, TypeOK
  <2>2. CASE UNCHANGED shadow
    BY <2>1, <2>2
  <2>3. CASE shadow' = [shadow EXCEPT ![run[p].rule] = Append(@, run[p].agreed)]
    <3>1. Append(shadow[run[p].rule], run[p].agreed) \in Seq(BOOLEAN)
      BY <1>3, <2>1
    <3>. QED
      BY <1>3, <2>1, <2>3, <3>1
  <2>. QED
    BY <2>2, <2>3 DEF Record
<1>5. \A r \in RuleNames : Earned(shadow[r]) => Earned(shadow'[r])
  <2>. SUFFICES ASSUME NEW r \in RuleNames, Earned(shadow[r])
                PROVE  Earned(shadow'[r])
    OBVIOUS
  <2>1. shadow[r] \in Seq(BOOLEAN)
    BY DEF IInv, TypeOK
  <2>2. Earned(Append(shadow[r], run[p].agreed))
    BY <1>3, <2>1, EarnedGrows
  <2>. QED
    BY <1>4, <2>2
<1>6. TypeOK'
  BY <1>1, <1>2, <1>4 DEF IInv, TypeOK, Records
<1>7. BranchInv' /\ SilentInv' /\ StreakInv' /\ OneAuditRow'
  <2>1. \A r \in RuleNames : Earned(shadow[r]) => Earned(shadow[r])'
    BY <1>5 DEF Earned
  <2>2. run[p].rule # NoRule
    BY <1>3, RulesAssumption
  <2>. QED
    BY <1>1, <1>2, <1>3, <2>1, <2>2, MoveKeeps
<1>8. PromotionEarned'
  <2>. SUFFICES ASSUME NEW r \in Mined, rstate'[r] = "active", r \notin manual'
                PROVE  Earned(shadow'[r])
    BY DEF PromotionEarned, Earned
  <2>1. Earned(shadow[r])
    BY <1>1, EarnedRules DEF IInv
  <2>. QED
    BY <1>5, <2>1 DEF RuleNames
<1>. QED
  BY <1>6, <1>7, <1>8 DEF IInv

\* evaluateLifecycle: a divergence demotes, an agreement reads the streak, and
\* a streak that is long enough leads to the promotion.
LEMMA JudgeKeeps ==
  ASSUME IInv, NEW p \in Runs, Judge(p) \/ Promote(p)
  PROVE  IInv'
<1>. DEFINE r == run[p].rule
<1>1. /\ UNCHANGED <<live, loaded, shadow, logged, audits, corpus, nruns, setup>>
      /\ run[p].pc \in {"judge", "promote"}
  BY DEF Judge, Promote, sinkVars, opVars
<1>2. r \in RuleNames /\ run[p].evaluate /\ LLMOn /\ r # NoRule
  BY <1>1 DEF IInv, BranchInv, TypeOK
<1>3. /\ run' \in [Runs -> Records] /\ run'[p].pc \in {"answer", "promote"}
      /\ run'[p].rule = run[p].rule /\ run'[p].evaluate = run[p].evaluate
      /\ \A q \in Runs : q # p => run'[q] = run[q]
  <2>1. PICK pc \in {"answer", "promote"} : Goto(p, pc)
    BY DEF Judge, Promote
  <2>. QED
    BY <2>1, GotoFacts DEF PCs, IInv
<1>4. run'[p].pc = "promote" => Earned(shadow[r])
  <2>. SUFFICES ASSUME run'[p].pc = "promote"
                PROVE  ShadowStreak(shadow[r]) >= PromoteAfter
    BY <1>2, StreakFacts DEF IInv, TypeOK
  <2>1. ~Goto(p, "answer")
    BY GotoFacts DEF PCs, IInv
  <2>. QED
    BY <2>1 DEF Judge, Promote
<1>5. /\ rstate' \in [RuleNames -> RuleStates] /\ enabled' \in [RuleNames -> BOOLEAN]
      /\ manual' \in SUBSET RuleNames
      /\ \A q \in RuleNames : q # r => rstate'[q] = rstate[q] /\ (q \in manual' <=> q \in manual)
      /\ \/ rstate'[r] = rstate[r] /\ (r \in manual' <=> r \in manual)
         \/ rstate'[r] \in {"absent", "demoted"}
         \/ Earned(shadow[r]) /\ (r \in manual' <=> r \in manual)
  <2>1. CASE UNCHANGED <<tableVars, manual>>
    BY <2>1 DEF IInv, TypeOK, tableVars
  <2>2. CASE SetRuleState(r, "demoted", FALSE) /\ manual' = manual \ {r}
    BY <1>2, <2>2, SetFacts DEF IInv, TypeOK
  <2>3. CASE run[p].pc = "promote" /\ SetRuleState(r, "active", TRUE) /\ manual' = manual
    <3>1. Earned(shadow[r])
      BY <2>3 DEF IInv, StreakInv
    <3>. QED
      BY <1>2, <2>3, <3>1, SetFacts DEF IInv, TypeOK
  <2>. QED
    BY <2>1, <2>2, <2>3 DEF Judge, Promote, Demote, opVars
<1>6. TypeOK'
  BY <1>1, <1>3, <1>5 DEF IInv, TypeOK, Records
<1>7. BranchInv' /\ SilentInv' /\ StreakInv' /\ OneAuditRow'
  <2>1. \A q \in RuleNames : Earned(shadow[q]) => Earned(shadow[q])'
    BY <1>1 DEF Earned
  <2>2. run'[p].pc = "promote" => Earned(shadow[run[p].rule])'
    BY <1>1, <1>2, <1>3, <1>4 DEF Earned
  <2>. QED
    BY <1>1, <1>2, <1>3, <2>1, <2>2, MoveKeeps
<1>8. PromotionEarned'
  <2>. SUFFICES ASSUME NEW q \in Mined, rstate'[q] = "active", q \notin manual'
                PROVE  Earned(shadow'[q])
    BY DEF PromotionEarned, Earned
  <2>1. q \in RuleNames /\ shadow' = shadow
    BY <1>1 DEF RuleNames
  <2>2. Earned(shadow[q])
    BY <1>5, <2>1, EarnedRules DEF IInv
  <2>. QED
    BY <2>1, <2>2
<1>. QED
  BY <1>6, <1>7, <1>8 DEF IInv

\* The caller takes its answer and may come again.
LEMMA ReturnKeeps ==
  ASSUME IInv, NEW p \in Runs, Return(p)
  PROVE  IInv'
<1>1. /\ UNCHANGED <<rstate, enabled, live, loaded, shadow, nruns, manual, setup>>
      /\ run' = [run EXCEPT ![p] = Idle]
      /\ logged' = [logged EXCEPT ![p] = <<>>]
      /\ audits' = [audits EXCEPT ![p] = <<>>]
      /\ corpus' = [corpus EXCEPT ![p] = 0]
  BY DEF Return, tableVars, opVars
<1>2. Idle \in Records /\ Idle.pc = "idle"
  BY DEF Idle, Records, PCs
<1>3. /\ run' \in [Runs -> Records] /\ run'[p] = Idle
      /\ \A q \in Runs : q # p => run'[q] = run[q]
  BY <1>1, <1>2, RunMoves DEF IInv
<1>4. /\ logged' \in [Runs -> Seq(Sources)] /\ logged'[p] = <<>>
      /\ audits' \in [Runs -> Seq(Sources)] /\ audits'[p] = <<>>
      /\ corpus' \in [Runs -> 0..1] /\ corpus'[p] = 0
      /\ \A q \in Runs : q # p => /\ logged'[q] = logged[q] /\ audits'[q] = audits[q]
                                  /\ corpus'[q] = corpus[q]
  <2>1. <<>> \in Seq(Sources) /\ 0 \in 0..1
    OBVIOUS
  <2>. QED
    BY <1>1, <2>1 DEF IInv, TypeOK
<1>5. TypeOK'
  BY <1>1, <1>3, <1>4 DEF IInv, TypeOK, Records
<1>6. BranchInv'
  BY <1>1, <1>2, <1>3 DEF IInv, BranchInv, LLMOn, ClassifierOn
<1>7. SilentInv' /\ StreakInv'
  BY <1>1, <1>2, <1>3, <1>4 DEF IInv, SilentInv, StreakInv
<1>8. OneAuditRow'
  BY <1>1, <1>2, <1>3, <1>4 DEF IInv, OneAuditRow, Reported, LLMOn, ClassifierOn
<1>9. PromotionEarned'
  BY <1>1 DEF IInv, PromotionEarned
<1>. QED
  BY <1>5, <1>6, <1>7, <1>8, <1>9 DEF IInv

\* Every step of the engine and of those that share its table preserves the
\* inductive invariant.
LEMMA StepIInv == IInv /\ [Next]_vars => IInv'
<1>. SUFFICES ASSUME IInv, [Next]_vars PROVE IInv'
  OBVIOUS
<1>1. CASE UNCHANGED vars
  BY <1>1 DEF vars, tableVars, runVars, sinkVars, opVars, IInv, TypeOK, BranchInv, SilentInv, StreakInv,
              OneAuditRow, PromotionEarned, Reported, LLMOn, ClassifierOn
<1>2. ASSUME NEW p \in Runs, RunStep(p) \/ \E mode \in {"run", "stream"} : Handle(p, mode)
      PROVE  IInv'
  BY <1>2, HandleKeeps, TailSteps, CompareSteps, RecordKeeps, JudgeKeeps, ReturnKeeps
     DEF RunStep, Classify
<1>3. setup.callers \subseteq Runs
  BY SetupsAssumption DEF IInv, TypeOK, SetupType
<1>. QED
  BY <1>1, <1>2, <1>3, TableSteps DEF Next

\* The inductive invariant holds in every reachable state.
LEMMA Inductive == Spec => []IInv
BY InitIInv, StepIInv, PTL DEF Spec

-----------------------------------------------------------------------------
(* The results.                                                            *)

\* The variables of the engine keep their types; in particular a run never
\* leaves a second corpus row.
THEOREM TypeCorrect == Spec => []TypeOK
<1>1. IInv => TypeOK
  BY DEF IInv
<1>. QED
  BY <1>1, Inductive, PTL

\* The audit contract of Run and RunStreaming: a run that is over has logged
\* exactly one audit line, whose source its decision calls for; its audit row
\* says the same and its corpus row is there exactly when the LLM chose the
\* tools, except that either row, and never the line, may be missing where
\* store calls fail: exec drops the error of a write it could not queue.
THEOREM RunsAreAuditedOnce == Spec => []OneAuditRow
<1>1. IInv => OneAuditRow
  BY DEF IInv
<1>. QED
  BY <1>1, Inductive, PTL

\* evaluateLifecycle: a mined rule is active only by the operator's hand or
\* after PromoteAfter comparisons in a row agreed, however the streak's read,
\* the row's write and other runs' comparisons interleave.
THEOREM PromotionsAreEarned == Spec => []PromotionEarned
<1>1. IInv => PromotionEarned
  BY DEF IInv
<1>. QED
  BY <1>1, Inductive, PTL
=============================================================================
