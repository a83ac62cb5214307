-------------------------- MODULE ApprovalsProofs --------------------------
(***************************************************************************)
(* Proofs about the approval gate, for any number of workers, commands,    *)
(* presses and crashes, with and without faults: type correctness, that a  *)
(* gated action runs at most once and only on an approved request, that    *)
(* decisions are final, and that a request keeps its buttons until then.   *)
(***************************************************************************)
EXTENDS Approvals, TLAPS

-----------------------------------------------------------------------------
(* The inductive invariant.                                                *)

\* Worker w is inside RunGated: it polls its request or is about to call fn.
InGate(w) == worker[w].pc \in {"wait", "run"}

\* What RunGated knows while it runs: its request is its own and has not been
\* run, and once it has read "approved" the row stays so.
GateInv ==
    /\ \A w \in Workers : InGate(w) => executed[worker[w].id] = 0
    /\ \A w \in Workers : worker[w].pc = "run" => ledger[worker[w].id] = "approved"
    /\ \A v, w \in Workers :
          v # w /\ InGate(v) /\ InGate(w) => worker[v].id # worker[w].id

IInv == TypeOK /\ GateInv /\ RunsOnlyApproved

-----------------------------------------------------------------------------
(* Facts about the data.                                                   *)

\* A sequence over a set is one over every larger set: the edit queue when a
\* request is added.
LEMMA SeqGrows ==
  ASSUME NEW S, NEW T, S \subseteq T, NEW s \in Seq(S)
  PROVE  s \in Seq(T)
<1>1. Len(s) \in Nat /\ s \in [1..Len(s) -> S]
  OBVIOUS
<1>2. s \in [1..Len(s) -> T]
  BY <1>1
<1>. QED
  BY <1>1, <1>2

\* DecideApproval writes a verdict into a pending row and leaves the rest of
\* the ledger alone.
LEMMA DecideFacts ==
  ASSUME LedgerType, NEW id, NEW v \in Verdicts, DecideApproval(id, v)
  PROVE  /\ ledger' \in Seq(States)
         /\ Len(ledger') = Len(ledger)
         /\ \A i \in Ids : ledger[i] # "pending" => ledger'[i] = ledger[i]
<1>1. CASE Decidable(id)
  <2>1. ledger' = [ledger EXCEPT ![id] = v] /\ id \in 1..Len(ledger) /\ ledger[id] = "pending"
    BY <1>1 DEF DecideApproval, Decidable, Ids
  <2>2. ledger \in Seq(States) /\ v \in States
    BY DEF LedgerType, States
  <2>. QED
    BY <2>1, <2>2 DEF Ids
<1>2. CASE ~Decidable(id)
  BY <1>2 DEF DecideApproval, LedgerType
<1>. QED
  BY <1>1, <1>2

\* What a step that may decide requests but neither adds nor runs one keeps.
LEMMA DecideKeeps ==
  ASSUME IInv, NEW id, NEW v \in Verdicts, DecideApproval(id, v), UNCHANGED executed
  PROVE  /\ RunsOnlyApproved'
         /\ Ids' = Ids
         /\ \A w \in Workers : worker[w].pc = "run" => ledger'[worker[w].id] = "approved"
<1>1. /\ ledger' \in Seq(States) /\ Len(ledger') = Len(ledger)
      /\ \A i \in Ids : ledger[i] # "pending" => ledger'[i] = ledger[i]
  BY DecideFacts DEF IInv, TypeOK
<1>2. Ids' = Ids
  BY <1>1 DEF Ids
<1>3. ASSUME NEW i \in Ids
      PROVE  executed'[i] <= (IF ledger'[i] = "approved" THEN 1 ELSE 0)
  <2>1. executed[i] \in Nat /\ executed[i] <= (IF ledger[i] = "approved" THEN 1 ELSE 0)
    BY DEF IInv, RunsOnlyApproved, TypeOK, LedgerType, Ids
  <2>2. CASE ledger[i] = "approved"
    BY <1>1, <2>1, <2>2
  <2>3. CASE ledger[i] # "approved"
    BY <2>1, <2>3
  <2>. QED
    BY <2>2, <2>3
<1>4. ASSUME NEW w \in Workers, worker[w].pc = "run"
      PROVE  ledger'[worker[w].id] = "approved"
  <2>1. worker[w].id \in Ids /\ ledger[worker[w].id] = "approved"
    BY <1>4 DEF IInv, GateInv, TypeOK, WorkerType
  <2>. QED
    BY <1>1, <2>1
<1>. QED
  BY <1>2, <1>3, <1>4 DEF RunsOnlyApproved

\* The worker's record after an assignment to one of its fields.
LEMMA WorkerMoves ==
  ASSUME WorkerType, NEW w \in Workers,
         NEW pc \in {"idle", "wait", "run", "claim"}, NEW todo \in SUBSET (1..Len(rows)),
         NEW row \in Nat, NEW id \in Nat,
         worker' = [worker EXCEPT ![w] = [pc |-> pc, todo |-> todo, row |-> row, id |-> id]]
  PROVE  /\ worker' \in [Workers -> [pc : {"idle", "wait", "run", "claim"},
                                     todo : SUBSET (1..Len(rows)), row : Nat, id : Nat]]
         /\ worker'[w] = [pc |-> pc, todo |-> todo, row |-> row, id |-> id]
         /\ \A v \in Workers : v # w => worker'[v] = worker[v]
BY DEF WorkerType

\* ... and after an assignment to its program counter only.
LEMMA PcMoves ==
  ASSUME WorkerType, NEW w \in Workers, NEW pc \in {"idle", "wait", "run", "claim"},
         worker' = [worker EXCEPT ![w].pc = pc]
  PROVE  /\ worker' \in [Workers -> [pc : {"idle", "wait", "run", "claim"},
                                     todo : SUBSET (1..Len(rows)), row : Nat, id : Nat]]
         /\ worker'[w].pc = pc /\ worker'[w].row = worker[w].row /\ worker'[w].id = worker[w].id
         /\ \A v \in Workers : v # w => worker'[v] = worker[v]
BY DEF WorkerType

\* Worker w is outside its gate after the step and nobody else has moved.
LEMMA GateKeeps ==
  ASSUME IInv, NEW w \in Workers,
         \A v \in Workers : v # w => worker'[v] = worker[v],
         worker'[w].pc \in {"idle", "claim"},
         \A v \in Workers \ {w} : InGate(v) => executed'[worker[v].id] = 0,
         \A v \in Workers \ {w} : worker[v].pc = "run" => ledger'[worker[v].id] = "approved"
  PROVE  GateInv'
<1>1. \A v \in Workers : InGate(v)' => v # w /\ InGate(v) /\ worker'[v] = worker[v]
  BY DEF InGate
<1>2. \A v \in Workers : InGate(v)' => executed'[worker'[v].id] = 0
  BY <1>1
<1>3. \A v \in Workers : worker'[v].pc = "run" => ledger'[worker'[v].id] = "approved"
  BY <1>1 DEF InGate
<1>4. \A u, v \in Workers : u # v /\ InGate(u)' /\ InGate(v)' => worker'[u].id # worker'[v].id
  BY <1>1 DEF IInv, GateInv
<1>. QED
  BY <1>2, <1>3, <1>4 DEF GateInv

\* Notifier, chat and editor stay well typed when only requests are added.
LEMMA ChatKeeps ==
  ASSUME ChatType, LedgerType, LedgerType', Len(ledger') >= Len(ledger),
         UNCHANGED <<notifyVars, chatVars, editVars, bootVars>>
  PROVE  ChatType'
<1>1. Ids \subseteq Ids' /\ Len(ledger) \in Nat /\ Len(ledger') \in Nat
  BY DEF Ids, LedgerType
<1>2. edits \in Seq(Ids')
  BY <1>1, SeqGrows DEF ChatType
<1>. QED
  BY <1>1, <1>2 DEF ChatType, notifyVars, chatVars, bootVars, editVars

-----------------------------------------------------------------------------

\* The inductive invariant holds after Open on an empty database.
LEMMA InitIInv == Init => IInv
<1>. SUFFICES ASSUME Init PROVE IInv
  OBVIOUS
<1>1. LedgerType
  BY DEF Init, LedgerType
<1>2. WorkerType
  BY DEF Init, WorkerType, Idle
<1>3. ChatType
  <2>1. seen \in 0..Len(ledger) /\ edits \in Seq(Ids)
    BY DEF Init
  <2>2. tick \subseteq Ids /\ targets \subseteq Ids /\ buttons \subseteq Ids
    BY DEF Init
  <2>3. wake \in BOOLEAN /\ editor \in {"waiting", "draining", "returned"}
    BY DEF Init
  <2>4. restarts \in 0..MaxRestarts
    BY BoundsAssumption DEF Init
  <2>. QED
    BY <2>1, <2>2, <2>3, <2>4 DEF ChatType
<1>4. GateInv /\ RunsOnlyApproved
  BY DEF Init, GateInv, InGate, Idle, RunsOnlyApproved, Ids
<1>. QED
  BY <1>1, <1>2, <1>3, <1>4 DEF IInv, TypeOK

\* The steps of the user and of REST clients.
LEMMA UserSteps ==
  ASSUME IInv,
         SendGate \/ \E id \in Ids, v \in Verdicts : Press(id, v) \/ RestDecide(id, v)
  PROVE  IInv'
<1>. USE DEF IInv, TypeOK
<1>1. ASSUME NEW row \in Rows, rows' = Append(rows, row),
             UNCHANGED <<ledger, executed, worker, notifyVars, chatVars, editVars, bootVars>>
      PROVE  IInv'
  <2>1. LedgerType' /\ Len(rows') = Len(rows) + 1 /\ Len(rows) \in Nat
    BY <1>1 DEF LedgerType
  <2>2. WorkerType'
    <3>1. 1..Len(rows) \subseteq 1..Len(rows')
      BY <2>1
    <3>. QED
      BY <1>1, <3>1 DEF WorkerType, Ids
  <2>3. ChatType'
    BY <1>1, <2>1, ChatKeeps DEF LedgerType
  <2>4. GateInv' /\ RunsOnlyApproved'
    BY <1>1 DEF GateInv, InGate, RunsOnlyApproved, Ids
  <2>. QED
    BY <2>1, <2>2, <2>3, <2>4
<1>2. CASE SendGate
  BY <1>1, <1>2 DEF SendGate, Row, Rows, Verdicts
<1>3. ASSUME NEW id \in Ids, NEW v \in Verdicts, Press(id, v)
      PROVE  IInv'
  <2>1. Row("press", id, v) \in Rows
    BY DEF Row, Rows, Ids
  <2>. QED
    BY <1>1, <1>3, <2>1 DEF Press
<1>4. ASSUME NEW id \in Ids, NEW v \in Verdicts, RestDecide(id, v)
      PROVE  IInv'
  <2>1. DecideApproval(id, v)
        /\ UNCHANGED <<rows, executed, worker, notifyVars, chatVars, editVars, bootVars>>
    BY <1>4 DEF RestDecide
  <2>2. LedgerType' /\ Len(ledger') = Len(ledger) /\ Len(ledger) \in Nat
    BY <2>1, DecideFacts DEF LedgerType
  <2>3. WorkerType'
    BY <2>1, <2>2 DEF WorkerType, Ids
  <2>4. ChatType'
    BY <2>1, <2>2, ChatKeeps
  <2>5. RunsOnlyApproved'
    BY <2>1, DecideKeeps
  <2>6. GateInv'
    <3>1. \A w \in Workers : worker[w].pc = "run" => ledger'[worker[w].id] = "approved"
      BY <2>1, DecideKeeps
    <3>. QED
      BY <2>1, <3>1 DEF GateInv, InGate
  <2>. QED
    BY <2>2, <2>3, <2>4, <2>5, <2>6
<1>. QED
  BY <1>2, <1>3, <1>4

\* A worker reads its list, or takes its next row: a gate or a press.
LEMMA TakeSteps ==
  ASSUME IInv, NEW w \in Workers,
         WorkerRead(w) \/ \E r \in 1..Len(rows) : StartGate(w, r) \/ HandlePress(w, r)
  PROVE  IInv'
<1>. USE DEF IInv, TypeOK
<1>1. CASE WorkerRead(w)
  <2>1. worker' \in [Workers -> [pc : {"idle", "wait", "run", "claim"},
                                 todo : SUBSET (1..Len(rows)), row : Nat, id : Nat]]
    BY <1>1 DEF WorkerRead, PendingRows, WorkerType
  <2>2. /\ worker'[w].pc = "idle"
        /\ \A v \in Workers : v # w => worker'[v] = worker[v]
    BY <1>1 DEF WorkerRead, WorkerType
  <2>3. UNCHANGED <<rows, ledger, executed, notifyVars, chatVars, editVars, bootVars>>
    BY <1>1 DEF WorkerRead
  <2>4. LedgerType' /\ ChatType' /\ RunsOnlyApproved'
    BY <2>3 DEF LedgerType, ChatType, RunsOnlyApproved, notifyVars, chatVars, bootVars, editVars, Ids
  <2>5. WorkerType'
    BY <2>1, <2>2, <2>3 DEF WorkerType, Ids
  <2>6. GateInv'
    BY <2>2, <2>3, GateKeeps DEF GateInv
  <2>. QED
    BY <2>4, <2>5, <2>6
<1>2. ASSUME NEW r \in 1..Len(rows), StartGate(w, r), ledger' = Append(ledger, "pending"),
             executed' = Append(executed, 0), TakeRow(w, r, "wait", Len(ledger) + 1)
      PROVE  IInv'
  <2>1. UNCHANGED <<rows, notifyVars, chatVars, editVars, bootVars>>
    BY <1>2 DEF StartGate
  <2>2. /\ ledger' \in Seq(States) /\ Len(ledger') = Len(ledger) + 1 /\ Len(ledger) \in Nat
        /\ ledger'[Len(ledger) + 1] = "pending"
        /\ \A i \in 1..Len(ledger) : ledger'[i] = ledger[i]
    BY <1>2 DEF LedgerType, States
  <2>3. /\ executed' \in Seq(Nat) /\ Len(executed') = Len(ledger) + 1
        /\ executed'[Len(ledger) + 1] = 0
        /\ \A i \in 1..Len(ledger) : executed'[i] = executed[i]
    BY <1>2 DEF LedgerType
  <2>4. LedgerType'
    BY <2>1, <2>2, <2>3 DEF LedgerType
  <2>5. /\ worker' \in [Workers -> [pc : {"idle", "wait", "run", "claim"},
                                    todo : SUBSET (1..Len(rows)), row : Nat, id : Nat]]
        /\ worker'[w].pc = "wait" /\ worker'[w].row = r /\ worker'[w].id = Len(ledger) + 1
        /\ \A v \in Workers : v # w => worker'[v] = worker[v]
    <3>1. worker[w].todo \ {r} \in SUBSET (1..Len(rows)) /\ r \in Nat /\ Len(ledger) + 1 \in Nat
      BY <2>2 DEF WorkerType, LedgerType
    <3>2. worker' = [worker EXCEPT ![w] = [pc |-> "wait", todo |-> worker[w].todo \ {r},
                                           row |-> r, id |-> Len(ledger) + 1]]
      BY <1>2 DEF TakeRow, WorkerType
    <3>. QED
      BY <3>1, <3>2, WorkerMoves
  <2>6. WorkerType'
    <3>1. rows' = rows /\ Ids \subseteq Ids' /\ Len(ledger) + 1 \in Ids'
      BY <2>1, <2>2 DEF Ids
    <3>2. \A v \in Workers : worker'[v].pc # "idle" => worker'[v].row \in 1..Len(rows)
      BY <2>5 DEF WorkerType
    <3>3. \A v \in Workers : worker'[v].pc \in {"wait", "run"} => worker'[v].id \in Ids'
      BY <2>5, <3>1 DEF WorkerType
    <3>. QED
      BY <2>5, <3>1, <3>2, <3>3 DEF WorkerType
  <2>7. ChatType'
    BY <2>1, <2>2, <2>4, ChatKeeps
  <2>8. RunsOnlyApproved'
    BY <2>2, <2>3 DEF RunsOnlyApproved, Ids
  <2>9. GateInv'
    <3>1. \A v \in Workers : v # w /\ InGate(v)' =>
            InGate(v) /\ worker'[v] = worker[v] /\ worker[v].id \in 1..Len(ledger)
      BY <2>5 DEF InGate, WorkerType, Ids
    <3>2. \A v \in Workers : InGate(v)' => executed'[worker'[v].id] = 0
      BY <2>3, <2>5, <3>1 DEF GateInv
    <3>3. \A v \in Workers : worker'[v].pc = "run" => ledger'[worker'[v].id] = "approved"
      BY <2>2, <2>5, <3>1 DEF GateInv, InGate
    <3>4. \A u, v \in Workers : u # v /\ InGate(u)' /\ InGate(v)' => worker'[u].id # worker'[v].id
      BY <2>2, <2>5, <3>1 DEF GateInv
    <3>. QED
      BY <3>2, <3>3, <3>4 DEF GateInv
  <2>. QED
    BY <2>4, <2>6, <2>7, <2>8, <2>9
<1>3. ASSUME NEW r \in 1..Len(rows), NEW id \in Nat, TakeRow(w, r, "claim", id),
             UNCHANGED rows, Ids' = Ids
      PROVE  /\ WorkerType'
             /\ worker'[w].pc = "claim"
             /\ \A v \in Workers : v # w => worker'[v] = worker[v]
  <2>1. worker[w].todo \ {r} \in SUBSET (1..Len(rows)) /\ r \in Nat
    BY DEF WorkerType, LedgerType
  <2>2. worker' = [worker EXCEPT ![w] = [pc |-> "claim", todo |-> worker[w].todo \ {r},
                                         row |-> r, id |-> id]]
    BY <1>3 DEF TakeRow, WorkerType
  <2>3. /\ worker' \in [Workers -> [pc : {"idle", "wait", "run", "claim"},
                                    todo : SUBSET (1..Len(rows)), row : Nat, id : Nat]]
        /\ worker'[w] = [pc |-> "claim", todo |-> worker[w].todo \ {r}, row |-> r, id |-> id]
        /\ \A v \in Workers : v # w => worker'[v] = worker[v]
    BY <2>1, <2>2, WorkerMoves
  <2>4. \A v \in Workers : worker'[v].pc # "idle" => worker'[v].row \in 1..Len(rows)
    BY <2>3 DEF WorkerType
  <2>5. \A v \in Workers : worker'[v].pc \in {"wait", "run"} => worker'[v].id \in Ids
    BY <2>3 DEF WorkerType
  <2>. QED
    BY <1>3, <2>3, <2>4, <2>5 DEF WorkerType
<1>4. ASSUME NEW r \in 1..Len(rows), StartGate(w, r), TakeRow(w, r, "claim", 0),
             UNCHANGED <<ledger, executed>>
      PROVE  IInv'
  <2>1. UNCHANGED <<rows, notifyVars, chatVars, editVars, bootVars>>
    BY <1>4 DEF StartGate
  <2>2. LedgerType' /\ ChatType' /\ RunsOnlyApproved'
    BY <1>4, <2>1 DEF LedgerType, ChatType, RunsOnlyApproved, notifyVars, chatVars, bootVars, editVars, Ids
  <2>3. WorkerType' /\ worker'[w].pc = "claim" /\ \A v \in Workers : v # w => worker'[v] = worker[v]
    BY <1>3, <1>4, <2>1 DEF Ids
  <2>4. GateInv'
    BY <1>4, <2>3, GateKeeps DEF GateInv
  <2>. QED
    BY <2>2, <2>3, <2>4
<1>5. ASSUME NEW r \in 1..Len(rows), HandlePress(w, r)
      PROVE  IInv'
  <2>1. rows[r].id \in Nat /\ rows[r].verdict \in Verdicts
    <3>1. rows[r] \in Rows
      BY DEF LedgerType
    <3>. QED
      BY <3>1 DEF Rows
  <2>2. UNCHANGED <<rows, executed, notifyVars, chatVars, editor, bootVars>>
        /\ TakeRow(w, r, "claim", rows[r].id)
    BY <1>5 DEF HandlePress
  <2>3. /\ LedgerType' /\ Len(ledger') = Len(ledger) /\ Ids' = Ids /\ RunsOnlyApproved'
        /\ \A v \in Workers : worker[v].pc = "run" => ledger'[worker[v].id] = "approved"
    <3>1. CASE DecideApproval(rows[r].id, rows[r].verdict)
      BY <2>1, <2>2, <3>1, DecideFacts, DecideKeeps DEF LedgerType
    <3>2. CASE UNCHANGED ledger
      BY <2>2, <3>2 DEF LedgerType, RunsOnlyApproved, Ids, GateInv
    <3>. QED
      BY <1>5, <3>1, <3>2 DEF HandlePress
  <2>4. edits' \in Seq(Ids) /\ wake' \in BOOLEAN
    <3>1. CASE OnDecided(rows[r].id, Decidable(rows[r].id))
      <4>1. CASE Decidable(rows[r].id)
        BY <3>1, <4>1, rows[r].id \in Ids, edits \in Seq(Ids) DEF OnDecided, Decidable, ChatType
      <4>2. CASE ~Decidable(rows[r].id)
        BY <3>1, <4>2 DEF OnDecided, ChatType
      <4>. QED
        BY <4>1, <4>2
    <3>2. CASE OnDecided(rows[r].id, FALSE)
      BY <3>2 DEF OnDecided, ChatType
    <3>. QED
      BY <1>5, <3>1, <3>2 DEF HandlePress
  <2>5. ChatType'
    BY <2>2, <2>3, <2>4 DEF ChatType, notifyVars, chatVars, bootVars
  <2>6. WorkerType' /\ worker'[w].pc = "claim" /\ \A v \in Workers : v # w => worker'[v] = worker[v]
    BY <1>3, <2>1, <2>2, <2>3
  <2>7. GateInv'
    BY <2>2, <2>3, <2>6, GateKeeps DEF GateInv
  <2>. QED
    BY <2>3, <2>5, <2>6, <2>7
<1>. QED
  BY <1>1, <1>2, <1>4, <1>5 DEF StartGate

\* A worker inside a gate polls, gives up or runs the action, and replies.
LEMMA GateSteps ==
  ASSUME IInv, NEW w \in Workers,
         GatePoll(w) \/ GateTimeout(w) \/ GateRun(w) \/ ClaimReply(w)
  PROVE  IInv'
<1>. USE DEF IInv, TypeOK
<1>1. ASSUME NEW pc \in {"run", "claim"}, worker' = [worker EXCEPT ![w].pc = pc],
             InGate(w), UNCHANGED rows, Ids' = Ids
      PROVE  /\ WorkerType'
             /\ worker'[w].pc = pc /\ worker'[w].id = worker[w].id
             /\ \A v \in Workers : v # w => worker'[v] = worker[v]
  <2>1. /\ worker' \in [Workers -> [pc : {"idle", "wait", "run", "claim"},
                                    todo : SUBSET (1..Len(rows)), row : Nat, id : Nat]]
        /\ worker'[w].pc = pc /\ worker'[w].row = worker[w].row /\ worker'[w].id = worker[w].id
        /\ \A v \in Workers : v # w => worker'[v] = worker[v]
    BY <1>1, PcMoves
  <2>2. \A v \in Workers : worker'[v].pc # "idle" => worker'[v].row \in 1..Len(rows)
    BY <1>1, <2>1 DEF WorkerType, InGate
  <2>3. \A v \in Workers : worker'[v].pc \in {"wait", "run"} => worker'[v].id \in Ids
    BY <1>1, <2>1 DEF WorkerType, InGate
  <2>. QED
    BY <1>1, <2>1, <2>2, <2>3 DEF WorkerType
<1>2. ASSUME InGate(w), Answer(w),
             UNCHANGED <<rows, ledger, executed, notifyVars, chatVars, editVars, bootVars>>
      PROVE  IInv'
  <2>1. LedgerType' /\ ChatType' /\ RunsOnlyApproved' /\ Ids' = Ids
    BY <1>2 DEF LedgerType, ChatType, RunsOnlyApproved, notifyVars, chatVars, bootVars, editVars, Ids
  <2>2. WorkerType' /\ worker'[w].pc = "claim" /\ \A v \in Workers : v # w => worker'[v] = worker[v]
    BY <1>1, <1>2, <2>1 DEF Answer
  <2>3. GateInv'
    BY <1>2, <2>2, GateKeeps DEF GateInv
  <2>. QED
    BY <2>1, <2>2, <2>3
<1>3. ASSUME worker[w].pc = "wait", ledger[worker[w].id] = "approved",
             worker' = [worker EXCEPT ![w].pc = "run"],
             UNCHANGED <<rows, ledger, executed, notifyVars, chatVars, editVars, bootVars>>
      PROVE  IInv'
  <2>1. LedgerType' /\ ChatType' /\ RunsOnlyApproved' /\ Ids' = Ids
    BY <1>3 DEF LedgerType, ChatType, RunsOnlyApproved, notifyVars, chatVars, bootVars, editVars, Ids
  <2>2. /\ WorkerType' /\ worker'[w].pc = "run" /\ worker'[w].id = worker[w].id
        /\ \A v \in Workers : v # w => worker'[v] = worker[v]
    BY <1>1, <1>3, <2>1 DEF InGate
  <2>3. \A v \in Workers : InGate(v)' => InGate(v) /\ worker'[v].id = worker[v].id
    BY <1>3, <2>2 DEF InGate
  <2>4. \A v \in Workers : worker'[v].pc = "run" => ledger'[worker'[v].id] = "approved"
    BY <1>3, <2>2 DEF GateInv
  <2>5. GateInv'
    BY <1>3, <2>3, <2>4 DEF GateInv
  <2>. QED
    BY <2>1, <2>2, <2>5
<1>4. CASE GatePoll(w)
  BY <1>2, <1>3, <1>4 DEF GatePoll, Granted, InGate
<1>5. CASE GateTimeout(w)
  BY <1>2, <1>5 DEF GateTimeout, InGate
<1>6. CASE GateRun(w)
  <2>1. /\ worker[w].pc = "run" /\ InGate(w) /\ Answer(w)
        /\ executed' = [executed EXCEPT ![worker[w].id] = @ + 1]
        /\ UNCHANGED <<rows, ledger, notifyVars, chatVars, editVars, bootVars>>
    BY <1>6 DEF GateRun, InGate
  <2>2. worker[w].id \in 1..Len(executed) /\ ledger[worker[w].id] = "approved"
        /\ executed[worker[w].id] = 0
    BY <2>1 DEF WorkerType, LedgerType, GateInv, Ids
  <2>3. /\ executed' \in Seq(Nat) /\ Len(executed') = Len(executed)
        /\ executed'[worker[w].id] = 1
        /\ \A i \in 1..Len(executed) : i # worker[w].id => executed'[i] = executed[i]
    BY <2>1, <2>2 DEF LedgerType
  <2>4. LedgerType' /\ ChatType' /\ Ids' = Ids
    BY <2>1, <2>3 DEF LedgerType, ChatType, notifyVars, chatVars, bootVars, editVars, Ids
  <2>5. WorkerType' /\ worker'[w].pc = "claim" /\ \A v \in Workers : v # w => worker'[v] = worker[v]
    BY <1>1, <2>1, <2>4 DEF Answer
  <2>6. RunsOnlyApproved'
    BY <2>1, <2>2, <2>3, <2>4 DEF RunsOnlyApproved, Ids, LedgerType
  <2>7. \A v \in Workers \ {w} : InGate(v) => executed'[worker[v].id] = 0
    BY <2>1, <2>3 DEF GateInv, InGate, WorkerType, LedgerType, Ids
  <2>8. GateInv'
    BY <2>1, <2>5, <2>7, GateKeeps DEF GateInv
  <2>. QED
    BY <2>4, <2>5, <2>6, <2>8
<1>7. CASE ClaimReply(w)
  <2>1. /\ worker[w].pc = "claim"
        /\ rows' = [rows EXCEPT ![worker[w].row].done = TRUE]
        /\ worker' = [worker EXCEPT ![w] = [Idle EXCEPT !.todo = worker[w].todo]]
        /\ UNCHANGED <<ledger, executed, notifyVars, chatVars, editVars, bootVars>>
    BY <1>7 DEF ClaimReply
  <2>2. rows' \in Seq(Rows) /\ Len(rows') = Len(rows)
    <3>1. worker[w].row \in 1..Len(rows) /\ rows \in Seq(Rows)
      BY <2>1 DEF WorkerType, LedgerType
    <3>2. [rows[worker[w].row] EXCEPT !.done = TRUE] \in Rows
      <4>1. rows[worker[w].row] \in Rows
        BY <3>1
      <4>. QED
        BY <4>1 DEF Rows
    <3>. QED
      BY <2>1, <3>1, <3>2
  <2>3. LedgerType' /\ ChatType' /\ RunsOnlyApproved' /\ Ids' = Ids
    BY <2>1, <2>2 DEF LedgerType, ChatType, RunsOnlyApproved, notifyVars, chatVars, bootVars, editVars, Ids
  <2>4. /\ worker' \in [Workers -> [pc : {"idle", "wait", "run", "claim"},
                                    todo : SUBSET (1..Len(rows)), row : Nat, id : Nat]]
        /\ worker'[w].pc = "idle"
        /\ \A v \in Workers : v # w => worker'[v] = worker[v]
    <3>1. worker' = [worker EXCEPT ![w] = [pc |-> "idle", todo |-> worker[w].todo,
                                           row |-> 0, id |-> 0]]
      <4>1. [Idle EXCEPT !.todo = worker[w].todo] =
              [pc |-> "idle", todo |-> worker[w].todo, row |-> 0, id |-> 0]
        BY DEF Idle
      <4>. QED
        BY <2>1, <4>1
    <3>2. worker[w].todo \in SUBSET (1..Len(rows))
      BY DEF WorkerType
    <3>. QED
      BY <3>1, <3>2, WorkerMoves
  <2>5. WorkerType'
    BY <2>2, <2>3, <2>4 DEF WorkerType
  <2>6. GateInv'
    BY <2>1, <2>4, GateKeeps DEF GateInv
  <2>. QED
    BY <2>3, <2>5, <2>6
<1>. QED
  BY <1>4, <1>5, <1>6, <1>7

\* The notifier, the editor and a restart do not touch ledger and gates.
LEMMA BackgroundSteps ==
  ASSUME IInv, NotifierStep \/ EditorStep \/ Restart
  PROVE  IInv'
<1>. USE DEF IInv, TypeOK
<1>1. UNCHANGED <<rows, ledger, executed>>
  BY DEF NotifierStep, NotifierTick, Notify, MaybeRemind,
         EditorStep, EditorWake, EditorApply, EditorReturn, Restart
<1>2. LedgerType' /\ RunsOnlyApproved' /\ Ids' = Ids
  BY <1>1 DEF LedgerType, RunsOnlyApproved, Ids
<1>3. WorkerType' /\ GateInv'
  <2>1. CASE UNCHANGED worker
    BY <1>1, <1>2, <2>1 DEF WorkerType, GateInv, InGate
  <2>2. CASE worker' = [w \in Workers |-> Idle]
    BY <1>1, <1>2, <2>2 DEF WorkerType, GateInv, InGate, Idle
  <2>. QED
    BY <2>1, <2>2 DEF NotifierStep, NotifierTick, Notify, MaybeRemind,
         EditorStep, EditorWake, EditorApply, EditorReturn, Restart
<1>4. PendingApprovals \subseteq Ids
  BY DEF PendingApprovals
<1>5. CASE NotifierStep
  <2>1. ASSUME NotifierTick PROVE ChatType'
    BY <1>1, <1>2, <1>4, <2>1 DEF NotifierTick, ChatType, chatVars, bootVars, editVars
  <2>2. ASSUME NEW id \in Ids, Notify(id) \/ MaybeRemind(id)
        PROVE  ChatType'
    <3>1. seen' \in 0..Len(ledger)
      BY <2>2 DEF Notify, MaybeRemind, NextSeen, ChatType, Ids, LedgerType
    <3>2. tick' \subseteq Ids /\ targets' \subseteq Ids /\ buttons' \subseteq Ids
      BY <2>2 DEF Notify, MaybeRemind, Announce, AnnounceFails, ChatType, chatVars, bootVars
    <3>3. UNCHANGED <<edits, wake, editor, bootVars>>
      BY <2>2 DEF Notify, MaybeRemind, editVars
    <3>. QED
      BY <1>1, <1>2, <3>1, <3>2, <3>3 DEF ChatType, bootVars
  <2>. QED
    BY <1>2, <1>3, <1>5, <2>1, <2>2 DEF NotifierStep
<1>6. CASE EditorStep
  <2>1. UNCHANGED <<seen, tick, targets, bootVars>>
    BY <1>6 DEF EditorStep, EditorWake, EditorApply, EditorReturn, notifyVars, chatVars, bootVars
  <2>2. buttons' \subseteq Ids /\ wake' \in BOOLEAN /\ editor' \in {"waiting", "draining", "returned"}
    BY <1>6 DEF EditorStep, EditorWake, EditorApply, EditorReturn, ChatType, chatVars, bootVars
  <2>3. edits' \in Seq(Ids)
    BY <1>6 DEF EditorStep, EditorWake, EditorApply, EditorReturn, ChatType
  <2>. QED
    BY <1>1, <1>2, <1>3, <2>1, <2>2, <2>3 DEF ChatType, bootVars
<1>7. CASE Restart
  <2>1. seen' \in 0..Len(ledger)
    <3>1. Prime /\ Len(ledger) \in Nat
      BY <1>7 DEF Restart, LedgerType
    <3>. QED
      BY <1>4, <3>1 DEF Prime, IsNewest, Ids
  <2>2. restarts' \in 0..MaxRestarts
    BY <1>7, BoundsAssumption DEF Restart, ChatType
  <2>3. tick' = {} /\ targets' = {} /\ buttons' = buttons /\ wake' = FALSE /\ editor' = "waiting"
    BY <1>7 DEF Restart
  <2>4. edits' \in Seq(Ids)
    BY <1>7 DEF Restart
  <2>. QED
    BY <1>1, <1>2, <1>3, <2>1, <2>2, <2>3, <2>4 DEF ChatType
<1>. QED
  BY <1>5, <1>6, <1>7

\* Every step of the system preserves the inductive invariant.
LEMMA Inductive == IInv /\ [Next]_vars => IInv'
<1>. SUFFICES ASSUME IInv, [Next]_vars PROVE IInv'
  OBVIOUS
<1>1. CASE SendGate \/ \E id \in Ids, v \in Verdicts : Press(id, v) \/ RestDecide(id, v)
  BY <1>1, UserSteps
<1>2. ASSUME NEW w \in Workers, WorkerStep(w) PROVE IInv'
  BY <1>2, TakeSteps, GateSteps DEF WorkerStep
<1>3. CASE NotifierStep \/ EditorStep \/ Restart
  BY <1>3, BackgroundSteps
<1>4. CASE UNCHANGED vars
  BY <1>4 DEF vars, notifyVars, chatVars, bootVars, editVars, IInv, TypeOK, LedgerType, WorkerType,
              ChatType, GateInv, InGate, RunsOnlyApproved, Ids
<1>. QED
  BY <1>1, <1>2, <1>3, <1>4 DEF Next

\* The inductive invariant holds in every reachable state.
LEMMA Invariance == Spec => []IInv
BY InitIInv, Inductive, PTL DEF Spec

-----------------------------------------------------------------------------

\* The variables keep their types: gates, notifier, chat and editor only speak
\* of requests the ledger holds, also across crashes.
THEOREM TypeCorrect == Spec => []TypeOK
<1>1. IInv => TypeOK
  BY DEF IInv
<1>. QED
  BY Invariance, <1>1, PTL

\* RunGated: whatever the number of workers, decisions, faults and crashes, a
\* gated action runs at most once per request and only if it was approved.
THEOREM GatesAreFailClosed == Spec => []RunsOnlyApproved
<1>1. IInv => RunsOnlyApproved
  BY DEF IInv
<1>. QED
  BY Invariance, <1>1, PTL

\* A step leaves every decided request as it is.
LEMMA StepKeepsDecisions ==
  IInv /\ [Next]_vars => \A i \in Ids : ledger[i] # "pending" => ledger'[i] = ledger[i]
<1>. SUFFICES ASSUME IInv, Next, NEW i \in Ids, ledger[i] # "pending"
              PROVE  ledger'[i] = ledger[i]
  BY DEF vars
<1>1. LedgerType
  BY DEF IInv, TypeOK
<1>2. ASSUME NEW id, NEW v \in Verdicts, DecideApproval(id, v)
      PROVE  ledger'[i] = ledger[i]
  BY <1>1, <1>2, DecideFacts
<1>3. ASSUME ledger' = Append(ledger, "pending")
      PROVE  ledger'[i] = ledger[i]
  BY <1>1, <1>3 DEF LedgerType, Ids, States
<1>4. ASSUME NEW w \in Workers, WorkerStep(w) PROVE ledger'[i] = ledger[i]
  <2>1. ASSUME NEW r \in 1..Len(rows), HandlePress(w, r) PROVE ledger'[i] = ledger[i]
    <3>1. rows[r] \in Rows
      BY <1>1 DEF LedgerType
    <3>2. rows[r].verdict \in Verdicts
      BY <3>1 DEF Rows
    <3>. QED
      BY <1>2, <2>1, <3>2 DEF HandlePress
  <2>. QED
    BY <1>3, <1>4, <2>1 DEF WorkerStep, WorkerRead, StartGate, GatePoll, GateTimeout, GateRun,
                            ClaimReply
<1>. QED
  BY <1>2, <1>4 DEF Next, SendGate, Press, RestDecide, NotifierStep, NotifierTick, Notify,
       MaybeRemind, EditorStep, EditorWake, EditorApply, EditorReturn, Restart

\* DecideApproval: a decision is final, whichever of the buttons, the typed
\* commands and the REST endpoint makes it first.
THEOREM DecisionsAreFinal == Spec => DecisionIsFinal
<1>1. IInv /\ [Next]_vars =>
        [\A i \in Ids : ledger[i] # "pending" => ledger'[i] = ledger[i]]_ledger
  BY StepKeepsDecisions
<1>. QED
  BY <1>1, Invariance, PTL DEF Spec, DecisionIsFinal

-----------------------------------------------------------------------------
(* Buttons and edits.                                                      *)

\* The editor's queue only speaks of requests that are decided: an edit is
\* queued in the same step that decides its request, and decisions are final.
EditsDecided == \A k \in 1..Len(edits) : ledger[edits[k]] # "pending"

\* What a step can do to the editor's queue.
LEMMA EditsMove ==
  ASSUME IInv, [Next]_vars
  PROVE  \/ UNCHANGED edits
         \/ edits # <<>> /\ edits' = Tail(edits)
         \/ edits' = <<>>
         \/ \E id \in Ids : edits' = Append(edits, id) /\ ledger'[id] # "pending"
<1>1. ASSUME NEW w \in Workers, NEW r \in 1..Len(rows), HandlePress(w, r)
      PROVE  \/ UNCHANGED edits
             \/ \E id \in Ids : edits' = Append(edits, id) /\ ledger'[id] # "pending"
  <2>. DEFINE id == rows[r].id
  <2>1. CASE Decidable(id) /\ DecideApproval(id, rows[r].verdict) /\ edits' = Append(edits, id)
    <3>1. rows[r] \in Rows /\ ledger \in Seq(States)
      BY DEF IInv, TypeOK, LedgerType
    <3>2. id \in Ids /\ rows[r].verdict # "pending"
      BY <2>1, <3>1 DEF Decidable, Rows, Verdicts
    <3>3. ledger'[id] = rows[r].verdict
      BY <2>1, <3>1, <3>2 DEF DecideApproval, Ids
    <3>. QED
      BY <2>1, <3>2, <3>3
  <2>2. CASE UNCHANGED edits
    BY <2>2
  <2>. QED
    BY <1>1, <2>1, <2>2 DEF HandlePress, OnDecided
<1>2. CASE UNCHANGED vars
  BY <1>2 DEF vars, editVars
<1>. QED
  BY <1>1, <1>2
     DEF Next, SendGate, Press, RestDecide, WorkerStep, WorkerRead, StartGate, GatePoll,
         GateTimeout, GateRun, ClaimReply, NotifierStep, NotifierTick, Notify, MaybeRemind,
         EditorStep, EditorWake, EditorApply, EditorReturn, Restart, editVars

\* Every step leaves only decided requests in the editor's queue.
LEMMA StepEdits == IInv /\ EditsDecided /\ [Next]_vars => EditsDecided'
<1>. SUFFICES ASSUME IInv, EditsDecided, [Next]_vars, NEW k \in 1..Len(edits')
              PROVE  ledger'[edits'[k]] # "pending"
  BY DEF EditsDecided
<1>1. edits \in Seq(Ids) /\ Len(edits) \in Nat
  BY DEF IInv, TypeOK, ChatType
<1>2. \A j \in 1..Len(edits) : edits[j] \in Ids /\ ledger'[edits[j]] # "pending"
  BY <1>1, StepKeepsDecisions DEF EditsDecided
<1>3. CASE UNCHANGED edits
  BY <1>2, <1>3
<1>4. CASE edits # <<>> /\ edits' = Tail(edits)
  <2>1. k + 1 \in 1..Len(edits) /\ edits'[k] = edits[k + 1]
    BY <1>1, <1>4
  <2>. QED
    BY <1>2, <2>1
<1>5. CASE edits' = <<>>
  BY <1>5
<1>6. ASSUME NEW id \in Ids, edits' = Append(edits, id), ledger'[id] # "pending"
      PROVE  ledger'[edits'[k]] # "pending"
  <2>1. /\ Len(edits') = Len(edits) + 1 /\ edits'[Len(edits) + 1] = id
        /\ \A j \in 1..Len(edits) : edits'[j] = edits[j]
    BY <1>1, <1>6
  <2>2. k = Len(edits) + 1 \/ k \in 1..Len(edits)
    BY <1>1, <2>1
  <2>. QED
    BY <1>2, <1>6, <2>1, <2>2
<1>. QED
  BY <1>3, <1>4, <1>5, <1>6, EditsMove

\* Only the editor takes buttons away, those of the request at the head of its
\* queue.
LEMMA StepButtons ==
  IInv /\ EditsDecided /\ [Next]_vars => [\A i \in buttons \ buttons' : ledger[i] # "pending"]_buttons
<1>. SUFFICES ASSUME IInv, EditsDecided, Next, NEW i \in buttons \ buttons'
              PROVE  ledger[i] # "pending"
  BY DEF vars, chatVars
<1>1. EditorApply
  BY DEF Next, SendGate, Press, RestDecide, WorkerStep, WorkerRead, StartGate, HandlePress,
         GatePoll, GateTimeout, GateRun, ClaimReply, NotifierStep, NotifierTick, Notify,
         MaybeRemind, Announce, AnnounceFails, EditorStep, EditorWake, EditorReturn, Restart,
         chatVars
<1>2. i = Head(edits) /\ edits # <<>>
  BY <1>1 DEF EditorApply
<1>3. edits \in Seq(Ids)
  BY DEF IInv, TypeOK, ChatType
<1>4. 1 \in 1..Len(edits) /\ Head(edits) = edits[1]
  BY <1>2, <1>3
<1>. QED
  BY <1>2, <1>4 DEF EditsDecided

\* EditRegistry and editor: the buttons of a request disappear only once it is
\* decided, whatever presses race and whatever calls fail.
THEOREM PendingKeepsButtons == Spec => ButtonsStayWhilePending
<1>1. Init => EditsDecided
  BY DEF Init, EditsDecided
<1>2. Spec => []EditsDecided
  BY <1>1, StepEdits, Invariance, PTL DEF Spec
<1>. QED
  BY <1>2, StepButtons, Invariance, PTL DEF Spec, ButtonsStayWhilePending
=============================================================================
