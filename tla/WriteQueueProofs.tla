-------------------------- MODULE WriteQueueProofs --------------------------
(***************************************************************************)
(* Proofs about the write queue, for every set of calls and of closers and *)
(* for every queue and batch capacity: type correctness, and from the      *)
(* inductive invariant IInv the durability of acknowledged writes, the     *)
(* absence of refused and failed ones, at-most-once application and the    *)
(* drain of a graceful stop.                                               *)
(***************************************************************************)
EXTENDS WriteQueue, SequenceTheorems, TLAPS

-----------------------------------------------------------------------------
(* Facts about Elems and Distinct.                                         *)

\* Appending one element, what Send and collect do.
LEMMA AppendFacts ==
  ASSUME NEW S, NEW s \in Seq(S), NEW e \in S
  PROVE  /\ Append(s, e) \in Seq(S)
         /\ Len(Append(s, e)) = Len(s) + 1
         /\ Elems(Append(s, e)) = Elems(s) \cup {e}
         /\ Distinct(s) /\ e \notin Elems(s) => Distinct(Append(s, e))
<1>1. Append(s, e) \in Seq(S) /\ Len(Append(s, e)) = Len(s) + 1
  OBVIOUS
<1>2. \A i \in 1..Len(s) : Append(s, e)[i] = s[i]
  OBVIOUS
<1>3. Append(s, e)[Len(s) + 1] = e
  OBVIOUS
<1>4. Len(s) \in Nat
  OBVIOUS
<1>5. Elems(Append(s, e)) = Elems(s) \cup {e}
  BY <1>1, <1>2, <1>3, <1>4 DEF Elems
<1>6. ASSUME Distinct(s), e \notin Elems(s)
      PROVE  Distinct(Append(s, e))
  BY <1>1, <1>2, <1>3, <1>4, <1>6 DEF Elems, Distinct
<1>. QED
  BY <1>1, <1>5, <1>6

\* Taking the head of a non-empty sequence, what a channel receive does.
LEMMA TakeFacts ==
  ASSUME NEW S, NEW s \in Seq(S), s # <<>>
  PROVE  /\ Head(s) \in S
         /\ Tail(s) \in Seq(S)
         /\ Len(Tail(s)) = Len(s) - 1
         /\ Elems(s) = {Head(s)} \cup Elems(Tail(s))
         /\ Distinct(s) => Distinct(Tail(s)) /\ Head(s) \notin Elems(Tail(s))
<1>1. Len(s) \in Nat /\ Len(s) >= 1
  OBVIOUS
<1>2. Head(s) = s[1] /\ s[1] \in S
  BY <1>1
<1>3. Tail(s) \in Seq(S) /\ Len(Tail(s)) = Len(s) - 1
  BY <1>1
<1>4. \A i \in 1..Len(Tail(s)) : Tail(s)[i] = s[i + 1]
  BY <1>1, <1>3
<1>5. Elems(s) = {Head(s)} \cup Elems(Tail(s))
  <2>1. ASSUME NEW i \in 1..Len(s)
        PROVE  s[i] \in {Head(s)} \cup Elems(Tail(s))
    <3>1. CASE i = 1
      BY <1>2, <3>1
    <3>2. CASE i # 1
      <4>1. i - 1 \in 1..Len(Tail(s)) /\ Tail(s)[i - 1] = s[i]
        BY <1>1, <1>3, <1>4, <3>2
      <4>. QED
        BY <4>1 DEF Elems
    <3>. QED
      BY <3>1, <3>2
  <2>2. ASSUME NEW i \in 1..Len(Tail(s))
        PROVE  Tail(s)[i] \in Elems(s)
    BY <1>1, <1>3, <1>4 DEF Elems
  <2>3. Head(s) \in Elems(s)
    BY <1>1, <1>2 DEF Elems
  <2>. QED
    BY <2>1, <2>2, <2>3 DEF Elems
<1>6. ASSUME Distinct(s)
      PROVE  Distinct(Tail(s)) /\ Head(s) \notin Elems(Tail(s))
  BY <1>1, <1>2, <1>3, <1>4, <1>6 DEF Elems, Distinct
<1>. QED
  BY <1>2, <1>3, <1>5, <1>6

\* Concatenation, what the commit of a transaction does to the database.
LEMMA ConcatFacts ==
  ASSUME NEW S, NEW s \in Seq(S), NEW t \in Seq(S)
  PROVE  /\ s \o t \in Seq(S)
         /\ Elems(s \o t) = Elems(s) \cup Elems(t)
         /\ Distinct(s) /\ Distinct(t) /\ Elems(s) \cap Elems(t) = {} => Distinct(s \o t)
<1>1. s \o t \in Seq(S) /\ Len(s \o t) = Len(s) + Len(t) /\ Len(s) \in Nat /\ Len(t) \in Nat
  OBVIOUS
<1>2. \A i \in 1..Len(s) : (s \o t)[i] = s[i]
  OBVIOUS
<1>3. \A i \in 1..Len(t) : (s \o t)[Len(s) + i] = t[i]
  OBVIOUS
<1>4. \A i \in 1..Len(s \o t) : \/ i \in 1..Len(s)
                                \/ i - Len(s) \in 1..Len(t) /\ i = Len(s) + (i - Len(s))
  BY <1>1
<1>5. \A i \in 1..Len(s \o t) : (s \o t)[i] \in Elems(s) \cup Elems(t)
  <2>. TAKE i \in 1..Len(s \o t)
  <2>1. CASE i \in 1..Len(s)
    BY <1>2, <2>1 DEF Elems
  <2>2. CASE i - Len(s) \in 1..Len(t)
    <3>1. (s \o t)[i] = t[i - Len(s)]
      BY <1>1, <1>3, <2>2
    <3>. QED
      BY <2>2, <3>1 DEF Elems
  <2>. QED
    BY <1>4, <2>1, <2>2
<1>6. \A i \in 1..Len(t) : Len(s) + i \in 1..Len(s \o t)
  BY <1>1
<1>7. \A i \in 1..Len(s) : i \in 1..Len(s \o t)
  BY <1>1
<1>8. Elems(s \o t) = Elems(s) \cup Elems(t)
  <2>1. Elems(s \o t) \subseteq Elems(s) \cup Elems(t)
    BY <1>5 DEF Elems
  <2>2. Elems(s) \subseteq Elems(s \o t)
    BY <1>2, <1>7 DEF Elems
  <2>3. Elems(t) \subseteq Elems(s \o t)
    BY <1>3, <1>6 DEF Elems
  <2>. QED
    BY <2>1, <2>2, <2>3
<1>9. ASSUME Distinct(s), Distinct(t), Elems(s) \cap Elems(t) = {},
             NEW i \in 1..Len(s \o t), NEW j \in 1..Len(s \o t), (s \o t)[i] = (s \o t)[j]
      PROVE  i = j
  <2>1. CASE i \in 1..Len(s) /\ j \in 1..Len(s)
    BY <1>2, <1>9, <2>1 DEF Distinct
  <2>2. CASE i - Len(s) \in 1..Len(t) /\ j - Len(s) \in 1..Len(t)
    <3>1. t[i - Len(s)] = t[j - Len(s)]
      BY <1>1, <1>3, <1>9, <2>2
    <3>2. i - Len(s) = j - Len(s)
      BY <1>9, <2>2, <3>1 DEF Distinct
    <3>. QED
      BY <1>1, <3>2
  <2>3. CASE i \in 1..Len(s) /\ j - Len(s) \in 1..Len(t)
    <3>1. s[i] = t[j - Len(s)]
      BY <1>1, <1>2, <1>3, <1>9, <2>3
    <3>. QED
      BY <1>9, <2>3, <3>1 DEF Elems
  <2>4. CASE i - Len(s) \in 1..Len(t) /\ j \in 1..Len(s)
    <3>1. s[j] = t[i - Len(s)]
      BY <1>1, <1>2, <1>3, <1>9, <2>4
    <3>. QED
      BY <1>9, <2>4, <3>1 DEF Elems
  <2>. QED
    BY <1>4, <1>9, <2>1, <2>2, <2>3, <2>4
<1>. QED
  BY <1>1, <1>8, <1>9 DEF Distinct

\* The empty batch.
LEMMA EmptyFacts == Elems(<<>>) = {} /\ Distinct(<<>>)
BY DEF Elems, Distinct

-----------------------------------------------------------------------------
(* Type correctness.                                                       *)

\* Every step of the store keeps the types, the bounds of the channel and of
\* the batch included.
LEMMA TypeStep == TypeOK /\ [Next]_vars => TypeOK'
<1>. SUFFICES ASSUME TypeOK, [Next]_vars
              PROVE  TypeOK'
  OBVIOUS
<1>. USE OpsAssumption, CapAssumption DEF TypeOK, Results, storeVars, batcherVars, txVars, callVars,
        Return
<1>1. ASSUME NEW o \in Ops, LoadClosed(o)
      PROVE  TypeOK'
  BY <1>1 DEF LoadClosed
<1>2. ASSUME NEW o \in Ops, Send(o)
      PROVE  TypeOK'
  <2>1. Append(writes, o) \in Seq(Ops) /\ Len(Append(writes, o)) = Len(writes) + 1
        /\ Append(queued, o) \in Seq(Ops)
    BY AppendFacts
  <2>2. UNCHANGED <<closed, quit, exited, dbOpen, bpc, draining, batch, outcome, db,
                    rolledBack, doneCh, closer>>
    BY <1>2 DEF Send
  <2>3. writes' \in Seq(Ops) /\ Len(writes') <= QueueCap
    <3>1. Len(writes) \in Nat /\ QueueCap \in Nat
      OBVIOUS
    <3>2. CASE Full
      BY <1>2, <3>2 DEF Send
    <3>3. CASE ~Full
      <4>1. writes' = Append(writes, o)
        BY <1>2, <3>3 DEF Send
      <4>2. Len(writes) < QueueCap
        BY <3>1, <3>3 DEF Full
      <4>. QED
        BY <2>1, <3>1, <4>1, <4>2
    <3>. QED
      BY <3>2, <3>3
  <2>4. /\ queued' \in Seq(Ops) /\ early' \in SUBSET Ops
        /\ call' \in [Ops -> {"idle", "loaded", "waiting", "returned"}]
        /\ ret' \in [Ops -> Results]
    BY <1>2, <2>1 DEF Send
  <2>. QED
    BY <2>2, <2>3, <2>4
<1>3. ASSUME NEW o \in Ops, AwaitDone(o)
      PROVE  TypeOK'
  BY <1>3 DEF AwaitDone
<1>4. ASSUME NEW o \in Ops, CtxDone(o)
      PROVE  TypeOK'
  BY <1>4 DEF CtxDone
<1>5. ASSUME NEW o \in Ops, ExecResult(o)
      PROVE  TypeOK'
  <2>1. Append(db, o) \in Seq(Ops)
    BY AppendFacts
  <2>2. UNCHANGED <<closed, quit, exited, dbOpen, writes, bpc, draining, batch, outcome,
                    rolledBack, doneCh, closer, queued, early>>
    BY <1>5 DEF ExecResult
  <2>3. /\ db' \in Seq(Ops)
        /\ call' \in [Ops -> {"idle", "loaded", "waiting", "returned"}]
        /\ ret' \in [Ops -> Results]
    BY <1>5, <2>1 DEF ExecResult
  <2>. QED
    BY <2>2, <2>3
<1>6. CASE SelectWrite \/ Collect
  <2>1. /\ writes # <<>> /\ writes' = Tail(writes)
        /\ batch' = Append(batch, Head(writes)) /\ bpc' = "collect"
    BY <1>6 DEF SelectWrite, Collect, Receive, Take
  <2>2. UNCHANGED <<closed, quit, exited, dbOpen, draining, outcome, db, rolledBack, doneCh,
                    closer, call, ret, queued, early>>
    BY <1>6 DEF SelectWrite, Collect
  <2>3. writes' \in Seq(Ops) /\ Len(writes') <= QueueCap /\ Head(writes) \in Ops
    BY <2>1, TakeFacts
  <2>4. batch' \in Seq(Ops) /\ Len(batch') = Len(batch) + 1 /\ Len(batch) \in Nat
    BY <2>1, <2>3, AppendFacts
  <2>5. Len(batch') <= BatchCap
    <3>1. CASE SelectWrite
      BY <3>1, <2>4 DEF SelectWrite
    <3>2. CASE Collect
      BY <3>2, <2>4 DEF Collect
    <3>. QED
      BY <1>6, <3>1, <3>2
  <2>. QED
    BY <2>1, <2>2, <2>3, <2>4, <2>5
<1>7. CASE SelectQuit
  BY <1>7 DEF SelectQuit
<1>8. CASE Exit
  BY <1>8 DEF Exit
<1>10. CASE Apply
  BY <1>10 DEF Apply, Commit, Elems
<1>11. CASE Signal
  BY <1>11 DEF Signal, Answer, Reports
<1>12. ASSUME NEW c \in Closers, CloserStep(c)
       PROVE  TypeOK'
  BY <1>12 DEF CloserStep, CloseCAS, CloseQuit, CloseDB
<1>13. CASE UNCHANGED vars
  BY <1>13 DEF vars
<1>. QED
  BY <1>1, <1>2, <1>3, <1>4, <1>5, <1>6, <1>7, <1>8, <1>10, <1>11, <1>12, <1>13
     DEF Next, CallerStep, BatcherStep

\* The store is opened in a state of the right types.
LEMMA InitType == Init => TypeOK
<1>. SUFFICES ASSUME Init PROVE TypeOK
  OBVIOUS
<1>1. closed \in BOOLEAN /\ quit \in BOOLEAN /\ exited \in BOOLEAN /\ dbOpen \in BOOLEAN
      /\ draining \in BOOLEAN
  BY DEF Init
<1>2. /\ writes \in Seq(Ops) /\ batch \in Seq(Ops) /\ db \in Seq(Ops) /\ queued \in Seq(Ops)
      /\ Len(writes) = 0 /\ Len(batch) = 0 /\ batch = <<>>
  BY DEF Init
<1>3. /\ bpc = "select" /\ outcome = "ok" /\ rolledBack = {} /\ early = {}
      /\ doneCh = [o \in SyncOps |-> "empty"]
      /\ call = [o \in Ops |-> "idle"]
      /\ ret = [o \in Ops |-> "none"]
      /\ closer = [c \in Closers |-> "idle"]
  BY DEF Init
<1>. QED
  BY <1>1, <1>2, <1>3, CapAssumption DEF TypeOK, Results

\* The store's types hold in every reachable state.
THEOREM TypeCorrect == Spec => []TypeOK
BY InitType, TypeStep, PTL DEF Spec

-----------------------------------------------------------------------------
(* The inductive invariant, one lemma per step of the program.             *)

\* A freshly opened store satisfies the inductive invariant.
LEMMA InitIInv == Init => IInv
<1>. SUFFICES ASSUME Init PROVE IInv
  OBVIOUS
<1>1. TypeOK
  BY InitType
<1>2. InFlight = {} /\ Finished = {} /\ Elems(writes) = {} /\ Elems(batch) = {} /\ Elems(db) = {}
      /\ Distinct(writes) /\ Distinct(batch) /\ Distinct(db)
  BY EmptyFacts DEF Init, InFlight, Finished
<1>3. Placement
  BY <1>2, OpsAssumption DEF Init, Placement
<1>4. Answers
  BY <1>2, OpsAssumption DEF Init, Answers
<1>5. Shutdown
  BY <1>2 DEF Init, Shutdown
<1>. QED
  BY <1>1, <1>3, <1>4, <1>5 DEF IInv

\* enqueue's load of closed.
LEMMA LoadClosedIInv ==
  ASSUME IInv, TypeOK', NEW o \in Ops, LoadClosed(o)
  PROVE  IInv'
<1>. USE OpsAssumption DEF IInv
<1>1. o \notin DirectOps /\ o \notin InFlight \cup Finished
  BY DEF LoadClosed, Placement
<1>2. UNCHANGED <<closed, quit, exited, dbOpen, writes, bpc, draining, batch, outcome, db,
                  rolledBack, doneCh, early, closer, InFlight, Finished>>
  BY DEF LoadClosed, storeVars, batcherVars, txVars, InFlight, Finished
<1>3. /\ \A p \in Ops : p # o => call'[p] = call[p] /\ ret'[p] = ret[p]
      /\ \/ ret'[o] = "closed" /\ call'[o] = "returned"
         \/ ret'[o] = ret[o] /\ call'[o] = "loaded" /\ call[o] = "idle"
  BY DEF LoadClosed, Return, TypeOK
<1>4. Placement'
  BY <1>1, <1>2, <1>3 DEF Placement
<1>5. Answers'
  BY <1>1, <1>2, <1>3 DEF Answers
<1>6. Shutdown'
  BY <1>2 DEF Shutdown
<1>. QED
  BY <1>4, <1>5, <1>6

\* enqueue's send: the call was nowhere and is now in the channel only.
LEMMA SendIInv ==
  ASSUME IInv, TypeOK', NEW o \in Ops, Send(o)
  PROVE  IInv'
<1>. USE OpsAssumption DEF IInv
<1>1. o \notin InFlight \cup Finished /\ o \notin DirectOps
  BY DEF Send, Placement
<1>2. CASE ~Full
  <2>1. Elems(writes') = Elems(writes) \cup {o} /\ Distinct(writes')
    <3>1. writes' = Append(writes, o)
      BY <1>2 DEF Send
    <3>. QED
      BY <1>1, <3>1, AppendFacts DEF TypeOK, Placement, InFlight
  <2>2. /\ batch' = batch /\ db' = db /\ rolledBack' = rolledBack /\ doneCh' = doneCh
        /\ bpc' = bpc /\ draining' = draining /\ outcome' = outcome
        /\ closed' = closed /\ quit' = quit /\ exited' = exited /\ dbOpen' = dbOpen
        /\ closer' = closer
    BY DEF Send, storeVars, batcherVars, txVars
  <2>3. /\ call' \in [Ops -> {"idle", "loaded", "waiting", "returned"}]
        /\ call'[o] \in {"waiting", "returned"}
        /\ \A p \in Ops : p # o => call'[p] = call[p] /\ ret'[p] = ret[p]
        /\ ret'[o] = ret[o] \/ (ret'[o] = "ok" /\ o \notin SyncOps)
    BY <1>2 DEF Send, Return, TypeOK
  <2>4. ret[o] \notin {"failed", "closed", "full"}
    BY <1>1 DEF Send, Answers, Finished, InFlight
  <2>5. Placement'
    BY <1>1, <2>1, <2>2, <2>3 DEF Placement, InFlight, Finished
  <2>6. Answers'
    BY <1>1, <2>1, <2>2, <2>3, <2>4 DEF Answers, InFlight, Finished
  <2>7. Shutdown'
    <3>1. early' = IF closed THEN early ELSE early \cup {o}
      BY <1>2 DEF Send
    <3>2. InFlight' = InFlight \cup {o} /\ Finished' = Finished
      BY <2>1, <2>2 DEF InFlight, Finished
    <3>3. CASE closed
      BY <1>1, <2>1, <2>2, <3>1, <3>2, <3>3 DEF Shutdown
    <3>4. CASE ~closed
      BY <2>2, <3>1, <3>2, <3>4 DEF Shutdown
    <3>. QED
      BY <3>3, <3>4
  <2>. QED
    BY <2>5, <2>6, <2>7
<1>3. CASE Full
  BY <1>1, <1>3 DEF Send, Return, TypeOK, Results, Placement, Answers, Shutdown,
     InFlight, Finished, storeVars, batcherVars, txVars
<1>. QED
  BY <1>2, <1>3

\* execSync's select, either branch.
LEMMA AwaitIInv ==
  ASSUME IInv, TypeOK', NEW o \in Ops, AwaitDone(o) \/ CtxDone(o)
  PROVE  IInv'
<1>. USE OpsAssumption DEF IInv
<1>1. UNCHANGED <<closed, quit, exited, dbOpen, writes, bpc, draining, batch, outcome, db,
                  rolledBack, early, closer, InFlight, Finished>>
  BY DEF AwaitDone, CtxDone, storeVars, batcherVars, txVars, InFlight, Finished
<1>2. /\ o \in SyncOps /\ call[o] = "waiting" /\ call'[o] = "returned"
      /\ \A p \in Ops : p # o => call'[p] = call[p] /\ ret'[p] = ret[p]
      /\ \A p \in SyncOps : doneCh'[p] \in {"empty", doneCh[p]}
      /\ ret'[o] = "ctx" \/ (ret'[o] = doneCh[o] /\ doneCh[o] # "empty")
  BY DEF AwaitDone, CtxDone, Return, TypeOK
<1>3. ret'[o] = "ctx" \/ (ret'[o] = "ok" /\ o \in Elems(db)) \/ (ret'[o] = "failed" /\ o \in rolledBack)
  BY <1>2 DEF TypeOK, Answers
<1>4. Placement'
  BY <1>1, <1>2 DEF Placement
<1>5. Answers'
  BY <1>1, <1>2, <1>3 DEF Answers
<1>6. Shutdown'
  BY <1>1 DEF Shutdown
<1>. QED
  BY <1>4, <1>5, <1>6

\* A write outside the queue.
LEMMA ExecResultIInv ==
  ASSUME IInv, TypeOK', NEW o \in Ops, ExecResult(o)
  PROVE  IInv'
<1>. USE OpsAssumption DEF IInv
<1>1. o \notin InFlight \cup Finished
  BY DEF ExecResult, Placement
<1>2. /\ Elems(db') = Elems(db) \/ Elems(db') = Elems(db) \cup {o}
      /\ Distinct(db')
      /\ ret'[o] = "ok" => o \in Elems(db')
      /\ ret'[o] = "failed" => db' = db
  <2>1. CASE db' = Append(db, o) /\ ret' = [ret EXCEPT ![o] = "ok"]
    <3>1. Elems(db') = Elems(db) \cup {o} /\ Distinct(db')
      BY <1>1, <2>1, AppendFacts DEF TypeOK, Placement, Finished
    <3>. QED
      BY <2>1, <3>1 DEF TypeOK
  <2>2. CASE db' = db /\ ret' = [ret EXCEPT ![o] = "failed"]
    BY <2>2 DEF TypeOK, Placement
  <2>. QED
    BY <2>1, <2>2 DEF ExecResult, Return
<1>3. /\ call' = [call EXCEPT ![o] = "returned"]
      /\ ret'[o] \in {"ok", "failed"}
      /\ \A p \in Ops : p # o => ret'[p] = ret[p]
  BY DEF ExecResult, Return, TypeOK
<1>4. UNCHANGED <<storeVars, writes, batcherVars, rolledBack, doneCh, early, closer>>
  BY DEF ExecResult
<1>5. Placement'
  BY <1>1, <1>2, <1>3, <1>4 DEF Placement, InFlight, Finished, batcherVars, TypeOK
<1>6. Answers'
  BY <1>1, <1>2, <1>3, <1>4 DEF Answers, InFlight, Finished, batcherVars, TypeOK, ExecResult
<1>7. Shutdown'
  BY <1>2, <1>4 DEF Shutdown, InFlight, Finished, batcherVars, storeVars
<1>. QED
  BY <1>5, <1>6, <1>7

\* A channel receive moves the oldest write from the channel to the batch.
LEMMA ReceiveIInv ==
  ASSUME IInv, TypeOK', SelectWrite \/ Collect
  PROVE  IInv'
<1>. USE DEF IInv
<1>1. writes # <<>> /\ writes' = Tail(writes) /\ batch' = Append(batch, Head(writes))
      /\ bpc' = "collect" /\ bpc # "signal" /\ ~exited
  BY DEF SelectWrite, Collect, Receive, Take, Shutdown
<1>2. UNCHANGED <<storeVars, draining, outcome, txVars, doneCh, closer, callVars>>
  BY DEF SelectWrite, Collect
<1>3. /\ Head(writes) \in Ops
      /\ Elems(writes) = {Head(writes)} \cup Elems(writes')
      /\ Distinct(writes') /\ Head(writes) \notin Elems(writes')
  BY <1>1, TakeFacts DEF TypeOK, Placement
<1>4. Elems(batch') = Elems(batch) \cup {Head(writes)} /\ Distinct(batch')
  BY <1>1, <1>3, AppendFacts DEF TypeOK, Placement
<1>5. InFlight' = InFlight /\ Finished' = Finished
  BY <1>2, <1>3, <1>4 DEF InFlight, Finished, txVars
<1>6. Placement'
  BY <1>1, <1>2, <1>3, <1>4, <1>5 DEF Placement, Finished, txVars, callVars
<1>7. Answers'
  BY <1>1, <1>2, <1>5 DEF Answers, txVars, callVars
<1>8. Shutdown'
  BY <1>1, <1>2, <1>5 DEF Shutdown, storeVars, callVars
<1>. QED
  BY <1>6, <1>7, <1>8

\* The two ends of a drain.
LEMMA DrainIInv ==
  ASSUME IInv, TypeOK', SelectQuit \/ Exit
  PROVE  IInv'
BY EmptyFacts DEF SelectQuit, Exit, DrainDone, IInv, TypeOK, Results, Placement, Answers, Shutdown,
   InFlight, Finished, storeVars, batcherVars, txVars, callVars

\* A transaction moves the whole batch to the database, or none of it.
LEMMA ApplyIInv ==
  ASSUME IInv, TypeOK', Apply
  PROVE  IInv'
<1>. USE DEF IInv
<1>1. UNCHANGED <<storeVars, writes, draining, batch, doneCh, closer, callVars>>
      /\ bpc = "collect" /\ bpc' = "signal"
  BY DEF Apply
<1>2. Elems(batch) \cap Finished = {}
  BY <1>1 DEF Placement
<1>3. CASE db' = db \o batch /\ rolledBack' = rolledBack /\ outcome' = "ok"
  <2>1. Elems(db') = Elems(db) \cup Elems(batch) /\ Distinct(db')
    BY <1>2, <1>3, ConcatFacts DEF TypeOK, Placement, Finished
  <2>2. Placement'
    BY <1>1, <1>2, <1>3, <2>1 DEF Placement, InFlight, Finished, callVars
  <2>3. Answers'
    BY <1>1, <1>2, <1>3, <2>1 DEF Answers, Placement, InFlight, Finished, callVars
  <2>4. Shutdown'
    BY <1>1, <1>3, <2>1 DEF Shutdown, InFlight, Finished, storeVars, callVars
  <2>. QED
    BY <2>2, <2>3, <2>4
<1>4. CASE db' = db /\ rolledBack' = rolledBack \cup Elems(batch) /\ outcome' = "failed"
  <2>2. Placement'
    BY <1>1, <1>2, <1>4 DEF Placement, InFlight, Finished, callVars
  <2>3. Answers'
    BY <1>1, <1>2, <1>4 DEF Answers, Placement, InFlight, Finished, callVars
  <2>4. Shutdown'
    BY <1>1, <1>4 DEF Shutdown, InFlight, Finished, storeVars, callVars
  <2>. QED
    BY <2>2, <2>3, <2>4
<1>5. db \o <<>> = db
  BY DEF TypeOK
<1>. QED
  BY <1>3, <1>4, <1>5 DEF Apply, Commit

\* The answers given to a batch are those of its transaction.
LEMMA SignalIInv ==
  ASSUME IInv, TypeOK', Signal
  PROVE  IInv'
<1>. USE DEF IInv
<1>1. /\ UNCHANGED <<storeVars, writes, draining, outcome, txVars, closer, callVars>>
      /\ bpc = "signal" /\ bpc' = "select" /\ batch' = <<>>
  BY DEF Signal
<1>2. Elems(batch) \subseteq Finished
  BY <1>1 DEF Answers, Finished
<1>3. InFlight' \subseteq InFlight /\ Finished' = Finished
      /\ InFlight' \cup Finished' = InFlight \cup Finished
      /\ Elems(writes') = Elems(writes) /\ Elems(batch') = {} /\ Distinct(batch')
  BY <1>1, <1>2, EmptyFacts DEF InFlight, Finished, txVars
<1>4. \A o \in SyncOps : \/ doneCh'[o] = doneCh[o]
                         \/ doneCh'[o] = outcome /\ o \in Elems(batch)
  BY DEF Signal, Answer
<1>5. Placement'
  BY <1>1, <1>3 DEF Placement, Finished, txVars, callVars
<1>6. Answers'
  BY <1>1, <1>3, <1>4 DEF Answers, TypeOK, txVars, callVars
<1>7. Shutdown'
  BY <1>1, <1>3 DEF Shutdown, storeVars, callVars
<1>. QED
  BY <1>5, <1>6, <1>7

\* Close never overtakes the batcher.
LEMMA CloserIInv ==
  ASSUME IInv, TypeOK', NEW c \in Closers, CloserStep(c)
  PROVE  IInv'
<1>. USE DEF IInv
<1>1. UNCHANGED <<exited, writes, bpc, draining, batch, outcome, db, rolledBack, doneCh, call, ret,
                  early, InFlight, Finished>>
  BY DEF CloserStep, CloseCAS, CloseQuit, CloseDB, batcherVars, txVars, callVars, InFlight, Finished
<1>2. Placement' /\ Answers'
  BY <1>1 DEF Placement, Answers
<1>3. Shutdown'
  <2>1. CASE CloseCAS(c)
    BY <1>1, <2>1 DEF CloseCAS, Shutdown
  <2>2. CASE CloseQuit(c)
    BY <1>1, <2>2 DEF CloseQuit, Shutdown
  <2>3. CASE CloseDB(c)
    BY <1>1, <2>3 DEF CloseDB, Shutdown
  <2>. QED
    BY <2>1, <2>2, <2>3 DEF CloserStep
<1>. QED
  BY <1>2, <1>3

\* Every step of the specification keeps IInv.
LEMMA StepIInv == IInv /\ [Next]_vars => IInv'
<1>. SUFFICES ASSUME IInv, [Next]_vars
              PROVE  IInv'
  OBVIOUS
<1>1. TypeOK'
  BY TypeStep DEF IInv
<1>2. CASE UNCHANGED vars
  BY <1>2 DEF vars, IInv, TypeOK, Placement, Answers, Shutdown, InFlight, Finished
<1>3. CASE Next
  BY <1>1, <1>3, LoadClosedIInv, SendIInv, AwaitIInv, ExecResultIInv, ReceiveIInv, DrainIInv,
     ApplyIInv, SignalIInv, CloserIInv
     DEF Next, CallerStep, BatcherStep
<1>. QED
  BY <1>2, <1>3

\* The inductive invariant holds in every reachable state.
LEMMA Inductive == Spec => []IInv
BY InitIInv, StepIInv, PTL DEF Spec

-----------------------------------------------------------------------------
(* The results.                                                            *)

\* A caller of execSync or ExecResult that was told nil finds its write
\* committed, whatever the interleaving of callers, batcher and Close.
THEOREM AckedWritesAreDurable == Spec => []AckedIsDurable
<1>1. IInv => AckedIsDurable
  BY DEF IInv, Answers, AckedIsDurable
<1>. QED
  BY <1>1, Inductive, PTL

\* A caller that was told an error has nothing in the database.
THEOREM ErrorsLeaveNothing == Spec => []ErrorMeansAbsent
<1>1. IInv => ErrorMeansAbsent
  BY DEF IInv, Placement, Answers, Finished, ErrorMeansAbsent
<1>. QED
  BY <1>1, Inductive, PTL

\* No call is committed twice.
THEOREM NoDoubleApply == Spec => []AppliedAtMostOnce
<1>1. IInv => AppliedAtMostOnce
  BY DEF IInv, Placement, AppliedAtMostOnce
<1>. QED
  BY <1>1, Inductive, PTL

\* When Close has closed the database, every write accepted before Close
\* began has been through its transaction.
THEOREM GracefulStop == Spec => []GracefulStopDrains
<1>1. IInv => GracefulStopDrains
  <2>. SUFFICES ASSUME IInv, ~dbOpen, NEW o \in early
                PROVE  o \in Finished
    BY DEF GracefulStopDrains, Resolved, Finished
  <2>1. exited /\ batch = <<>>
    BY DEF IInv, TypeOK, Shutdown
  <2>2. o \notin InFlight
    BY <2>1, EmptyFacts DEF IInv, Shutdown, InFlight
  <2>. QED
    BY <2>2 DEF IInv, Shutdown
<1>. QED
  BY <1>1, Inductive, PTL

-----------------------------------------------------------------------------
(* The refinement: the store implements the log of DurableLog.             *)

\* The extra invariant of the refinement is kept by every step.
LEMMA StepLine == IInv /\ LineInv /\ [Next]_vars => LineInv'
<1>. SUFFICES ASSUME IInv, LineInv, [Next]_vars
              PROVE  LineInv'
  OBVIOUS
<1>. USE DEF LineInv, IInv, TypeOK, storeVars, batcherVars, txVars, callVars, Return
<1>1. CASE UNCHANGED vars
  BY <1>1 DEF vars
<1>2. ASSUME NEW o \in Ops, LoadClosed(o)
      PROVE  LineInv'
  BY <1>2 DEF LoadClosed
<1>3. ASSUME NEW o \in Ops, Send(o)
      PROVE  LineInv'
  <2>1. CASE Full /\ UNCHANGED queued
    BY <1>3, <2>1 DEF Send
  <2>2. CASE queued' = Append(queued, o)
    <3>1. Elems(queued') = Elems(queued) \cup {o}
      BY <2>2, AppendFacts
    <3>. QED
      BY <1>3, <2>2, <3>1 DEF Send
  <2>. QED
    BY <1>3, <2>1, <2>2 DEF Send
<1>4. ASSUME NEW o \in Ops, AwaitDone(o)
      PROVE  LineInv'
  BY <1>4 DEF AwaitDone
<1>5. ASSUME NEW o \in Ops, CtxDone(o)
      PROVE  LineInv'
  BY <1>5 DEF CtxDone
<1>6. ASSUME NEW o \in Ops, ExecResult(o)
      PROVE  LineInv'
  BY <1>6 DEF ExecResult
<1>7. ASSUME SelectWrite \/ Collect
      PROVE  LineInv'
  <2>1. Head(writes) \in Ops
    BY <1>7, TakeFacts DEF SelectWrite, Collect, Receive
  <2>2. Len(batch') = Len(batch) + 1
    BY <1>7, <2>1, AppendFacts DEF SelectWrite, Collect, Receive, Take
  <2>3. batch' # <<>>
    BY <2>2
  <2>. QED
    BY <1>7, <2>3 DEF SelectWrite, Collect, Receive
<1>8. ASSUME SelectQuit \/ Exit \/ Apply \/ Signal
      PROVE  LineInv'
  BY <1>8 DEF SelectQuit, Exit, Apply, Signal
<1>9. ASSUME NEW c \in Closers, CloserStep(c)
      PROVE  LineInv'
  BY <1>9 DEF CloserStep, CloseCAS, CloseQuit, CloseDB
<1>. QED
  BY <1>1, <1>2, <1>3, <1>4, <1>5, <1>6, <1>7, <1>8, <1>9
     DEF Next, CallerStep, BatcherStep

\* The line of DurableLog, and who is in it.
Line == (IF bpc = "signal" THEN <<>> ELSE batch) \o writes
Taken == Elems(queued) \cup {o \in DirectOps : ret[o] = "ok"}

\* Only writes that went nowhere yet are in the line.
LEMMA LineFacts ==
  ASSUME IInv
  PROVE  /\ Line \in Seq(Ops)
         /\ Elems(Line) \cap Finished = {}
<1>1. <<>> \in Seq(Ops) /\ batch \in Seq(Ops) /\ writes \in Seq(Ops)
  BY DEF IInv, TypeOK
<1>2. CASE bpc = "signal"
  BY <1>1, <1>2, ConcatFacts, EmptyFacts DEF Line, IInv, Placement
<1>3. CASE bpc # "signal"
  <2>1. Line \in Seq(Ops) /\ Elems(Line) = Elems(batch) \cup Elems(writes)
    BY <1>1, <1>3, ConcatFacts DEF Line
  <2>. QED
    BY <1>3, <2>1 DEF IInv, Placement
<1>. QED
  BY <1>2, <1>3

\* Moving the head of the channel to the end of the batch moves nothing in
\* the line.
LEMMA ShiftFacts ==
  ASSUME NEW S, NEW s \in Seq(S), NEW t \in Seq(S), t # <<>>
  PROVE  Append(s, Head(t)) \o Tail(t) = s \o t
<1>. DEFINE l == Append(s, Head(t)) \o Tail(t)
            r == s \o t
<1>1. /\ Head(t) \in S /\ Head(t) = t[1]
      /\ Tail(t) \in Seq(S) /\ Len(Tail(t)) = Len(t) - 1
      /\ Len(t) \in Nat /\ Len(t) >= 1 /\ Len(s) \in Nat
  BY TakeFacts
<1>2. /\ Append(s, Head(t)) \in Seq(S) /\ Len(Append(s, Head(t))) = Len(s) + 1
  BY <1>1
<1>3. /\ l \in Seq(S) /\ Len(l) = Len(s) + Len(t)
      /\ r \in Seq(S) /\ Len(r) = Len(s) + Len(t)
  BY <1>1, <1>2
<1>4. ASSUME NEW i \in 1..Len(l)
      PROVE  l[i] = r[i]
  <2>1. CASE i <= Len(s)
    BY <1>1, <1>2, <1>3, <2>1
  <2>2. CASE i = Len(s) + 1
    BY <1>1, <1>2, <1>3, <2>2
  <2>3. CASE i > Len(s) + 1
    <3>1. l[i] = Tail(t)[i - (Len(s) + 1)] /\ r[i] = t[i - Len(s)]
      BY <1>1, <1>2, <1>3, <2>3
    <3>. QED
      BY <1>1, <1>3, <2>3, <3>1
  <2>. QED
    BY <1>3, <2>1, <2>2, <2>3
<1>. QED
  BY <1>3, <1>4, SeqEqual

\* Concatenation adds at the end.
LEMMA AppendToConcat ==
  ASSUME NEW S, NEW s \in Seq(S), NEW t \in Seq(S), NEW e \in S
  PROVE  s \o Append(t, e) = Append(s \o t, e)
OBVIOUS

\* The front of a concatenation and what is left of it.
LEMMA SplitFacts ==
  ASSUME NEW S, NEW s \in Seq(S), NEW t \in Seq(S)
  PROVE  /\ SubSeq(s \o t, 1, Len(s)) = s
         /\ SubSeq(s \o t, Len(s) + 1, Len(s \o t)) = t
         /\ <<>> \o t = t
         /\ s \o <<>> = s
OBVIOUS

\* A send, accepted or refused, is an Accept or a Refuse of the log.
LEMMA SendRefines ==
  ASSUME IInv, LineInv, NEW o \in Ops, Send(o)
  PROVE  DLog!Accept(o) \/ DLog!Refuse(o)
<1>1. /\ call[o] = "loaded" /\ o \notin DirectOps /\ ret[o] = "none" /\ o \notin Elems(queued)
      /\ UNCHANGED <<db, bpc, batch>>
  BY DEF Send, IInv, TypeOK, Placement, LineInv, batcherVars, txVars
<1>2. CASE Full /\ Return(o, "full") /\ UNCHANGED <<writes, queued, early>>
  <2>1. ret' = [ret EXCEPT ![o] = "full"]
    BY <1>2 DEF Return
  <2>2. UNCHANGED <<Line, Taken>>
    BY <1>1, <1>2, <2>1 DEF Line, Taken, IInv, TypeOK
  <2>3. o \notin Taken
    BY <1>1 DEF Taken
  <2>. QED
    BY <1>1, <2>1, <2>2, <2>3 DEF DLog!Refuse, DLog!Tell, Line, Taken
<1>3. CASE writes' = Append(writes, o) /\ queued' = Append(queued, o)
  <2>1. ret' = IF o \in SyncOps THEN ret ELSE [ret EXCEPT ![o] = "ok"]
    BY <1>1, <1>3 DEF Send, Return, IInv, TypeOK
  <2>2. Elems(queued') = Elems(queued) \cup {o}
    BY <1>3, AppendFacts DEF IInv, TypeOK
  <2>3. Taken' = Taken \cup {o}
    BY <1>1, <2>1, <2>2 DEF Taken, IInv, TypeOK
  <2>4. Line' = Append(Line, o)
    <3>. DEFINE front == IF bpc = "signal" THEN <<>> ELSE batch
    <3>1. front \in Seq(Ops) /\ writes \in Seq(Ops) /\ front' = front
      BY <1>1 DEF IInv, TypeOK
    <3>2. Line = front \o writes /\ Line' = front \o Append(writes, o)
      BY <1>1, <1>3 DEF Line
    <3>. HIDE DEF front
    <3>. QED
      BY <3>1, <3>2, AppendToConcat
  <2>5. o \notin Taken
    BY <1>1 DEF Taken
  <2>. QED
    BY <1>1, <2>1, <2>3, <2>4, <2>5 DEF DLog!Accept, Line, Taken
<1>. QED
  BY <1>2, <1>3 DEF Send

\* What a caller of execSync is told is an Answer of the log.
LEMMA AnswerRefines ==
  ASSUME IInv, LineInv, NEW o \in Ops, AwaitDone(o) \/ CtxDone(o)
  PROVE  DLog!Answer(o)
<1>. DEFINE a == IF AwaitDone(o) THEN doneCh[o] ELSE "ctx"
<1>1. /\ o \in SyncOps /\ o \notin DirectOps /\ call[o] = "waiting"
      /\ UNCHANGED <<db, bpc, batch, writes, queued>>
  BY OpsAssumption DEF AwaitDone, CtxDone, batcherVars, txVars
<1>2. ret' = [ret EXCEPT ![o] = a] /\ ret[o] = "none"
  BY <1>1 DEF AwaitDone, CtxDone, Return, LineInv
<1>3. o \in Taken /\ UNCHANGED <<Line, Taken>>
  BY <1>1, <1>2 DEF Line, Taken, LineInv, IInv, TypeOK
<1>4. \/ a = "ok" /\ o \in Elems(db)
      \/ a = "failed" /\ o \notin Elems(db) /\ o \notin Elems(Line)
      \/ a = "ctx"
  <2>1. CASE AwaitDone(o)
    <3>1. doneCh[o] \in {"ok", "failed"}
      BY <1>1, <2>1 DEF AwaitDone, IInv, TypeOK
    <3>2. doneCh[o] = "ok" => o \in Elems(db)
      BY <1>1 DEF IInv, Answers
    <3>3. doneCh[o] = "failed" => o \in rolledBack
      BY <1>1 DEF IInv, Answers
    <3>4. doneCh[o] = "failed" => o \notin Elems(db) /\ o \notin Elems(Line)
      BY <3>3, LineFacts DEF Finished, IInv, Placement
    <3>. QED
      BY <2>1, <3>1, <3>2, <3>4
  <2>2. CASE ~AwaitDone(o)
    BY <2>2
  <2>. QED
    BY <2>1, <2>2
<1>5. /\ o \in Elems(db) <=> DLog!In(o, db)
      /\ o \in Elems(Line) <=> DLog!In(o, Line)
  BY DEF Elems, DLog!In
<1>. HIDE DEF a
<1>6. DLog!Tell(o, a)
  BY <1>2 DEF DLog!Tell
<1>. QED
  BY <1>1, <1>3, <1>4, <1>5, <1>6 DEF DLog!Answer, Line, Taken

\* ExecResult writes past the line, or fails and leaves nothing.
LEMMA DirectRefines ==
  ASSUME IInv, LineInv, NEW o \in Ops, ExecResult(o)
  PROVE  DLog!Direct(o) \/ DLog!Refuse(o)
<1>1. /\ o \in DirectOps /\ call[o] = "idle" /\ ret[o] = "none" /\ o \notin Elems(queued)
      /\ UNCHANGED <<bpc, batch, writes, queued>>
  BY DEF ExecResult, LineInv, IInv, TypeOK, batcherVars
<1>2. o \notin Taken /\ UNCHANGED Line
  BY <1>1 DEF Line, Taken
<1>3. CASE Return(o, "ok") /\ db' = Append(db, o)
  <2>1. ret' = [ret EXCEPT ![o] = "ok"]
    BY <1>3 DEF Return
  <2>2. Taken' = Taken \cup {o}
    BY <1>1, <2>1 DEF Taken, IInv, TypeOK
  <2>. QED
    BY <1>1, <1>2, <1>3, <2>1, <2>2 DEF DLog!Direct, DLog!Tell, Line, Taken
<1>4. CASE Return(o, "failed") /\ UNCHANGED db
  <2>1. ret' = [ret EXCEPT ![o] = "failed"]
    BY <1>4 DEF Return
  <2>2. UNCHANGED Taken
    BY <1>1, <2>1 DEF Taken, IInv, TypeOK
  <2>. QED
    BY <1>1, <1>2, <1>4, <2>1, <2>2 DEF DLog!Refuse, DLog!Tell, Line, Taken
<1>. QED
  BY <1>3, <1>4 DEF ExecResult

\* A transaction takes the batch from the front of the line.
LEMMA ApplyRefines ==
  ASSUME IInv, LineInv, Apply
  PROVE  \E k \in 1..Len(Line) : DLog!Leave(k)
<1>1. /\ bpc = "collect" /\ bpc' = "signal" /\ batch # <<>>
      /\ batch \in Seq(Ops) /\ writes \in Seq(Ops) /\ db \in Seq(Ops)
      /\ UNCHANGED <<writes, ret, queued>>
  BY DEF Apply, LineInv, IInv, TypeOK, callVars
<1>2. Line = batch \o writes /\ Line' = <<>> \o writes
  BY <1>1 DEF Line
<1>3. Len(batch) \in 1..Len(Line)
  BY <1>1, <1>2
<1>4. /\ SubSeq(Line, 1, Len(batch)) = batch
      /\ SubSeq(Line, Len(batch) + 1, Len(Line)) = Line'
  BY <1>1, <1>2, SplitFacts
<1>5. db' = db \o batch \/ db' = db
  BY <1>1, SplitFacts DEF Apply, Commit
<1>6. DLog!Leave(Len(batch))
  BY <1>1, <1>4, <1>5 DEF DLog!Leave, Line, Taken
<1>. QED
  BY <1>3, <1>6

\* The batcher's other steps leave the line alone: what collect moves from
\* the channel to the batch stays at its place in the line.
LEMMA BatcherStutters ==
  ASSUME IInv, SelectWrite \/ SelectQuit \/ Exit \/ Collect \/ Signal
  PROVE  UNCHANGED <<Line, db, Taken, ret>>
<1>. USE DEF storeVars, batcherVars, txVars, callVars
<1>1. UNCHANGED <<db, ret, queued>> /\ UNCHANGED Taken
  BY DEF SelectWrite, SelectQuit, Exit, Collect, Signal, Taken
<1>2. CASE SelectWrite \/ Collect
  <2>1. /\ writes # <<>> /\ bpc # "signal" /\ bpc' = "collect"
        /\ writes' = Tail(writes) /\ batch' = Append(batch, Head(writes))
    BY <1>2 DEF SelectWrite, Collect, Receive, Take
  <2>2. batch' \o writes' = batch \o writes
    BY <2>1, ShiftFacts DEF IInv, TypeOK
  <2>. QED
    BY <1>1, <2>1, <2>2 DEF Line
<1>3. CASE SelectQuit \/ Exit
  BY <1>1, <1>3 DEF SelectQuit, Exit, Line
<1>4. CASE Signal
  BY <1>1, <1>4 DEF Signal, Line
<1>. QED
  BY <1>2, <1>3, <1>4

\* Every step of the store is a step of the log or changes nothing in it.
LEMMA StepRefines == IInv /\ LineInv /\ [Next]_vars => [DLog!Next]_<<Line, db, Taken, ret>>
<1>. SUFFICES ASSUME IInv, LineInv, [Next]_vars
              PROVE  DLog!Next \/ UNCHANGED <<Line, db, Taken, ret>>
  OBVIOUS
<1>1. CASE UNCHANGED vars
  BY <1>1 DEF vars, Line, Taken
<1>2. ASSUME NEW o \in Ops, LoadClosed(o)
      PROVE  DLog!Refuse(o) \/ UNCHANGED <<Line, db, Taken, ret>>
  <2>1. /\ call[o] = "idle" /\ o \notin DirectOps /\ ret[o] = "none" /\ o \notin Elems(queued)
        /\ UNCHANGED <<db, bpc, batch, writes, queued>>
    BY <1>2 DEF LoadClosed, LineInv, IInv, TypeOK, batcherVars, txVars
  <2>2. CASE UNCHANGED ret
    BY <2>1, <2>2 DEF Line, Taken
  <2>3. CASE Return(o, "closed")
    <3>1. ret' = [ret EXCEPT ![o] = "closed"]
      BY <2>3 DEF Return
    <3>2. o \notin Taken /\ UNCHANGED <<Line, Taken>>
      BY <2>1, <3>1 DEF Line, Taken, IInv, TypeOK
    <3>. QED
      BY <2>1, <3>1, <3>2 DEF DLog!Refuse, DLog!Tell, Line, Taken
  <2>. QED
    BY <1>2, <2>2, <2>3 DEF LoadClosed
<1>3. ASSUME NEW o \in Ops, CallerStep(o)
      PROVE  \/ DLog!Accept(o) \/ DLog!Refuse(o) \/ DLog!Direct(o) \/ DLog!Answer(o)
             \/ UNCHANGED <<Line, db, Taken, ret>>
  BY <1>2, <1>3, SendRefines, AnswerRefines, DirectRefines DEF CallerStep
<1>4. ASSUME BatcherStep
      PROVE  \/ \E k \in 1..Len(Line) : DLog!Leave(k)
             \/ UNCHANGED <<Line, db, Taken, ret>>
  BY <1>4, ApplyRefines, BatcherStutters DEF BatcherStep
<1>5. ASSUME NEW c \in Closers, CloserStep(c)
      PROVE  UNCHANGED <<Line, db, Taken, ret>>
  BY <1>5 DEF CloserStep, CloseCAS, CloseQuit, CloseDB, batcherVars, txVars, callVars, Line, Taken
<1>. QED
  BY <1>1, <1>3, <1>4, <1>5 DEF Next, DLog!Next, Line

\* The store implements the log of DurableLog: writes leave the line once, from
\* the front, in the order enqueue accepted them, and what every caller is told
\* about its write is so at the moment it is told.
THEOREM Refinement == Spec => ImplementsDurableLog
<1>1. Init => DLog!Init
  <2>. SUFFICES ASSUME Init PROVE DLog!Init
    OBVIOUS
  <2>1. Line = <<>>
    BY DEF Init, Line
  <2>2. Taken = {}
    BY EmptyFacts, OpsAssumption DEF Init, Taken
  <2>. QED
    BY <2>1, <2>2 DEF Init, DLog!Init, Line, Taken
<1>2. Init => LineInv
  BY EmptyFacts DEF Init, LineInv
<1>3. Spec => []LineInv
  BY <1>2, StepLine, Inductive, PTL DEF Spec
<1>4. IInv /\ LineInv /\ [Next]_vars => [DLog!Next]_DLog!vars
  BY StepRefines DEF Line, Taken, DLog!vars
<1>. QED
  BY <1>1, <1>3, <1>4, Inductive, PTL DEF Spec, ImplementsDurableLog, DLog!Spec

-----------------------------------------------------------------------------
(* The order of the commits.                                               *)

\* An element of a sequence comes before another one.
Precedes(s, x, y) == \E i, j \in 1..Len(s) : i < j /\ s[i] = x /\ s[j] = y

\* Nothing overtakes: the database, the line, and the line behind what has
\* been through a transaction are in the order of acceptance, and what was
\* accepted is in one of them.
OrderInv ==
    /\ \A x, y : Precedes(db, x, y) => ~Precedes(queued, y, x)
    /\ \A x, y : Precedes(Line, x, y) => ~Precedes(queued, y, x)
    /\ \A x \in Finished, y \in Elems(Line) : ~Precedes(queued, y, x)
    /\ Elems(queued) \subseteq Finished \cup Elems(Line)

\* What comes before what is in the sequence.
LEMMA PrecedesElems ==
  ASSUME NEW s, NEW x, NEW y, Precedes(s, x, y)
  PROVE  x \in Elems(s) /\ y \in Elems(s)
BY DEF Precedes, Elems

\* An appended element comes after all others.
LEMMA PrecedesAppend ==
  ASSUME NEW S, NEW s \in Seq(S), NEW e \in S, NEW x, NEW y, Precedes(Append(s, e), x, y)
  PROVE  Precedes(s, x, y) \/ (x \in Elems(s) /\ y = e)
<1>. DEFINE t == Append(s, e)
            n == Len(s)
<1>1. /\ n \in Nat /\ Len(t) = n + 1 /\ t[n + 1] = e
      /\ \A k \in 1..n : t[k] = s[k]
  OBVIOUS
<1>2. PICK i \in 1..Len(t), j \in 1..Len(t) : i < j /\ t[i] = x /\ t[j] = y
  BY DEF Precedes
<1>. HIDE DEF t, n
<1>3. i \in 1..n /\ (j \in 1..n \/ j = n + 1)
  BY <1>1, <1>2
<1>4. s[i] = x
  BY <1>1, <1>2, <1>3
<1>5. CASE j \in 1..n
  <2>1. s[j] = y
    BY <1>1, <1>2, <1>5
  <2>. QED
    BY <1>2, <1>3, <1>4, <1>5, <2>1 DEF Precedes, n
<1>6. CASE j = n + 1
  <2>1. y = e
    BY <1>1, <1>2, <1>6
  <2>. QED
    BY <1>3, <1>4, <2>1 DEF Elems, n
<1>. QED
  BY <1>3, <1>5, <1>6

\* In a concatenation the second part comes after the first.
LEMMA PrecedesConcat ==
  ASSUME NEW S, NEW s \in Seq(S), NEW t \in Seq(S), NEW x, NEW y
  PROVE  /\ Precedes(s \o t, x, y) =>
              \/ Precedes(s, x, y) \/ Precedes(t, x, y)
              \/ x \in Elems(s) /\ y \in Elems(t)
         /\ Precedes(s, x, y) => Precedes(s \o t, x, y)
         /\ Precedes(t, x, y) => Precedes(s \o t, x, y)
         /\ x \in Elems(s) /\ y \in Elems(t) => Precedes(s \o t, x, y)
<1>. DEFINE u == s \o t
            n == Len(s)
            m == Len(t)
<1>1. /\ n \in Nat /\ m \in Nat /\ Len(u) = n + m
      /\ \A k \in 1..n : u[k] = s[k]
      /\ \A k \in 1..m : u[n + k] = t[k]
  OBVIOUS
<1>. HIDE DEF u, n, m
<1>2. /\ \A k \in 1..n : k \in 1..Len(u)
      /\ \A k \in 1..m : n + k \in 1..Len(u)
      /\ \A k \in 1..Len(u) : k \in 1..n \/ (k - n \in 1..m /\ n + (k - n) = k)
  BY <1>1
<1>3. ASSUME Precedes(u, x, y)
      PROVE  \/ Precedes(s, x, y) \/ Precedes(t, x, y)
             \/ x \in Elems(s) /\ y \in Elems(t)
  <2>1. PICK i \in 1..Len(u), j \in 1..Len(u) : i < j /\ u[i] = x /\ u[j] = y
    BY <1>3 DEF Precedes
  <2>2. CASE i \in 1..n /\ j \in 1..n
    <3>1. s[i] = x /\ s[j] = y
      BY <1>1, <2>1, <2>2
    <3>. QED
      BY <2>1, <2>2, <3>1 DEF Precedes, n
  <2>3. CASE i \in 1..n /\ j - n \in 1..m
    <3>1. s[i] = x /\ t[j - n] = y
      BY <1>1, <1>2, <2>1, <2>3
    <3>. QED
      BY <2>3, <3>1 DEF Elems, n, m
  <2>4. CASE i - n \in 1..m
    <3>1. i - n < j - n /\ j - n \in 1..m
      BY <1>1, <2>1, <2>4
    <3>2. n + (i - n) = i /\ n + (j - n) = j
      BY <1>1, <2>1
    <3>3. u[n + (i - n)] = t[i - n] /\ u[n + (j - n)] = t[j - n]
      BY <1>1, <2>4, <3>1
    <3>4. t[i - n] = x /\ t[j - n] = y
      BY <2>1, <3>2, <3>3
    <3>. QED
      BY <2>4, <3>1, <3>4 DEF Precedes, m
  <2>. QED
    BY <1>2, <2>1, <2>2, <2>3, <2>4
<1>4. ASSUME Precedes(s, x, y)
      PROVE  Precedes(u, x, y)
  <2>1. PICK i \in 1..n, j \in 1..n : i < j /\ s[i] = x /\ s[j] = y
    BY <1>4 DEF Precedes, n
  <2>. QED
    BY <1>1, <1>2, <2>1 DEF Precedes
<1>5. ASSUME Precedes(t, x, y)
      PROVE  Precedes(u, x, y)
  <2>1. PICK i \in 1..m, j \in 1..m : i < j /\ t[i] = x /\ t[j] = y
    BY <1>5 DEF Precedes, m
  <2>2. n + i < n + j /\ n + i \in 1..Len(u) /\ n + j \in 1..Len(u)
    BY <1>1, <1>2, <2>1
  <2>3. u[n + i] = x /\ u[n + j] = y
    BY <1>1, <2>1
  <2>. QED
    BY <2>2, <2>3 DEF Precedes
<1>6. ASSUME x \in Elems(s), y \in Elems(t)
      PROVE  Precedes(u, x, y)
  <2>1. PICK i \in 1..n : s[i] = x
    BY <1>6 DEF Elems, n
  <2>2. PICK j \in 1..m : t[j] = y
    BY <1>6 DEF Elems, m
  <2>3. i < n + j /\ i \in 1..Len(u) /\ n + j \in 1..Len(u)
    BY <1>1, <1>2
  <2>4. u[i] = x /\ u[n + j] = y
    BY <1>1, <2>1, <2>2
  <2>. QED
    BY <2>3, <2>4 DEF Precedes
<1>. QED
  BY <1>3, <1>4, <1>5, <1>6 DEF u

\* A send puts its call at the end of the line.
LEMMA SendOrder ==
  ASSUME IInv, LineInv, OrderInv, NEW o \in Ops, Send(o)
  PROVE  OrderInv'
<1>1. /\ call[o] = "loaded" /\ o \notin Elems(queued) /\ o \notin InFlight \cup Finished
      /\ UNCHANGED <<db, rolledBack, bpc, batch>>
      /\ queued \in Seq(Ops) /\ batch \in Seq(Ops) /\ writes \in Seq(Ops)
  BY DEF Send, IInv, TypeOK, Placement, LineInv, batcherVars, txVars
<1>2. Finished' = Finished
  BY <1>1 DEF Finished
<1>3. CASE UNCHANGED <<writes, queued>>
  <2>1. Line' = Line
    BY <1>1, <1>3 DEF Line
  <2>. QED
    BY <1>1, <1>2, <1>3, <2>1 DEF OrderInv
<1>4. CASE writes' = Append(writes, o) /\ queued' = Append(queued, o)
  <2>1. Line \in Seq(Ops) /\ Line' = Append(Line, o)
    <3>. DEFINE front == IF bpc = "signal" THEN <<>> ELSE batch
    <3>1. front \in Seq(Ops) /\ front' = front
      BY <1>1
    <3>2. Line = front \o writes /\ Line' = front \o Append(writes, o)
      BY <1>1, <1>4 DEF Line
    <3>. HIDE DEF front
    <3>. QED
      BY <1>1, <3>1, <3>2, AppendToConcat, ConcatFacts
  <2>2. o \notin Elems(Line)
    <3>1. Elems(Line) \subseteq InFlight
      <4>1. CASE bpc = "signal"
        <5>1. Line = writes
          BY <1>1, <4>1, SplitFacts DEF Line
        <5>. QED
          BY <5>1 DEF InFlight
      <4>2. CASE bpc # "signal"
        <5>1. Line = batch \o writes
          BY <4>2 DEF Line
        <5>2. Elems(Line) = Elems(batch) \cup Elems(writes)
          BY <1>1, <5>1, ConcatFacts
        <5>. QED
          BY <5>2 DEF InFlight
      <4>. QED
        BY <4>1, <4>2
    <3>. QED
      BY <1>1, <3>1
  <2>3. /\ Elems(Append(Line, o)) = Elems(Line) \cup {o}
        /\ Elems(Append(queued, o)) = Elems(queued) \cup {o}
    BY <1>1, <2>1, AppendFacts
  <2>4. ASSUME NEW x, NEW y, x # o, ~Precedes(queued, y, x)
        PROVE  ~Precedes(Append(queued, o), y, x)
    BY <1>1, <2>4, PrecedesAppend
  <2>5. ASSUME NEW x
        PROVE  ~Precedes(Append(queued, o), o, x)
    <3>1. ~Precedes(queued, o, x)
      BY <1>1, PrecedesElems
    <3>. QED
      BY <1>1, <3>1, PrecedesAppend
  <2>6. ASSUME NEW x, NEW y, Precedes(db, x, y)
        PROVE  ~Precedes(Append(queued, o), y, x)
    <3>1. x # o
      BY <1>1, <2>6, PrecedesElems DEF Finished
    <3>. QED
      BY <2>4, <2>6, <3>1 DEF OrderInv
  <2>7. ASSUME NEW x, NEW y, Precedes(Append(Line, o), x, y)
        PROVE  ~Precedes(Append(queued, o), y, x)
    <3>1. Precedes(Line, x, y) \/ (x \in Elems(Line) /\ y = o)
      BY <2>1, <2>7, PrecedesAppend
    <3>2. x # o
      BY <2>2, <3>1, PrecedesElems
    <3>. QED
      BY <2>4, <2>5, <3>1, <3>2 DEF OrderInv
  <2>8. ASSUME NEW x \in Finished, NEW y \in Elems(Append(Line, o))
        PROVE  ~Precedes(Append(queued, o), y, x)
    <3>1. x # o
      BY <1>1
    <3>2. CASE y = o
      BY <2>5, <3>2
    <3>3. CASE y \in Elems(Line)
      BY <2>4, <3>1, <3>3 DEF OrderInv
    <3>. QED
      BY <2>3, <3>2, <3>3
  <2>9. Elems(Append(queued, o)) \subseteq Finished \cup Elems(Append(Line, o))
    BY <2>3 DEF OrderInv
  <2>. QED
    BY <1>1, <1>2, <1>4, <2>1, <2>6, <2>7, <2>8, <2>9 DEF OrderInv
<1>. QED
  BY <1>3, <1>4 DEF Send

\* A transaction moves the front of the line, as a whole and in its order.
LEMMA ApplyOrder ==
  ASSUME IInv, LineInv, OrderInv, Apply
  PROVE  OrderInv'
<1>1. /\ bpc = "collect" /\ bpc' = "signal" /\ UNCHANGED <<writes, queued>>
      /\ batch \in Seq(Ops) /\ writes \in Seq(Ops) /\ db \in Seq(Ops)
  BY DEF Apply, IInv, TypeOK, callVars
<1>2. Line = batch \o writes /\ Line' = writes
  <2>1. <<>> \o writes = writes
    BY <1>1, SplitFacts
  <2>. QED
    BY <1>1, <2>1 DEF Line
<1>3. Elems(Line) = Elems(batch) \cup Elems(writes)
  BY <1>1, <1>2, ConcatFacts
<1>4. \/ db' = db \o batch /\ rolledBack' = rolledBack
      \/ db' = db /\ rolledBack' = rolledBack \cup Elems(batch)
  <2>1. db \o <<>> = db
    BY <1>1, SplitFacts
  <2>. QED
    BY <2>1 DEF Apply, Commit
<1>5. Finished' = Finished \cup Elems(batch)
  <2>1. Elems(db \o batch) = Elems(db) \cup Elems(batch)
    BY <1>1, ConcatFacts
  <2>. QED
    BY <1>4, <2>1 DEF Finished
<1>6. ASSUME NEW x, NEW y, Precedes(db', x, y)
      PROVE  ~Precedes(queued, y, x)
  <2>1. CASE db' = db
    BY <1>6, <2>1 DEF OrderInv
  <2>2. CASE db' = db \o batch
    <3>1. \/ Precedes(db, x, y) \/ Precedes(batch, x, y)
          \/ x \in Elems(db) /\ y \in Elems(batch)
      BY <1>1, <1>6, <2>2, PrecedesConcat
    <3>2. Precedes(batch, x, y) => Precedes(Line, x, y)
      BY <1>1, <1>2, PrecedesConcat
    <3>. QED
      BY <1>3, <3>1, <3>2 DEF OrderInv, Finished
  <2>. QED
    BY <1>4, <2>1, <2>2
<1>7. ASSUME NEW x, NEW y, Precedes(writes, x, y)
      PROVE  ~Precedes(queued, y, x)
  <2>1. Precedes(Line, x, y)
    BY <1>1, <1>2, <1>7, PrecedesConcat
  <2>. QED
    BY <2>1 DEF OrderInv
<1>8. ASSUME NEW x \in Finished \cup Elems(batch), NEW y \in Elems(writes)
      PROVE  ~Precedes(queued, y, x)
  <2>1. CASE x \in Finished
    BY <1>3, <2>1 DEF OrderInv
  <2>2. CASE x \in Elems(batch)
    <3>1. Precedes(Line, x, y)
      BY <1>1, <1>2, <2>2, PrecedesConcat
    <3>. QED
      BY <3>1 DEF OrderInv
  <2>. QED
    BY <2>1, <2>2
<1>9. Elems(queued) \subseteq (Finished \cup Elems(batch)) \cup Elems(writes)
  BY <1>3 DEF OrderInv
<1>. QED
  BY <1>1, <1>2, <1>5, <1>6, <1>7, <1>8, <1>9 DEF OrderInv

\* A direct write was never in the line.
LEMMA DirectOrder ==
  ASSUME IInv, LineInv, OrderInv, NEW o \in Ops, ExecResult(o)
  PROVE  OrderInv'
<1>1. /\ call[o] = "idle" /\ o \notin Elems(queued) /\ db \in Seq(Ops)
      /\ UNCHANGED <<bpc, batch, writes, queued, rolledBack>>
  BY DEF ExecResult, LineInv, IInv, TypeOK, batcherVars
<1>2. Line' = Line
  BY <1>1 DEF Line
<1>3. CASE db' = db
  BY <1>1, <1>2, <1>3 DEF OrderInv, Finished
<1>4. CASE db' = Append(db, o)
  <2>1. Elems(db') = Elems(db) \cup {o}
    BY <1>1, <1>4, AppendFacts
  <2>2. Finished' = Finished \cup {o}
    BY <1>1, <2>1 DEF Finished
  <2>3. \A x : ~Precedes(queued, o, x) /\ ~Precedes(queued, x, o)
    BY <1>1, PrecedesElems
  <2>4. ASSUME NEW x, NEW y, Precedes(Append(db, o), x, y)
        PROVE  ~Precedes(queued, y, x)
    <3>1. Precedes(db, x, y) \/ y = o
      BY <1>1, <2>4, PrecedesAppend
    <3>. QED
      BY <2>3, <3>1 DEF OrderInv
  <2>. QED
    BY <1>1, <1>2, <1>4, <2>2, <2>3, <2>4 DEF OrderInv
<1>. QED
  BY <1>3, <1>4 DEF ExecResult

\* No step lets a write overtake another one.
LEMMA StepOrder == IInv /\ LineInv /\ OrderInv /\ [Next]_vars => OrderInv'
<1>. SUFFICES ASSUME IInv, LineInv, OrderInv, [Next]_vars
              PROVE  OrderInv'
  OBVIOUS
<1>1. ASSUME UNCHANGED <<Line, db, rolledBack, queued>>
      PROVE  OrderInv'
  BY <1>1 DEF OrderInv, Finished
<1>2. CASE UNCHANGED vars
  BY <1>1, <1>2 DEF vars, Line
<1>3. ASSUME NEW o \in Ops, CallerStep(o)
      PROVE  OrderInv'
  <2>1. CASE LoadClosed(o) \/ AwaitDone(o) \/ CtxDone(o)
    BY <1>1, <2>1 DEF LoadClosed, AwaitDone, CtxDone, Line, batcherVars, txVars
  <2>. QED
    BY <1>3, <2>1, SendOrder, DirectOrder DEF CallerStep
<1>4. CASE BatcherStep
  <2>1. CASE SelectWrite \/ SelectQuit \/ Exit \/ Collect \/ Signal
    <3>1. UNCHANGED <<Line, db>>
      BY <2>1, BatcherStutters
    <3>2. UNCHANGED <<rolledBack, queued>>
      BY <2>1 DEF SelectWrite, SelectQuit, Exit, Collect, Signal, txVars, callVars
    <3>. QED
      BY <1>1, <3>1, <3>2
  <2>. QED
    BY <1>4, <2>1, ApplyOrder DEF BatcherStep
<1>5. ASSUME NEW c \in Closers, CloserStep(c)
      PROVE  OrderInv'
  BY <1>1, <1>5 DEF CloserStep, CloseCAS, CloseQuit, CloseDB, batcherVars, txVars, callVars, Line
<1>. QED
  BY <1>2, <1>3, <1>4, <1>5 DEF Next

\* Nothing has been accepted when the store is opened.
LEMMA InitOrder == Init => OrderInv
<1>. SUFFICES ASSUME Init PROVE OrderInv
  OBVIOUS
<1>1. Line = <<>> /\ db = <<>> /\ queued = <<>>
  BY DEF Init, Line
<1>2. \A x, y : ~Precedes(<<>>, x, y)
  BY EmptyFacts, PrecedesElems
<1>. QED
  BY <1>1, <1>2, EmptyFacts DEF OrderInv

\* The order of acceptance is kept up to the database.
LEMMA InductiveOrder == Spec => []OrderInv
<1>1. Init => LineInv
  BY EmptyFacts DEF Init, LineInv
<1>2. Spec => []LineInv
  BY <1>1, StepLine, Inductive, PTL DEF Spec
<1>. QED
  BY <1>2, InitOrder, StepOrder, Inductive, PTL DEF Spec

\* Writes that go through the queue are committed in the order in which
\* enqueue accepted them, whatever batches are cut, rolled back or drained.
THEOREM CommitsKeepOrder == Spec => []CommitOrder
<1>1. IInv /\ OrderInv => CommitOrder
  <2>. SUFFICES ASSUME IInv, OrderInv, NEW i \in 1..Len(db), NEW j \in 1..Len(db), i < j
                PROVE  ~Before(db[j], db[i])
    BY DEF CommitOrder
  <2>1. Precedes(db, db[i], db[j])
    BY DEF Precedes
  <2>2. ~Precedes(queued, db[j], db[i])
    BY <2>1 DEF OrderInv
  <2>. QED
    BY <2>2 DEF Precedes, Before
<1>. QED
  BY <1>1, Inductive, InductiveOrder, PTL

\* A Flush that returns nil is a barrier: everything that was accepted before
\* it has been committed or rolled back.
THEOREM FlushIsBarrier == Spec => []FlushBarrier
<1>1. IInv /\ OrderInv => FlushBarrier
  <2>. SUFFICES ASSUME IInv, OrderInv, NEW f \in FlushOps, ret[f] = "ok",
                       NEW o \in Ops, Before(o, f)
                PROVE  o \in Finished
    BY DEF FlushBarrier, Resolved, Finished
  <2>1. Precedes(queued, o, f)
    BY DEF Precedes, Before
  <2>2. f \in Finished
    BY OpsAssumption DEF IInv, Answers, Finished
  <2>3. o \in Finished \cup Elems(Line)
    BY <2>1, PrecedesElems DEF OrderInv
  <2>. QED
    BY <2>1, <2>2, <2>3 DEF OrderInv
<1>. QED
  BY <1>1, Inductive, InductiveOrder, PTL
=============================================================================
