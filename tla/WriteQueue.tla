----------------------------- MODULE WriteQueue -----------------------------
(***************************************************************************)
(* The single-writer queue of internal/store/store.go.                     *)
(*                                                                         *)
(* Every queued write goes through enqueue into the buffered channel       *)
(* `writes'; one goroutine (batcher) takes up to BatchCap of them, applies *)
(* them in one SQLite transaction and reports the transaction's error to   *)
(* the callers that wait.  Close flips `closed', closes `quit', waits for  *)
(* the batcher to drain and closes the database.                           *)
(*                                                                         *)
(* A member of Ops is one call into the store; its SQL text and arguments  *)
(* play no role here.  exec, execSync (Flush included) and ExecResult are  *)
(* told apart by the sets below.                                           *)
(***************************************************************************)
EXTENDS Naturals, Sequences, FiniteSets

CONSTANTS
    Ops,        \* the calls made into the store, each made at most once
    SyncOps,    \* execSync: the caller waits on its own done channel
    CtxOps,     \* execSync whose ctx can end (the others use Background)
    FlushOps,   \* Flush: execSync of a no-op statement
    DirectOps,  \* ExecResult: bypasses the queue, runs on the pool
    Closers,    \* goroutines that call Close
    QueueCap,   \* writeQueueCap (4096 in the code)
    BatchCap    \* writeBatchCap (64 in the code)

ASSUME OpsAssumption ==
    /\ SyncOps \subseteq Ops
    /\ CtxOps \subseteq SyncOps
    /\ FlushOps \subseteq SyncOps
    /\ DirectOps \subseteq Ops
    /\ DirectOps \cap SyncOps = {}

ASSUME CapAssumption == QueueCap \in Nat \ {0} /\ BatchCap \in Nat \ {0}

VARIABLES
    closed,     \* Store.closed
    quit,       \* Store.quit has been closed
    exited,     \* Store.done has been closed: the batcher returned
    dbOpen,     \* db.Close has not run yet
    writes,     \* the buffered channel Store.writes
    bpc,        \* where the batcher is: "select", "collect" or "signal"
    draining,   \* the batcher is inside drainRemaining
    batch,      \* the batcher's local batch
    outcome,    \* of the last transaction (apply's error): "ok" or "failed"
    doneCh,     \* writeOp.done of each sync call: "empty", "ok" or "failed"
    call,       \* where each call is: "idle", "loaded", "waiting", "returned"
    ret,        \* what each call returned
    closer,     \* where each Close call is
    db,         \* the writes committed, in commit order
    rolledBack, \* history: calls whose transaction was rolled back
    queued,     \* history: the calls accepted by the channel, in order
    early       \* history: the calls accepted while closed was FALSE

vars == <<closed, quit, exited, dbOpen, writes, bpc, draining, batch, outcome,
          doneCh, call, ret, closer, db, rolledBack, queued, early>>

storeVars == <<closed, quit, exited, dbOpen>>
batcherVars == <<bpc, draining, batch, outcome>>
txVars == <<db, rolledBack>>
callVars == <<call, ret, queued, early>>

Elems(s) == {s[i] : i \in 1..Len(s)}
Distinct(s) == \A i, j \in 1..Len(s) : s[i] = s[j] => i = j

Results == {"none", "ok", "failed", "closed", "full", "ctx"}

TypeOK ==
    /\ closed \in BOOLEAN
    /\ quit \in BOOLEAN
    /\ exited \in BOOLEAN
    /\ dbOpen \in BOOLEAN
    /\ writes \in Seq(Ops) /\ Len(writes) <= QueueCap
    /\ bpc \in {"select", "collect", "signal"}
    /\ draining \in BOOLEAN
    /\ batch \in Seq(Ops) /\ Len(batch) <= BatchCap
    /\ bpc = "select" => batch = <<>>
    /\ outcome \in {"ok", "failed"}
    /\ doneCh \in [SyncOps -> {"empty", "ok", "failed"}]
    /\ call \in [Ops -> {"idle", "loaded", "waiting", "returned"}]
    /\ ret \in [Ops -> Results]
    /\ closer \in [Closers -> {"idle", "won", "waiting", "returned"}]
    /\ db \in Seq(Ops)
    /\ rolledBack \in SUBSET Ops
    /\ queued \in Seq(Ops)
    /\ early \in SUBSET Ops

\* Open: an empty queue and a batcher at its select.
Init ==
    /\ closed = FALSE /\ quit = FALSE /\ exited = FALSE /\ dbOpen = TRUE
    /\ writes = <<>>
    /\ bpc = "select" /\ draining = FALSE /\ batch = <<>> /\ outcome = "ok"
    /\ doneCh = [o \in SyncOps |-> "empty"]
    /\ call = [o \in Ops |-> "idle"]
    /\ ret = [o \in Ops |-> "none"]
    /\ closer = [c \in Closers |-> "idle"]
    /\ db = <<>>
    /\ rolledBack = {}
    /\ queued = <<>>
    /\ early = {}

-----------------------------------------------------------------------------
(* The callers: enqueue, exec, execSync, Flush and ExecResult.             *)

Return(o, r) ==
    /\ call' = [call EXCEPT ![o] = "returned"]
    /\ ret' = [ret EXCEPT ![o] = r]

\* enqueue's first statement: the load of closed, and its early return.
LoadClosed(o) ==
    /\ o \in Ops \ DirectOps
    /\ call[o] = "idle"
    /\ \/ closed /\ Return(o, "closed")
       \/ ~closed /\ call' = [call EXCEPT ![o] = "loaded"] /\ UNCHANGED ret
    /\ UNCHANGED <<storeVars, writes, batcherVars, txVars, doneCh, closer, queued, early>>

\* Mutant: off by one at the channel's capacity.
FullOffByOne == Len(writes) > QueueCap

\* The channel's buffer is full: the send takes select's default branch.
Full == Len(writes) >= QueueCap

\* enqueue's non-blocking send.  exec drops the error and returns; execSync
\* returns it, or goes on to wait.  The load of closed is not repeated.
Send(o) ==
    /\ call[o] = "loaded"
    /\ \/ /\ ~Full
          /\ writes' = Append(writes, o)
          /\ queued' = Append(queued, o)
          /\ early' = IF closed THEN early ELSE early \cup {o}
          /\ \/ o \in SyncOps /\ call' = [call EXCEPT ![o] = "waiting"] /\ UNCHANGED ret
             \/ o \notin SyncOps /\ Return(o, "ok")
       \/ /\ Full
          /\ Return(o, "full")
          /\ UNCHANGED <<writes, queued, early>>
    /\ UNCHANGED <<storeVars, batcherVars, txVars, doneCh, closer>>

\* execSync's select, first branch: the batcher's answer.
AwaitDone(o) ==
    /\ o \in SyncOps
    /\ call[o] = "waiting"
    /\ doneCh[o] # "empty"
    /\ Return(o, doneCh[o])
    /\ doneCh' = [doneCh EXCEPT ![o] = "empty"]
    /\ UNCHANGED <<storeVars, writes, batcherVars, txVars, closer, queued, early>>

\* Its second branch: the caller's ctx ends first.  The write stays queued.
CtxDone(o) ==
    /\ o \in CtxOps
    /\ call[o] = "waiting"
    /\ Return(o, "ctx")
    /\ UNCHANGED <<storeVars, writes, batcherVars, txVars, doneCh, closer, queued, early>>

\* ExecResult: one statement on the connection pool, outside the batcher.
ExecResult(o) ==
    /\ o \in DirectOps
    /\ call[o] = "idle"
    /\ \/ dbOpen /\ Return(o, "ok") /\ db' = Append(db, o)
       \/ Return(o, "failed") /\ UNCHANGED db
    /\ UNCHANGED <<storeVars, writes, batcherVars, rolledBack, doneCh, closer, queued, early>>

-----------------------------------------------------------------------------
(* The batcher goroutine.                                                  *)

\* Mutant: the newest write is taken first.
TakeLast(s) == <<s[Len(s)], SubSeq(s, 1, Len(s) - 1)>>

\* Receive: the oldest element of the channel and what is left in it.
Take(s) == <<Head(s), Tail(s)>>

Receive ==
    /\ writes # <<>>
    /\ writes' = Take(writes)[2]
    /\ batch' = Append(batch, Take(writes)[1])
    /\ bpc' = "collect"

\* The select of batcher and of drainRemaining: first element of a batch.
SelectWrite ==
    /\ ~exited
    /\ bpc = "select"
    /\ Receive
    /\ UNCHANGED <<storeVars, draining, outcome, txVars, doneCh, closer, callVars>>

\* The other branch of batcher's select, open once quit is closed.
SelectQuit ==
    /\ ~exited
    /\ bpc = "select" /\ ~draining
    /\ quit
    /\ draining' = TRUE
    /\ UNCHANGED <<storeVars, writes, bpc, batch, outcome, txVars, doneCh, closer, callVars>>

\* Mutant: drainRemaining returns after at most one batch.
DrainDoneEarly == TRUE

\* drainRemaining's default branch: only an empty channel ends the drain.
DrainDone == writes = <<>>

\* drainRemaining returns and the deferred close(done) runs.
Exit ==
    /\ ~exited
    /\ bpc = "select" /\ draining
    /\ DrainDone
    /\ exited' = TRUE
    /\ UNCHANGED <<closed, quit, dbOpen, writes, batcherVars, txVars, doneCh, closer, callVars>>

\* collect: one more element while the batch is not full.
Collect ==
    /\ bpc = "collect"
    /\ Len(batch) < BatchCap
    /\ Receive
    /\ UNCHANGED <<storeVars, draining, outcome, txVars, doneCh, closer, callVars>>

\* Mutant: a failed transaction leaves its first statement behind.
CommitWithoutRollback(out) == IF out = "ok" THEN batch ELSE SubSeq(batch, 1, 1)

\* What apply's transaction adds to the database: everything, or, after the
\* Rollback that follows any failing statement, nothing.
Commit(out) == IF out = "ok" THEN batch ELSE <<>>

\* collect returns (batch full or channel empty) and apply runs.
Apply ==
    /\ bpc = "collect"
    /\ Len(batch) = BatchCap \/ writes = <<>>
    /\ \E out \in IF dbOpen THEN {"ok", "failed"} ELSE {"failed"} :
        /\ db' = db \o Commit(out)
        /\ rolledBack' = IF out = "ok" THEN rolledBack ELSE rolledBack \cup Elems(batch)
        /\ outcome' = out
    /\ bpc' = "signal"
    /\ UNCHANGED <<storeVars, writes, draining, batch, doneCh, closer, callVars>>

\* Mutant: every waiting caller is told the write succeeded.
AnswerAlwaysOk == "ok"

\* The error sent on done: the transaction's, the same for the whole batch.
Answer == outcome

\* Mutant: only failures are ever reported.
ReportsOnlyErrors == outcome = "failed"

\* batcher reports every outcome; drainRemaining only failures.
Reports == ~draining \/ outcome = "failed"

\* The loop over the batch that answers the callers that wait.
Signal ==
    /\ bpc = "signal"
    /\ doneCh' = [o \in SyncOps |-> IF Reports /\ o \in Elems(batch)
                                    THEN Answer ELSE doneCh[o]]
    /\ bpc' = "select"
    /\ batch' = <<>>
    /\ UNCHANGED <<storeVars, writes, draining, outcome, txVars, closer, callVars>>

-----------------------------------------------------------------------------
(* Close.                                                                  *)

\* The CompareAndSwap: only one Close goes on, the others return nil.
CloseCAS(c) ==
    /\ closer[c] = "idle"
    /\ closed' = TRUE
    /\ closer' = [closer EXCEPT ![c] = IF closed THEN "returned" ELSE "won"]
    /\ UNCHANGED <<quit, exited, dbOpen, writes, batcherVars, txVars, doneCh, callVars>>

\* Mutant: close(s.quit) is forgotten.
CloseQuitForgotten(c) ==
    /\ closer[c] = "won"
    /\ closer' = [closer EXCEPT ![c] = "waiting"]
    /\ UNCHANGED <<closed, quit, exited, dbOpen, writes, batcherVars, txVars, doneCh, callVars>>

\* close(s.quit)
CloseQuit(c) ==
    /\ closer[c] = "won"
    /\ quit' = TRUE
    /\ closer' = [closer EXCEPT ![c] = "waiting"]
    /\ UNCHANGED <<closed, exited, dbOpen, writes, batcherVars, txVars, doneCh, callVars>>

\* <-s.done, then the database is closed.
CloseDB(c) ==
    /\ closer[c] = "waiting"
    /\ exited
    /\ dbOpen' = FALSE
    /\ closer' = [closer EXCEPT ![c] = "returned"]
    /\ UNCHANGED <<closed, quit, exited, writes, batcherVars, txVars, doneCh, callVars>>

-----------------------------------------------------------------------------

CallerStep(o) ==
    LoadClosed(o) \/ Send(o) \/ AwaitDone(o) \/ CtxDone(o) \/ ExecResult(o)
BatcherStep == SelectWrite \/ SelectQuit \/ Exit \/ Collect \/ Apply \/ Signal
CloserStep(c) == CloseCAS(c) \/ CloseQuit(c) \/ CloseDB(c)

Next ==
    \/ \E o \in Ops : CallerStep(o)
    \/ BatcherStep
    \/ \E c \in Closers : CloserStep(c)

Spec == Init /\ [][Next]_vars

\* Goroutines that can run do run: the Go scheduler starves none of them.
\* Nobody is obliged to start a call or to call Close, and no ctx need end.
Fairness ==
    /\ WF_vars(BatcherStep)
    /\ \A o \in Ops : WF_vars(Send(o) \/ AwaitDone(o))
    /\ \A c \in Closers : WF_vars(CloseQuit(c) \/ CloseDB(c))

FairSpec == Spec /\ Fairness

-----------------------------------------------------------------------------
(* Properties.                                                             *)

Resolved(o) == o \in Elems(db) \cup rolledBack

\* A caller of execSync or ExecResult that was told nil finds its write
\* committed: execSync's answer is the error of the transaction that held it.
AckedIsDurable ==
    \A o \in SyncOps \cup DirectOps : ret[o] = "ok" => o \in Elems(db)

\* A caller that was told an error (a failed transaction, a closed store, a
\* full queue) has nothing in the database, so a retry cannot apply it twice.
ErrorMeansAbsent ==
    \A o \in Ops : ret[o] \in {"failed", "closed", "full"} => o \notin Elems(db)

\* No write is committed twice, although batches are built from a channel
\* that callers keep filling.
AppliedAtMostOnce == Distinct(db)

\* Position of a call in the accepted order.
Before(o, p) == \E i, j \in 1..Len(queued) : i < j /\ queued[i] = o /\ queued[j] = p

\* Queued writes reach the database in the order in which enqueue accepted
\* them: one batcher, one channel.
CommitOrder ==
    \A i, j \in 1..Len(db) : i < j => ~Before(db[j], db[i])

\* Flush is a barrier: when it returns nil, every write queued before it has
\* been through its transaction.
FlushBarrier ==
    \A f \in FlushOps : ret[f] = "ok" =>
        \A o \in Ops : Before(o, f) => Resolved(o)

\* A graceful stop keeps what was queued before it: when the Close that won
\* has returned, every write accepted before it began has been through its
\* transaction (drainRemaining's purpose).
GracefulStopDrains ==
    ~dbOpen => \A o \in early : Resolved(o)

\* "Close stops the batcher (draining queued writes) and closes the database":
\* once the database is closed no accepted write is left in the queue.  The
\* code does not keep it: enqueue's load of closed and its send are two steps,
\* and the whole drain may run in between.
NoWriteLeftBehind == ~dbOpen => writes = <<>>

\* "execSync queues a write and waits for its error": a caller that waits has
\* its answer in the end.  The code does not keep it: a write that is drained
\* successfully is answered by nobody.
SyncAnswered == \A o \in SyncOps : call[o] = "waiting" ~> call[o] = "returned"

\* Close returns: the batcher always reaches the end of its drain, and a Close
\* that comes second does not wait for the first.
CloseReturns == \A c \in Closers : closer[c] # "idle" ~> closer[c] = "returned"

\* While nobody closes the store, a caller of execSync gets its answer.
SyncAnsweredWhileOpen ==
    \A o \in SyncOps : (call[o] = "waiting") ~> (call[o] = "returned" \/ closed)

\* The store implements the log of DurableLog: a batch that has not been
\* applied is the front of the line, the channel is the rest of it.  In
\* particular writes reach the database once and in the order enqueue accepted
\* them, and a Flush that was answered had everything before it applied.
DLog == INSTANCE DurableLog WITH
    Waiting <- SyncOps,
    pending <- (IF bpc = "signal" THEN <<>> ELSE batch) \o writes,
    log <- db,
    accepted <- Elems(queued) \cup {o \in DirectOps : ret[o] = "ok"},
    told <- ret

ImplementsDurableLog == DLog!Spec

-----------------------------------------------------------------------------
(* The inductive invariant behind the proofs of WriteQueueProofs.          *)

\* Where an accepted write can be.
InFlight == Elems(writes) \cup Elems(batch)
Finished == Elems(db) \cup rolledBack

\* A write that was not sent yet is nowhere; one on its way to the database
\* has not been through a transaction, unless the batcher is about to report.
Placement ==
    /\ \A o \in Ops : call[o] \in {"idle", "loaded"} => o \notin InFlight \cup Finished
    /\ \A o \in DirectOps : call[o] \in {"idle", "returned"} /\ o \notin InFlight \cup rolledBack
    /\ Elems(writes) \cap (Elems(batch) \cup Finished) = {}
    /\ bpc # "signal" => Elems(batch) \cap Finished = {}
    /\ Elems(db) \cap rolledBack = {}
    /\ Distinct(writes) /\ Distinct(batch) /\ Distinct(db)

\* What the batcher knows and what the callers were told.
Answers ==
    /\ bpc = "signal" => Elems(batch) \subseteq
                                    (IF outcome = "ok" THEN Elems(db) ELSE rolledBack)
    /\ \A o \in SyncOps : doneCh[o] = "ok" => o \in Elems(db)
    /\ \A o \in SyncOps : doneCh[o] = "failed" => o \in rolledBack
    /\ \A o \in SyncOps \cup DirectOps : ret[o] = "ok" => o \in Elems(db)
    /\ \A o \in Ops : ret[o] \in {"closed", "full"} =>
                        call[o] = "returned" /\ o \notin InFlight \cup Finished
    /\ \A o \in Ops : ret[o] = "failed" =>
                        \/ o \in rolledBack
                        \/ o \in DirectOps /\ call[o] = "returned" /\ o \notin Elems(db)

\* The order of a shutdown.
Shutdown ==
    /\ \A c \in Closers : closer[c] = "won" => closed
    /\ quit => closed
    /\ draining => quit
    /\ exited => draining
    /\ exited => bpc = "select"
    /\ ~dbOpen => exited
    /\ early \subseteq InFlight \cup Finished
    /\ exited => Elems(writes) \cap early = {}

IInv == TypeOK /\ Placement /\ Answers /\ Shutdown

\* What the refinement needs besides: the calls and the line agree.  A call
\* that was sent is waiting or has returned, one that waits was sent, only a
\* call that returned has an answer, and apply never runs on an empty batch.
LineInv ==
    /\ \A o \in Ops : o \in Elems(queued) => call[o] \in {"waiting", "returned"}
    /\ \A o \in Ops : call[o] = "waiting" => o \in Elems(queued)
    /\ \A o \in Ops : call[o] # "returned" => ret[o] = "none"
    /\ bpc = "collect" => batch # <<>>
=============================================================================
