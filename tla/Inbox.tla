------------------------------- MODULE Inbox -------------------------------
(***************************************************************************)
(* The durable Telegram inbox (internal/telegram/inbox.go), its transports *)
(* (poll.go, webhook.go) and the dispatcher's path from an inbox row to a  *)
(* reply (Process in dispatcher.go).                                       *)
(*                                                                         *)
(* Updates are numbered 1..N in the order the user sends them.  A transport*)
(* records an update as a row; the workers read pending rows with no lease,*)
(* so several may hold the same row; the reply is claimed with one         *)
(* conditional UPDATE before it is sent.  The process may crash and restart*)
(* between any two steps, store calls and Bot API calls may fail.          *)
(*                                                                         *)
(* What a command does and what a reply says are abstracted to the number  *)
(* of times the command ran and the number of replies the user got.        *)
(***************************************************************************)
EXTENDS Naturals, Sequences, FiniteSets

CONSTANTS
    N,             \* updates the user sends
    Scenarios,     \* the transport, and which arm of Process handles each update
    Workers,       \* the pool's workers
    PendingLimit,  \* rows a worker reads at a time (10 in the code)
    ScanLimit,     \* rows advance reads (pollBatchMax*10 in the code)
    BatchMax,      \* updates one getUpdates answers with
    MaxFaults      \* bound on crashes and failures of a behaviour

Updates == 1..N

\* "skip": chat not on the allowlist, or nothing to answer.  "command": the
\* body is computed (the command runs) and then claimed and sent.
\* "analysis": the same, for the two arms of the switch that do not return
\* and go on to the unknown-command arm.  "router": claim, run, send.
\* "prompt": claim, placeholder, run, edit.
Kinds == {"skip", "command", "analysis", "router", "prompt"}

ASSUME UpdatesAssumption ==
    N \in Nat /\ Scenarios \subseteq [webhook : BOOLEAN, kind : [Updates -> Kinds]]
ASSUME LimitsAssumption ==
    PendingLimit \in Nat \ {0} /\ ScanLimit \in Nat \ {0} /\ BatchMax \in Nat \ {0}
ASSUME FaultsAssumption == MaxFaults \in Nat

VARIABLES
    webhook,    \* cfg.TelegramUseWebhook(); else long polling
    kind,       \* kind[u]: the arm of Process for update u
    arrived,    \* updates 1..arrived have been sent to the bot
    forgotten,  \* updates the Bot API will not deliver again
    status,     \* telegram_inbox.status, "none" if there is no row
    claimed,    \* telegram_inbox.replied_at IS NOT NULL
    high,       \* kv_state telegram.high_water
    poller,     \* [pc, batch, next, ack] of the poll loop
    worker,     \* [pc, list, cur, again] of each worker
    ran,        \* history: how often the update's command or prompt ran
    replies,    \* history: how many replies to the update the user got
    missed,     \* history: updates whose insert failed in the poll loop
    lost,       \* history: messages to the user whose answer the bot did not get
    faults      \* crashes and failures so far

rowVars == <<status, claimed>>
pollVars == <<arrived, forgotten, high, poller>>
histVars == <<ran, replies, lost>>
fixed == <<webhook, kind>>
vars == <<rowVars, pollVars, missed, worker, histVars, faults, fixed>>

Statuses == {"none", "pending", "done", "failed", "skipped"}
PollPCs == {"read", "get", "enqueue", "scan", "advance"}
WorkerPCs == {"idle", "claim", "send", "run", "edit", "fallback", "release"}

\* The states of a worker that owns its row's reply: the claim is won and
\* neither sent nor given up.
Holding == {"send", "run", "edit", "fallback", "release"}

Idle == [pc |-> "idle", list |-> <<>>, cur |-> 0, again |-> FALSE]
Polling == [pc |-> "read", batch |-> <<>>, next |-> 1, ack |-> 0]

TypeOK ==
    /\ webhook \in BOOLEAN
    /\ kind \in [Updates -> Kinds]
    /\ arrived \in 0..N
    /\ forgotten \subseteq Updates
    /\ status \in [Updates -> Statuses]
    /\ claimed \in [Updates -> BOOLEAN]
    /\ high \in 0..N
    /\ poller \in [pc : PollPCs, batch : Seq(Updates), next : Nat, ack : 0..N]
    /\ worker \in [Workers -> [pc : WorkerPCs, list : Seq(Updates), cur : 0..N, again : BOOLEAN]]
    /\ \A w \in Workers : worker[w].pc # "idle" => worker[w].cur \in Updates
    /\ ran \in [Updates -> Nat]
    /\ replies \in [Updates -> Nat]
    /\ missed \subseteq Updates
    /\ lost \in [Updates -> Nat]
    /\ faults \in 0..MaxFaults

Init ==
    /\ \E s \in Scenarios : webhook = s.webhook /\ kind = s.kind
    /\ arrived = 0
    /\ forgotten = {}
    /\ status = [u \in Updates |-> "none"]
    /\ claimed = [u \in Updates |-> FALSE]
    /\ high = 0
    /\ poller = Polling
    /\ worker = [w \in Workers |-> Idle]
    /\ ran = [u \in Updates |-> 0]
    /\ replies = [u \in Updates |-> 0]
    /\ missed = {}
    /\ lost = [u \in Updates |-> 0]
    /\ faults = 0

-----------------------------------------------------------------------------
(* Faults.                                                                 *)

\* A store call or a call of the Bot API fails, out of the behaviour's budget.
Fail ==
    /\ faults < MaxFaults
    /\ faults' = faults + 1

\* The process dies and boots again: rows, claims and the cursor are durable,
\* everything else starts over.
Restart ==
    /\ Fail
    /\ poller' = Polling
    /\ worker' = [w \in Workers |-> Idle]
    /\ UNCHANGED <<rowVars, arrived, forgotten, high, histVars, missed, fixed>>

-----------------------------------------------------------------------------
(* Transports.                                                             *)

\* The user writes to the bot.
Arrive ==
    /\ arrived < N
    /\ arrived' = arrived + 1
    /\ UNCHANGED <<rowVars, forgotten, high, poller, worker, histVars, faults, missed, fixed>>

\* Enqueue: INSERT OR IGNORE on update_id.
Enqueue(u) == status' = [status EXCEPT ![u] = IF @ = "none" THEN "pending" ELSE @]

\* The oldest k elements of a set of updates, in order.
Oldest(S, k) ==
    LET n == IF Cardinality(S) < k THEN Cardinality(S) ELSE k
    IN  [i \in 1..n |-> CHOOSE u \in S : Cardinality({v \in S : v <= u}) = i]

\* Pending: the oldest pending rows, up to a limit.
Pending(k) == Oldest({u \in Updates : status[u] = "pending"}, k)

\* Mutant: any failed insert is acknowledged like a successful one.
WebhookDeliverAlwaysOK(u) ==
    /\ webhook
    /\ u <= arrived /\ u \notin forgotten
    /\ \/ Enqueue(u) /\ UNCHANGED faults
       \/ Fail /\ UNCHANGED status
    /\ forgotten' = forgotten \cup {u}
    /\ UNCHANGED <<claimed, arrived, high, poller, worker, histVars, missed, fixed>>

\* The webhook handler: 200 once the row is in (the answer may get lost, so
\* that Telegram delivers again), 500 if it is not.
WebhookDeliver(u) ==
    /\ webhook
    /\ u <= arrived /\ u \notin forgotten
    /\ \/ /\ Enqueue(u)
          /\ \/ forgotten' = forgotten \cup {u} /\ UNCHANGED faults
             \/ Fail /\ UNCHANGED forgotten
       \/ Fail /\ UNCHANGED <<status, forgotten>>
    /\ UNCHANGED <<claimed, arrived, high, poller, worker, histVars, missed, fixed>>

\* HighWater; a failing query reads as "nothing acknowledged yet".
PollRead ==
    /\ ~webhook
    /\ poller.pc = "read"
    /\ \/ poller' = [poller EXCEPT !.pc = "get", !.ack = high] /\ UNCHANGED faults
       \/ Fail /\ poller' = [poller EXCEPT !.pc = "get", !.ack = 0]
    /\ UNCHANGED <<rowVars, arrived, forgotten, high, worker, histVars, missed, fixed>>

\* getUpdates(ack + 1): the Bot API forgets what is below the offset and
\* answers with the rest; an empty answer starts the loop again.
Fetched == Oldest({u \in 1..arrived : u > poller.ack /\ u \notin forgotten}, BatchMax)

PollGet ==
    /\ poller.pc = "get"
    /\ forgotten' = forgotten \cup {u \in Updates : u <= poller.ack}
    /\ \/ /\ Fetched # <<>>
          /\ poller' = [poller EXCEPT !.pc = "enqueue", !.batch = Fetched]
          /\ UNCHANGED faults
       \/ Fetched = <<>> /\ poller' = Polling /\ UNCHANGED faults
       \/ Fail /\ poller' = Polling
    /\ UNCHANGED <<rowVars, arrived, high, worker, histVars, missed, fixed>>

\* The loop over the batch, one Enqueue at a time; a failing insert is logged
\* and the loop goes on.
PollEnqueue ==
    /\ poller.pc = "enqueue"
    /\ \/ Enqueue(poller.batch[poller.next]) /\ UNCHANGED <<missed, faults>>
       \/ Fail /\ missed' = missed \cup {poller.batch[poller.next]} /\ UNCHANGED status
    /\ poller' = IF poller.next = Len(poller.batch) THEN [poller EXCEPT !.pc = "scan"]
                 ELSE [poller EXCEPT !.next = @ + 1]
    /\ UNCHANGED <<claimed, arrived, forgotten, high, worker, histVars, fixed>>

\* Mutant: only answered rows are acknowledged.
AckToDoneOnly(batch) ==
    LET ok(i) == \A j \in 1..i : status[batch[j]] = "done"
    IN  IF ok(1) THEN batch[CHOOSE i \in 1..Len(batch) :
                                /\ ok(i)
                                /\ i = Len(batch) \/ ~ok(i + 1)] ELSE 0

\* Mutant: the scan stops at nothing.
AckToAll(batch) == batch[Len(batch)]

\* advance: the last update of the batch before the first pending one, going
\* by the pending rows that the scan saw.
AckTo(batch) ==
    LET seen == Pending(ScanLimit)
        ok(i) == \A j \in 1..i, k \in 1..Len(seen) : seen[k] # batch[j]
    IN  IF ok(1) THEN batch[CHOOSE i \in 1..Len(batch) :
                                /\ ok(i)
                                /\ i = Len(batch) \/ ~ok(i + 1)] ELSE 0

PollScan ==
    /\ poller.pc = "scan"
    /\ \/ /\ poller' = IF AckTo(poller.batch) = 0 THEN Polling
                       ELSE [poller EXCEPT !.pc = "advance", !.ack = AckTo(poller.batch)]
          /\ UNCHANGED faults
       \/ Fail /\ poller' = Polling
    /\ UNCHANGED <<rowVars, arrived, forgotten, high, worker, histVars, missed, fixed>>

\* AdvanceHighWater.
PollAdvance ==
    /\ poller.pc = "advance"
    /\ \/ high' = poller.ack /\ UNCHANGED faults
       \/ Fail /\ UNCHANGED high
    /\ poller' = Polling
    /\ UNCHANGED <<rowVars, arrived, forgotten, worker, histVars, missed, fixed>>

-----------------------------------------------------------------------------
(* Workers and the dispatcher.                                             *)

\* A worker with nothing left to do reads the pending rows.
WorkerRead(w) ==
    /\ worker[w].pc = "idle" /\ worker[w].list = <<>>
    /\ Pending(PendingLimit) # <<>>
    /\ worker' = [worker EXCEPT ![w].list = Pending(PendingLimit)]
    /\ UNCHANGED <<rowVars, pollVars, histVars, faults, missed, fixed>>

\* Mutant: denied updates are left as they are.
SkippedPending == "pending"

\* The status MarkStatus writes for denied and empty updates.
Skipped == "skipped"

\* Process takes the next row of the snapshot.  Commands run before the
\* claim; denied and empty updates are marked and done.
Process(w) ==
    /\ worker[w].pc = "idle" /\ worker[w].list # <<>>
    /\ LET u == Head(worker[w].list)
           next == [worker[w] EXCEPT !.list = Tail(@), !.cur = u,
                                     !.pc = IF kind[u] = "skip" THEN "idle" ELSE "claim",
                                     !.again = kind[u] = "analysis"]
       IN  /\ worker' = [worker EXCEPT ![w] = next]
           /\ ran' = [ran EXCEPT ![u] = IF kind[u] \in {"command", "analysis"} THEN @ + 1 ELSE @]
           /\ \/ status' = [status EXCEPT ![u] = IF kind[u] = "skip" THEN Skipped ELSE @]
                 /\ UNCHANGED faults
              \/ kind[u] = "skip" /\ Fail /\ UNCHANGED status
    /\ UNCHANGED <<claimed, pollVars, replies, lost, missed, fixed>>

\* The row is left; an analysis command goes on to the unknown-command arm.
Leave(w) ==
    worker' = [worker EXCEPT ![w].pc = IF worker[w].again THEN "claim" ELSE "idle",
                             ![w].again = FALSE]

\* Mutant: the UPDATE forgets "AND replied_at IS NULL".
ClaimableAlways(u) == status[u] # "none"

\* Whether ClaimReply's conditional UPDATE finds its row.
Claimable(u) == status[u] # "none" /\ ~claimed[u]

\* ClaimReply: the winner goes on to send, everyone else leaves.
ClaimReply(w) ==
    LET u == worker[w].cur IN
    /\ worker[w].pc = "claim"
    /\ \/ /\ Claimable(u)
          /\ claimed' = [claimed EXCEPT ![u] = TRUE]
          /\ status' = [status EXCEPT ![u] = "done"]
          /\ worker' = [worker EXCEPT ![w].pc = IF kind[u] = "router" THEN "run" ELSE "send"]
          /\ UNCHANGED faults
       \/ ~Claimable(u) /\ Leave(w) /\ UNCHANGED <<rowVars, faults>>
       \/ Fail /\ Leave(w) /\ UNCHANGED rowVars
    /\ UNCHANGED <<pollVars, histVars, missed, fixed>>

\* engine.Run for a prompt (after its placeholder) or a router command.
RunEngine(w) ==
    LET u == worker[w].cur IN
    /\ worker[w].pc = "run"
    /\ ran' = [ran EXCEPT ![u] = @ + 1]
    /\ worker' = [worker EXCEPT ![w].pc = IF kind[u] = "prompt" THEN "edit" ELSE "send"]
    /\ UNCHANGED <<rowVars, pollVars, replies, lost, faults, missed, fixed>>

Sent(u) == replies' = [replies EXCEPT ![u] = @ + 1] /\ UNCHANGED lost
SentAnswerLost(u) ==
    replies' = [replies EXCEPT ![u] = @ + 1] /\ lost' = [lost EXCEPT ![u] = @ + 1]

\* waitChat and SendMessage: delivered, refused (or rate limited), or
\* delivered with the answer lost.  A prompt's placeholder is no reply.
Send(w) ==
    LET u == worker[w].cur IN
    /\ worker[w].pc = "send"
    /\ \/ /\ kind[u] = "prompt"
          /\ worker' = [worker EXCEPT ![w].pc = "run"]
          /\ UNCHANGED <<replies, lost, faults>>
       \/ kind[u] # "prompt" /\ Sent(u) /\ Leave(w) /\ UNCHANGED faults
       \/ /\ Fail
          /\ worker' = [worker EXCEPT ![w].pc = "release"]
          /\ UNCHANGED <<replies, lost>>
       \/ /\ kind[u] # "prompt" /\ Fail /\ SentAnswerLost(u)
          /\ worker' = [worker EXCEPT ![w].pc = "release"]
    /\ UNCHANGED <<rowVars, pollVars, ran, missed, fixed>>

\* EditMessageText puts the answer in place of the placeholder.
Edit(w) ==
    /\ worker[w].pc = "edit"
    /\ \/ Sent(worker[w].cur) /\ Leave(w) /\ UNCHANGED faults
       \/ /\ Fail
          /\ worker' = [worker EXCEPT ![w].pc = "fallback"]
          /\ UNCHANGED <<replies, lost>>
       \/ /\ Fail /\ SentAnswerLost(worker[w].cur)
          /\ worker' = [worker EXCEPT ![w].pc = "fallback"]
    /\ UNCHANGED <<rowVars, pollVars, ran, missed, fixed>>

\* A new message when the edit failed; its failure is only logged.
Fallback(w) ==
    /\ worker[w].pc = "fallback"
    /\ \/ Sent(worker[w].cur) /\ UNCHANGED faults
       \/ Fail /\ UNCHANGED <<replies, lost>>
       \/ Fail /\ SentAnswerLost(worker[w].cur)
    /\ Leave(w)
    /\ UNCHANGED <<rowVars, pollVars, ran, missed, fixed>>

\* The status FailAndReopen writes.
Released == "failed"

\* release: FailAndReopen gives the claim back.
Release(w) ==
    LET u == worker[w].cur IN
    /\ worker[w].pc = "release"
    /\ \/ /\ status' = [status EXCEPT ![u] = Released]
          /\ claimed' = [claimed EXCEPT ![u] = FALSE]
          /\ UNCHANGED faults
       \/ Fail /\ UNCHANGED rowVars
    /\ Leave(w)
    /\ UNCHANGED <<pollVars, histVars, missed, fixed>>

-----------------------------------------------------------------------------

PollStep == PollRead \/ PollGet \/ PollEnqueue \/ PollScan \/ PollAdvance

WorkerStep(w) ==
    \/ WorkerRead(w) \/ Process(w) \/ ClaimReply(w) \/ RunEngine(w)
    \/ Send(w) \/ Edit(w) \/ Fallback(w) \/ Release(w)

Next ==
    \/ Arrive
    \/ Restart
    \/ PollStep
    \/ \E u \in Updates : WebhookDeliver(u)
    \/ \E w \in Workers : WorkerStep(w)

Spec == Init /\ [][Next]_vars

\* The poll loop and the workers are goroutines that never stop of their own
\* accord, Telegram redelivers until it gets a 200, and faults are finitely
\* many.  The user need not write.
Fairness ==
    /\ WF_vars(PollStep)
    /\ \A u \in Updates : WF_vars(WebhookDeliver(u))
    /\ \A w \in Workers : WF_vars(WorkerStep(w))

FairSpec == Spec /\ Fairness

-----------------------------------------------------------------------------
(* Properties.                                                             *)

\* "exactly one caller across redeliveries, workers, or crashes" owns the
\* reply (ClaimReply): two workers are never sending at the same time, and
\* the user gets a second reply to an update only where the Bot API delivered
\* a message and its answer was lost (release gives the claim back).
AtMostOneReply ==
    \A u \in Updates :
        /\ replies[u] <= 1 + lost[u]
        /\ Cardinality({w \in Workers : worker[w].cur = u /\ worker[w].pc \in Holding}) <= 1

\* A free-form prompt reaches the engine at most once however often it is
\* delivered: the claim and the placeholder come before the run (Process).
PromptRunsOnce == \A u \in Updates : kind[u] = "prompt" => ran[u] <= 1

\* The rows before u whose insert failed once are as many as the scan reads.
ScanFilled(u) == Cardinality({v \in missed : v < u}) >= ScanLimit

\* advance never acknowledges past a row that is still to be processed, with
\* the scan's LIMIT, stale scans and restarts in the way, but for an update
\* whose insert failed and which came again after a failed HighWater read, and
\* for what is behind a whole scan of such rows.
CursorBehindPending ==
    \A u \in Updates : status[u] = "pending" => high < u \/ u \in missed \/ ScanFilled(u)

\* Every update that the Bot API has forgotten is a row of the inbox
\* (process-then-ack; the webhook's 500), except for an update whose insert
\* failed in the poll loop: advance takes "no pending row" for "processed".
NoUpdateLost == \A u \in forgotten : status[u] # "none" \/ u \in missed

\* The cursor only moves forward, though HighWater reads errors as zero, as
\* long as no insert of the poll loop has failed.
CursorMonotone == [][high' >= high \/ missed # {}]_high

\* Every update is answered, skipped or given up in the end, but for those
\* the poll loop missed.
EveryUpdateSettled ==
    \A u \in Updates :
        (u <= arrived) ~> (status[u] \in {"done", "failed", "skipped"} \/ u \in missed)

\* The poll cursor catches up with all that was sent.
CursorCatchesUp == (arrived = N /\ ~webhook) ~> (high = N)
=============================================================================
