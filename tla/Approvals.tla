----------------------------- MODULE Approvals -----------------------------
(***************************************************************************)
(* Human-in-the-loop approvals: the ledger (internal/store/approvals.go),  *)
(* the executor gate (tools.RunGated and the gates of internal/app), the   *)
(* Telegram and REST paths that decide a request (telegram/hitl.go,        *)
(* server/approvals.go), the notifier that pushes the buttons (notify.go)  *)
(* and the editor that removes them (edit.go).                             *)
(*                                                                         *)
(* A gated command and a button press are both rows of the Telegram inbox, *)
(* and the same pool of workers handles both: a worker that handles a gated*)
(* command waits for the decision, and several workers may take the same   *)
(* row, because a row stays pending until its reply is claimed.  Faults of *)
(* claiming and sending are the subject of module Inbox; here they succeed.*)
(***************************************************************************)
EXTENDS Naturals, Sequences, FiniteSets

CONSTANTS
    Workers,      \* the pool's workers
    MaxGates,     \* bound on the gated commands the user sends
    MaxPresses,   \* bound on the buttons the user presses
    ListLimit,    \* rows the notifier reads at a time (50 in the code)
    RestActs,     \* may REST clients decide?
    MaxRestarts,  \* bound on crashes
    Deployments   \* the pools of workers to consider, whether they crash, and
                  \* whether ledger reads and Bot API calls fail

ASSUME BoundsAssumption ==
    /\ MaxGates \in Nat /\ MaxPresses \in Nat /\ MaxRestarts \in Nat
    /\ ListLimit \in Nat \ {0}
ASSUME SwitchesAssumption ==
    RestActs \in BOOLEAN
ASSUME DeploymentsAssumption ==
    Deployments \subseteq [pool : SUBSET Workers, crashes : BOOLEAN, faults : BOOLEAN]

VARIABLES
    rows,      \* telegram_inbox: gated commands and button presses
    ledger,    \* approvals: the state of request #i
    executed,  \* history: how often the action behind request #i ran
    worker,    \* [pc, todo, row, id] of each worker
    seen,      \* Notifier.lastSeen
    tick,      \* the rest of the pending list the notifier is working through
    targets,   \* EditRegistry: requests with a recorded button message
    buttons,   \* requests whose message in the chat shows buttons
    edits,     \* editor.queue
    wake,      \* editor.wake holds a token
    editor,    \* the state of editor.run
    unsent,    \* history: requests whose announcement the Bot API refused
    restarts,  \* crashes so far
    deploy     \* the deployment of this behaviour

chatVars == <<targets, buttons, unsent>>
bootVars == <<restarts, deploy>>
notifyVars == <<seen, tick>>
editVars == <<edits, wake, editor>>
vars == <<rows, ledger, executed, worker, notifyVars, chatVars, editVars, bootVars>>

Verdicts == {"approved", "denied"}
States == Verdicts \cup {"pending"}
Ids == 1..Len(ledger)

Rows == [kind : {"gate", "press"}, id : Nat, verdict : Verdicts, done : BOOLEAN]
Idle == [pc |-> "idle", todo |-> {}, row |-> 0, id |-> 0]

LedgerType ==
    /\ rows \in Seq(Rows)
    /\ ledger \in Seq(States)
    /\ executed \in Seq(Nat)
    /\ Len(executed) = Len(ledger)

WorkerType ==
    /\ worker \in [Workers -> [pc : {"idle", "wait", "run", "claim"},
                               todo : SUBSET (1..Len(rows)), row : Nat, id : Nat]]
    /\ \A w \in Workers : worker[w].pc # "idle" => worker[w].row \in 1..Len(rows)
    /\ \A w \in Workers : worker[w].pc \in {"wait", "run"} => worker[w].id \in Ids

ChatType ==
    /\ seen \in 0..Len(ledger)
    /\ tick \subseteq Ids
    /\ targets \subseteq Ids
    /\ buttons \subseteq Ids
    /\ edits \in Seq(Ids)
    /\ wake \in BOOLEAN
    /\ editor \in {"waiting", "draining", "returned"}
    /\ restarts \in 0..MaxRestarts

\* The type invariant.  A worker that holds a row knows it, a gate knows its
\* request, and notifier, chat and editor only speak of requests that exist.
TypeOK == LedgerType /\ WorkerType /\ ChatType

Init ==
    /\ rows = <<>>
    /\ ledger = <<>>
    /\ executed = <<>>
    /\ worker = [w \in Workers |-> Idle]
    /\ seen = 0
    /\ tick = {}
    /\ targets = {}
    /\ buttons = {}
    /\ edits = <<>>
    /\ wake = FALSE
    /\ editor = "waiting"
    /\ unsent = {}
    /\ restarts = 0
    /\ deploy \in Deployments

-----------------------------------------------------------------------------
(* The user.                                                               *)

Count(kind) == Cardinality({i \in 1..Len(rows) : rows[i].kind = kind})

Row(kind, id, v) == [kind |-> kind, id |-> id, verdict |-> v, done |-> FALSE]

\* A gated command arrives in the inbox.
SendGate ==
    /\ Count("gate") < MaxGates
    /\ rows' = Append(rows, Row("gate", 0, "denied"))
    /\ UNCHANGED <<ledger, executed, worker, notifyVars, chatVars, editVars, bootVars>>

\* The user presses a button that the chat shows.
Press(id, v) ==
    /\ id \in buttons
    /\ Count("press") < MaxPresses
    /\ rows' = Append(rows, Row("press", id, v))
    /\ UNCHANGED <<ledger, executed, worker, notifyVars, chatVars, editVars, bootVars>>

-----------------------------------------------------------------------------
(* The ledger.                                                             *)

\* Mutant: any request can be decided again.
DecidableAlways(id) == id \in Ids

\* WHERE id = ? AND state = 'pending'
Decidable(id) == id \in Ids /\ ledger[id] = "pending"

\* DecideApproval: the conditional UPDATE and whether it found its row.
DecideApproval(id, v) ==
    ledger' = IF Decidable(id) THEN [ledger EXCEPT ![id] = v] ELSE ledger

\* PendingApprovals: oldest first, capped.
PendingApprovals ==
    LET S == {i \in Ids : ledger[i] = "pending"}
    IN  {i \in S : Cardinality({j \in S : j <= i}) <= ListLimit}

\* ORDER BY id: lists are worked through from the oldest row on.
IsOldest(i, S) == i \in S /\ \A j \in S : i <= j
IsNewest(i, S) == i \in S /\ \A j \in S : j <= i

\* POST /v1/approvals/{id}/decision: a decide of its own, with no edit; a
\* request that is not pending is reported as a conflict.
RestDecide(id, v) ==
    /\ RestActs
    /\ DecideApproval(id, v)
    /\ UNCHANGED <<rows, executed, worker, notifyVars, chatVars, editVars, bootVars>>

-----------------------------------------------------------------------------
(* The workers.                                                            *)

\* The rows that nobody has answered, whoever is working on them.
PendingRows == {r \in 1..Len(rows) : ~rows[r].done}

WorkerRead(w) ==
    /\ worker[w].pc = "idle" /\ worker[w].todo = {}
    /\ PendingRows # {}
    /\ worker' = [worker EXCEPT ![w].todo = PendingRows]
    /\ UNCHANGED <<rows, ledger, executed, notifyVars, chatVars, editVars, bootVars>>

\* The worker takes row r from its list.
TakeRow(w, r, pc, id) ==
    worker' = [worker EXCEPT ![w] = [pc |-> pc, todo |-> @.todo \ {r}, row |-> r, id |-> id]]

\* HandleText of a gate: the request is created and the worker waits, or the
\* insert fails and the worker replies so.
StartGate(w, r) ==
    /\ worker[w].pc = "idle"
    /\ IsOldest(r, worker[w].todo)
    /\ rows[r].kind = "gate"
    /\ \/ /\ ledger' = Append(ledger, "pending")
          /\ executed' = Append(executed, 0)
          /\ TakeRow(w, r, "wait", Len(ledger) + 1)
       \/ deploy.faults /\ TakeRow(w, r, "claim", 0) /\ UNCHANGED <<ledger, executed>>
    /\ UNCHANGED <<rows, notifyVars, chatVars, editVars, bootVars>>

\* Mutant: the edit is queued before the outcome is known.
OnDecidedAlways(id, ok) == edits' = Append(edits, id) /\ wake' = TRUE

\* OnDecided, and editor.enqueue behind it: an edit for a decide that landed.
OnDecided(id, ok) ==
    IF ok
    THEN edits' = Append(edits, id) /\ wake' = TRUE
    ELSE UNCHANGED <<edits, wake>>

\* callbackText and decideOne: the decide, which may fail, and the edit.
HandlePress(w, r) ==
    /\ worker[w].pc = "idle"
    /\ IsOldest(r, worker[w].todo)
    /\ rows[r].kind = "press"
    /\ \/ /\ DecideApproval(rows[r].id, rows[r].verdict)
          /\ OnDecided(rows[r].id, Decidable(rows[r].id))
       \/ deploy.faults /\ UNCHANGED ledger /\ OnDecided(rows[r].id, FALSE)
    /\ TakeRow(w, r, "claim", rows[r].id)
    /\ UNCHANGED <<rows, executed, notifyVars, chatVars, editor, bootVars>>

\* The gate returns its outcome, which the worker goes on to send.
Answer(w) == worker' = [worker EXCEPT ![w].pc = "claim"]

\* Mutant: whatever is no longer pending runs.
GrantedIfDecided(state) == state # "pending"

\* The verdict on which RunGated calls fn.
Granted(state) == state = "approved"

\* One round of RunGated's loop: read the row, run, refuse or keep polling.
GatePoll(w) ==
    LET state == ledger[worker[w].id] IN
    /\ worker[w].pc = "wait"
    /\ \/ Granted(state) /\ worker' = [worker EXCEPT ![w].pc = "run"]
       \/ state = "denied" /\ ~Granted(state) /\ Answer(w)
       \/ deploy.faults /\ Answer(w)
    /\ UNCHANGED <<rows, ledger, executed, notifyVars, chatVars, editVars, bootVars>>

\* Mutant: the deadline is never reached.
DeadlinePassedNever == FALSE

\* time.Now().After(deadline), which any round of the poll may find.
DeadlinePassed == TRUE

GateTimeout(w) ==
    /\ worker[w].pc = "wait"
    /\ DeadlinePassed
    /\ Answer(w)
    /\ UNCHANGED <<rows, ledger, executed, notifyVars, chatVars, editVars, bootVars>>

\* fn: the gated action itself.
GateRun(w) ==
    /\ worker[w].pc = "run"
    /\ executed' = [executed EXCEPT ![worker[w].id] = @ + 1]
    /\ Answer(w)
    /\ UNCHANGED <<rows, ledger, notifyVars, chatVars, editVars, bootVars>>

\* claimAndSend: the first worker to get here replies and the row is done.
ClaimReply(w) ==
    /\ worker[w].pc = "claim"
    /\ rows' = [rows EXCEPT ![worker[w].row].done = TRUE]
    /\ worker' = [worker EXCEPT ![w] = [Idle EXCEPT !.todo = worker[w].todo]]
    /\ UNCHANGED <<ledger, executed, notifyVars, chatVars, editVars, bootVars>>

-----------------------------------------------------------------------------
(* Notifier and editor.                                                    *)

\* A message with buttons goes out and its place is recorded.
Announce(id) ==
    /\ targets' = targets \cup {id}
    /\ buttons' = buttons \cup {id}
    /\ UNCHANGED unsent

\* The Bot API refuses the message.
AnnounceFails(id) ==
    /\ deploy.faults
    /\ unsent' = unsent \cup {id}
    /\ UNCHANGED <<targets, buttons>>

\* tick: the pending list is read ...
NotifierTick ==
    /\ tick = {}
    /\ PendingApprovals # {}
    /\ tick' = PendingApprovals
    /\ UNCHANGED <<rows, ledger, executed, worker, seen, chatVars, editVars, bootVars>>

\* Mutant: lastSeen jumps to the end of the list at once.
NextSeenLast(id) == CHOOSE i \in tick : IsNewest(i, tick)

\* lastSeen once request id is announced.
NextSeen(id) == id

\* ... and dealt with one by one.  A request above lastSeen is new: lastSeen
\* moves first, so a send that fails is logged and not repeated.
Notify(id) ==
    /\ IsOldest(id, tick)
    /\ id > seen
    /\ seen' = NextSeen(id)
    /\ tick' = tick \ {id}
    /\ Announce(id) \/ AnnounceFails(id)
    /\ UNCHANGED <<rows, ledger, executed, worker, editVars, bootVars>>

\* maybeRemind: one that was announced before is announced again when its
\* reminder is due, whatever has become of it since the list was read.
MaybeRemind(id) ==
    /\ IsOldest(id, tick)
    /\ id <= seen
    /\ tick' = tick \ {id}
    /\ Announce(id) \/ UNCHANGED chatVars
    /\ UNCHANGED <<rows, ledger, executed, worker, seen, editVars, bootVars>>

\* editor.run gets the wake token.
EditorWake ==
    /\ editor = "waiting" /\ wake
    /\ wake' = FALSE
    /\ editor' = "draining"
    /\ UNCHANGED <<rows, ledger, executed, worker, notifyVars, chatVars, edits, bootVars>>

\* One edit: the recorded messages lose their buttons, if the Bot API agrees.
EditorApply ==
    /\ editor = "draining" /\ edits # <<>>
    /\ edits' = Tail(edits)
    /\ \/ buttons' = buttons \ (targets \cap {Head(edits)})
       \/ deploy.faults /\ UNCHANGED buttons
    /\ UNCHANGED <<rows, ledger, executed, worker, notifyVars, targets, unsent, wake, editor, bootVars>>

\* The queue is empty: run returns, and nobody drains the queue again.
EditorReturn ==
    /\ editor = "draining" /\ edits = <<>>
    /\ editor' = "returned"
    /\ UNCHANGED <<rows, ledger, executed, worker, notifyVars, chatVars, edits, wake, bootVars>>

\* prime: what is pending at boot counts as announced, unless the read fails.
Prime ==
    \/ \E id \in {0} \cup PendingApprovals :
          IsNewest(id, {0} \cup PendingApprovals) /\ seen' = id
    \/ deploy.faults /\ seen' = 0

\* A crash and a boot: rows, ledger and chat survive.
Restart ==
    /\ deploy.crashes
    /\ restarts < MaxRestarts
    /\ restarts' = restarts + 1
    /\ worker' = [w \in Workers |-> Idle]
    /\ Prime
    /\ tick' = {}
    /\ targets' = {}
    /\ edits' = <<>>
    /\ wake' = FALSE
    /\ editor' = "waiting"
    /\ UNCHANGED <<rows, ledger, executed, buttons, unsent, deploy>>

-----------------------------------------------------------------------------

WorkerStep(w) ==
    \/ WorkerRead(w) \/ \E r \in 1..Len(rows) : StartGate(w, r) \/ HandlePress(w, r)
    \/ GatePoll(w) \/ GateTimeout(w) \/ GateRun(w) \/ ClaimReply(w)

NotifierStep == NotifierTick \/ \E id \in Ids : Notify(id) \/ MaybeRemind(id)
EditorStep == EditorWake \/ EditorApply \/ EditorReturn

Next ==
    \/ SendGate
    \/ \E id \in Ids, v \in Verdicts : Press(id, v) \/ RestDecide(id, v)
    \/ \E w \in Workers : w \in deploy.pool /\ WorkerStep(w)
    \/ NotifierStep
    \/ EditorStep
    \/ Restart

Spec == Init /\ [][Next]_vars

\* Workers, notifier and editor are goroutines with a ticker or a queue; the
\* user and REST clients need not do anything.
Fairness ==
    /\ \A w \in Workers : WF_vars(w \in deploy.pool /\ WorkerStep(w))
    /\ WF_vars(NotifierStep)
    /\ WF_vars(EditorStep)

FairSpec == Spec /\ Fairness

-----------------------------------------------------------------------------
(* Properties.                                                             *)

\* RunGated: an action runs only on a request that is approved, and once,
\* whoever decides, however many workers wait and whenever the process dies.
RunsOnlyApproved ==
    \A i \in Ids : executed[i] <= (IF ledger[i] = "approved" THEN 1 ELSE 0)

\* DecideApproval: a decision is final.  Buttons, typed commands and REST
\* race, and stale buttons are pressed again.
DecisionIsFinal ==
    [][\A i \in Ids : ledger[i] # "pending" => ledger'[i] = ledger[i]]_ledger

\* Every gated command and every button press is answered: no worker waits
\* for ever, though gates wait for presses that only workers handle.
EveryRowAnswered ==
    \A i \in 1..(MaxGates + MaxPresses) : (i <= Len(rows)) ~> (i <= Len(rows) /\ rows[i].done)

\* The notifier pushes every request, unless it is decided first, the Bot API
\* refuses the message (it is not sent again) or the process restarts.
EveryRequestAnnounced ==
    \A i \in 1..(2 * MaxGates) :
        (i <= Len(ledger)) ~> \/ i \in targets \cup unsent
                              \/ i \in Ids /\ ledger[i] # "pending"
                              \/ restarts > 0

\* EditRegistry and editor: the buttons of a request disappear only once it is
\* decided.  Presses that lose the race, or whose decide fails, queue no edit.
ButtonsStayWhilePending ==
    [][\A i \in buttons \ buttons' : ledger[i] # "pending"]_buttons
=============================================================================
