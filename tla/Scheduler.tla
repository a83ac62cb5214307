----------------------------- MODULE Scheduler -----------------------------
(***************************************************************************)
(* The durable command scheduler (internal/telegram/scheduler.go), its     *)
(* table (internal/store/schedules.go) and the boot that wires the two     *)
(* (startTelegram in internal/app/app.go).                                 *)
(*                                                                         *)
(* Register saves a row, then adds the job under the lock and launches its *)
(* loop.  Start reads the rows, adds their jobs and, in a second critical  *)
(* section, launches every job it finds.  The worker pool runs before      *)
(* Start, so that a Register may come before, between or after its steps.  *)
(*                                                                         *)
(* Texts and durations are left out; a due timer is a nondeterministic     *)
(* event.  Unregister is modelled as the scheduler offers it, whoever      *)
(* calls it.                                                               *)
(***************************************************************************)
EXTENDS Naturals, Sequences, FiniteSets

CONSTANTS
    Calls,       \* the /every commands, each handled by a worker
    Chats,       \* chats that are or were on the allowlist
    NoChat,      \* there is no row
    ChatOf,      \* the chat each command comes from
    StoreFails,  \* may SaveSchedule, DeleteSchedule and ListSchedules fail?
    MaxId,       \* bound on the ids the table gives out
    MaxRestarts  \* bound on restarts

ASSUME BoundsAssumption == MaxId \in Nat /\ MaxRestarts \in Nat
ASSUME ChatsAssumption == ChatOf \in [Calls -> Chats] /\ NoChat \notin Chats
ASSUME SwitchesAssumption == StoreFails \in BOOLEAN

Ids == 0..MaxId

VARIABLES
    rows,      \* scheduled_jobs: the chat of each row, NoChat if there is none
    lastId,    \* sqlite_sequence: the largest id ever given out
    allowed,   \* the allowlist of the running process
    boot,      \* how far startTelegram is
    listed,    \* what Start's ListSchedules returned, until it is used
    next,      \* Scheduler.next
    jobs,      \* Scheduler.jobs: the cronJob of each id, 0 if there is none
    crons,     \* the cronJob objects: [id, chat, stopped]
    loops,     \* the goroutines launched, each by the cronJob it runs
    call,      \* [pc, id, durable] of each Register
    fate,      \* history: what users were told of each saved schedule
    overlap,   \* history: a Register ran while this process was booting
    degraded,  \* history: this process could not read its schedules
    missed,    \* history: a reply was not delivered
    restarts   \* restarts so far

tableVars == <<rows, lastId>>
bootVars == <<allowed, boot, listed, degraded, restarts>>
jobVars == <<next, jobs, crons>>
loopVars == <<loops, missed>>
userVars == <<call, fate, overlap>>
vars == <<tableVars, bootVars, jobVars, loopVars, userVars>>

\* startTelegram: the pool has started; the persister is wired; the rows are
\* read; their jobs are added; everything is launched.
Boots == {"pool", "wired", "listed", "added", "up"}

Fates == {"none", "scheduled", "unscheduled", "warned"}

Idle == [pc |-> "idle", id |-> 0, durable |-> FALSE]

\* The cronJob that a loop runs.
Cron(l) == crons[loops[l]]

\* The type invariant.  The job of an id has that id and was not stopped: to
\* close its channel again would panic.
TypeOK ==
    /\ rows \in [Ids -> Chats \cup {NoChat}]
    /\ lastId \in Ids
    /\ allowed \subseteq Chats
    /\ boot \in Boots
    /\ listed \in [Ids -> Chats \cup {NoChat}]
    /\ next \in Nat
    /\ crons \in Seq([id : Ids, chat : Chats, stopped : BOOLEAN])
    /\ jobs \in [Ids -> 0..Len(crons)]
    /\ \A i \in Ids : jobs[i] # 0 => crons[jobs[i]].id = i /\ ~crons[jobs[i]].stopped
    /\ loops \in Seq(1..Len(crons))
    /\ call \in [Calls -> [pc : {"idle", "saved", "added", "replied"}, id : Ids, durable : BOOLEAN]]
    /\ fate \in [Ids -> Fates]
    /\ overlap \in BOOLEAN /\ degraded \in BOOLEAN
    /\ missed \in BOOLEAN
    /\ restarts \in 0..MaxRestarts

NoRows == [i \in Ids |-> NoChat]
NoJobs == [i \in Ids |-> 0]

Init ==
    /\ rows = NoRows /\ lastId = 0
    /\ allowed = Chats /\ boot = "pool" /\ listed = NoRows
    /\ next = 0 /\ jobs = NoJobs /\ crons = <<>>
    /\ loops = <<>>
    /\ call = [c \in Calls |-> Idle]
    /\ fate = [i \in Ids |-> "none"]
    /\ overlap = FALSE /\ degraded = FALSE
    /\ missed = FALSE /\ restarts = 0

-----------------------------------------------------------------------------
(* Start.                                                                  *)

\* SetSchedules.
Wire ==
    /\ boot = "pool"
    /\ boot' = "wired"
    /\ UNCHANGED <<tableVars, jobVars, loopVars, userVars, allowed, listed, degraded, restarts>>

\* ListSchedules; an error is logged and nothing is rehydrated.
ListSchedules ==
    /\ boot = "wired"
    /\ \/ boot' = "listed" /\ listed' = rows /\ UNCHANGED degraded
       \/ StoreFails /\ boot' = "added" /\ degraded' = TRUE /\ UNCHANGED listed
    /\ UNCHANGED <<tableVars, jobVars, loopVars, userVars, allowed, restarts>>

\* The rows that Start turns into jobs.
Rehydratable == {i \in Ids : listed[i] \in allowed}

\* Ids in order: the position of i in S, the element at a position, the last.
Rank(i, S) == Cardinality({j \in S : j <= i})
At(k, S) == CHOOSE i \in S : Rank(i, S) = k
Largest(S) == CHOOSE i \in S : \A j \in S : j <= i

\* The first critical section: one job per row; next moves up to the ids.
Rehydrate ==
    LET S == Rehydratable
        new == [k \in 1..Cardinality(S) |->
                   [id |-> At(k, S), chat |-> listed[At(k, S)], stopped |-> FALSE]]
    IN
    /\ boot = "listed"
    /\ boot' = "added"
    /\ jobs' = [i \in Ids |-> IF i \in S THEN Len(crons) + Rank(i, S) ELSE jobs[i]]
    /\ crons' = crons \o new
    /\ next' = Largest(S \cup {next})
    /\ listed' = NoRows
    /\ UNCHANGED <<tableVars, loopVars, userVars, allowed, degraded, restarts>>

\* Mutant: Start adds the jobs and launches none.
LaunchNone ==
    /\ boot = "added"
    /\ boot' = "up"
    /\ UNCHANGED <<tableVars, jobVars, loopVars, userVars, allowed, listed, degraded, restarts>>

\* The second one: launchLocked for every job of the map.
LaunchAll ==
    LET S == {i \in Ids : jobs[i] # 0} IN
    /\ boot = "added"
    /\ boot' = "up"
    /\ loops' = loops \o [k \in 1..Cardinality(S) |-> jobs[At(k, S)]]
    /\ UNCHANGED <<tableVars, jobVars, userVars, missed, allowed, listed, degraded, restarts>>

-----------------------------------------------------------------------------
(* Register and Unregister.                                                *)

\* s.persist # nil, read without the lock.
Persistent == boot # "pool"

Advance(c, pc, id, durable) ==
    call' = [call EXCEPT ![c] = [pc |-> pc, id |-> id, durable |-> durable]]

\* Register up to the lock: the INSERT, whose failure is reported, or nothing
\* while no persister is wired.
SaveSchedule(c) ==
    /\ call[c].pc = "idle"
    /\ ChatOf[c] \in allowed
    /\ overlap' = (overlap \/ boot # "up")
    /\ \/ /\ Persistent
          /\ lastId < MaxId
          /\ lastId' = lastId + 1
          /\ rows' = [rows EXCEPT ![lastId + 1] = ChatOf[c]]
          /\ Advance(c, "saved", lastId + 1, TRUE)
       \/ Persistent /\ StoreFails /\ Advance(c, "replied", 0, FALSE) /\ UNCHANGED tableVars
       \/ ~Persistent /\ Advance(c, "saved", 0, FALSE) /\ UNCHANGED tableVars
    /\ UNCHANGED <<bootVars, jobVars, loopVars, fate>>

\* Mutant: ids come from memory even when the row has one.
JobIdCounted(c) == next + 1

\* The id of the new job: the row's, or the next one in memory.
JobId(c) == IF Persistent THEN call[c].id ELSE next + 1

\* Register under the lock: the job is added and launched.
AddJob(c) ==
    LET i == JobId(c) IN
    /\ call[c].pc = "saved"
    /\ i \in Ids
    /\ next' = IF Persistent THEN next ELSE i
    /\ crons' = Append(crons, [id |-> i, chat |-> ChatOf[c], stopped |-> FALSE])
    /\ jobs' = [jobs EXCEPT ![i] = Len(crons) + 1]
    /\ loops' = Append(loops, Len(crons) + 1)
    /\ Advance(c, "added", i, call[c].durable)
    /\ UNCHANGED <<tableVars, bootVars, missed, fate, overlap>>

\* claimAndSend of Register's reply.
Reply(c) ==
    /\ call[c].pc = "added"
    /\ call' = [call EXCEPT ![c].pc = "replied"]
    /\ fate' = IF call[c].durable /\ fate[call[c].id] = "none"
               THEN [fate EXCEPT ![call[c].id] = "scheduled"] ELSE fate
    /\ UNCHANGED <<tableVars, bootVars, jobVars, loopVars, overlap>>

\* Mutant: the job leaves the map and its loop is not told.
CloseStopForgotten(i) == crons

\* close(j.stop)
CloseStop(i) == [crons EXCEPT ![jobs[i]].stopped = TRUE]

\* delete(s.jobs, id)
DeleteJob(i) == [jobs EXCEPT ![i] = 0]

\* Unregister, all under the lock: the job leaves the map, its loop is told to
\* stop, its row is deleted; a failing delete is part of the reply.
Unregister(i) ==
    /\ i > 0
    /\ jobs[i] # 0
    /\ jobs' = DeleteJob(i)
    /\ crons' = CloseStop(i)
    /\ \/ /\ Persistent
          /\ rows' = [rows EXCEPT ![i] = NoChat]
          /\ fate' = [fate EXCEPT ![i] = IF rows[i] = NoChat THEN @ ELSE "unscheduled"]
       \/ /\ Persistent /\ StoreFails
          /\ fate' = [fate EXCEPT ![i] = "warned"]
          /\ UNCHANGED rows
       \/ ~Persistent /\ UNCHANGED <<rows, fate>>
    /\ UNCHANGED <<lastId, bootVars, next, loopVars, call, overlap>>

-----------------------------------------------------------------------------
(* launchLocked's goroutine.                                               *)

\* The state of the run's context when the reply is sent: cancel() comes
\* between the two.
CtxAtSend == "cancelled"

\* SendMessage under ctx: the HTTP client refuses a context that has ended.
Delivers(ctx) == ctx = "live"

\* One round of some loop: its timer is due, the engine runs the command and
\* the reply, if there is one, is sent.  A due timer may win the select
\* against a closed stop; otherwise a stopped loop returns and has no rounds.
LoopRound ==
    /\ loops # <<>>
    /\ \E answered \in BOOLEAN : missed' = (missed \/ (answered /\ ~Delivers(CtxAtSend)))
    /\ UNCHANGED <<tableVars, bootVars, jobVars, userVars, loops>>

-----------------------------------------------------------------------------

\* The process ends and another boots, perhaps with another allowlist.  A
\* command whose reply was not claimed is still pending and handled again.
Restart ==
    /\ restarts < MaxRestarts
    /\ restarts' = restarts + 1
    /\ allowed' \in SUBSET Chats
    /\ boot' = "pool" /\ listed' = NoRows
    /\ next' = 0 /\ jobs' = NoJobs /\ crons' = <<>>
    /\ loops' = <<>>
    /\ call' = [c \in Calls |-> IF call[c].pc = "replied" THEN call[c] ELSE Idle]
    /\ overlap' = FALSE /\ degraded' = FALSE
    /\ UNCHANGED <<tableVars, missed, fate>>

BootStep == Wire \/ ListSchedules \/ Rehydrate \/ LaunchAll
CallStep(c) == SaveSchedule(c) \/ AddJob(c) \/ Reply(c)

Next ==
    \/ BootStep
    \/ \E c \in Calls : CallStep(c)
    \/ \E i \in Ids : Unregister(i)
    \/ LoopRound
    \/ Restart

Spec == Init /\ [][Next]_vars

\* startTelegram goes on to its end.  Users need not send anything, and no
\* timer need expire.
Fairness == WF_vars(BootStep)

FairSpec == Spec /\ Fairness

-----------------------------------------------------------------------------
(* Properties.                                                             *)

\* The loop goes on: the goroutine has not been told to stop.
Running(l) == ~Cron(l).stopped

\* A schedule runs in one loop only, through restarts, re-registration and
\* failing store calls, unless a Register overlapped the boot.
OneLoopPerSchedule ==
    ~overlap => \A l, m \in 1..Len(loops) :
                   Running(l) /\ Running(m) /\ Cron(l).id = Cron(m).id => l = m

\* What users are told stays true across restarts: "scheduled" means there is
\* a row, "unscheduled" that there is none and, unless a Register overlapped
\* the boot, that nothing runs.
RepliesAreHonest ==
    \A i \in Ids :
        /\ fate[i] = "scheduled" => rows[i] # NoChat
        /\ fate[i] = "unscheduled" => rows[i] = NoChat
        /\ fate[i] = "unscheduled" /\ ~overlap =>
              \A l \in 1..Len(loops) : Cron(l).id = i => ~Running(l)

\* "the allowlist remains the boundary": no loop works for a chat that the
\* process does not allow, whatever the table holds.
OnlyAllowedChats == \A l \in 1..Len(loops) : Cron(l).chat \in allowed

\* A schedule comes back after every restart whose boot can read the table,
\* as long as its chat is allowed and nobody has unscheduled it.
ReturnsAfterRestart ==
    \A i \in Ids :
        (fate[i] = "scheduled") ~>
            \/ \E l \in 1..Len(loops) : Running(l) /\ Cron(l).id = i
            \/ fate[i] # "scheduled"
            \/ rows[i] \notin allowed
            \/ degraded

\* "sends the engine's reply to the allowlisted chat that registered them".
RepliesDelivered == ~missed
=============================================================================
