# A TLA+ model of AegisGo

AegisGo is a single Go binary that answers prompts deterministically where it
can (regular-expression rules that call tools) and with an LLM where it cannot,
that learns new rules from the LLM's choices, and that is reached over a CLI,
REST, gRPC, MCP and Telegram. It keeps everything in one SQLite file. This
directory models the parts of it in which goroutines, processes, crashes and
outside parties interleave, checks them with TLC and proves the central
guarantees with TLAPS.

Contents: [inventory](#inventory), [modules](#modules-and-the-code),
[runs](#runs), [fairness](#fairness), [proofs](#proofs),
[findings](#findings), [what is left out](#not-modelled), [plan](#plan).

## Inventory

| Component (`src/internal/...`) | State | Operations | Hard because | Correct when |
|---|---|---|---|---|
| Write queue, `store/store.go` | buffered channel `writes`, `closed`, `quit`, `done`, the database | `exec`, `execSync`, `Flush`, `ExecResult`, `batcher`, `Close` | many callers, one batcher, transactions that fail as a whole, a shutdown that drains | an answer tells the truth, order is kept, a stop loses nothing accepted before it, `Close` returns |
| Decision engine, `engine/engine.go` | none of its own; audit, corpus, shadow and rules tables | `Run`, `RunStreaming`, `compareShadow`, `evaluateLifecycle` | many callers share a rule's row with no lock across read and write | one audit line per run, its row lost only with a failing store; promotion is earned, a divergence demotes |
| Router and rules table, `router/` | the live rule set (atomic pointer), `rules` rows | `Handle`, `LoadRules`, `Swap`, `StartHotReload`, `ReconcileSeeded` | concurrent reloads from old reads, re-seeding | the live set converges to the table |
| Miner, `miner/miner.go` | `rules` rows, mining corpus | `Mine` | check, name, insert are three calls | one rule per shape |
| Telegram inbox and transports, `telegram/inbox.go`, `poll.go`, `webhook.go` | `telegram_inbox` rows, the high-water cursor | `Enqueue`, `Pending`, `ClaimReply`, `FailAndReopen`, poll loop, webhook handler | redelivery, no leases, crashes between any two steps | one reply at most, nothing acknowledged is lost, everything is settled |
| Dispatcher, `telegram/dispatcher.go` | token buckets, registered commands | `Process`, `claimAndSend` | effects before and after the claim | as above |
| Approval ledger and gate, `store/approvals.go`, `tools/hitl.go`, `app/*gate.go` | `approvals` rows | `CreateApproval`, `DecideApproval`, `RunGated` | several deciders, timeouts, crashes, a waiting worker occupies the pool | an action runs once and only on approval; decisions are final |
| Notifier and editor, `telegram/notify.go`, `edit.go` | `lastSeen`, `EditRegistry`, edit queue | `prime`, `tick`, `maybeRemind`, `OnDecided`, `editor.run` | lists read earlier than used, one-shot goroutine | every request is announced; buttons stay while it is pending |
| Async answers, `store/answers.go`, `server/http.go`, `grpcapi/server.go`, `task/task.go` | `answers` rows, a wait group | `PutAnswer`, `CompleteAnswer`, `GetAnswer`, the sweep, `Wait` | the run outlives its request; expiry decided before the delete; trace ids reused | an answer stays for its TTL, a 202 leads to an answer or an expiry |
| Scheduler, `telegram/scheduler.go`, `store/schedules.go` | job map, loops, `scheduled_jobs` rows | `Register`, `Unregister`, `Start`, the loop of a job | the pool runs before the boot has rehydrated; restarts, failing store calls | one loop per schedule, a schedule survives restarts, replies are true and delivered |
| Jobs and downloads, `tools/jobs.go`, `downloadtool.go` | job map, cancel functions, `.part` files, targets | `Start`, `Cancel`, retention, `runDownload` | the job may end before its cancel function is stored; cancels race the last steps | the outcome tells what is on disk, a target is whole, every job ends |
| Watchdog, `logwatch/`, `app/watchgate.go` | tail offsets, cooldowns, alert buffer, `log_watches` rows | `poll`, `Add`, `Remove`, `StartWatches` | the file rotates under the tail; commands during boot | no line is counted twice, no match is passed over, also when the log rotates |
| Log rotation, `logx/rotate.go` | active and rotated files, handle, size | `Write`, `rotate`, `prune` | rename, open and prune fail separately | acknowledged records stay until pruned, oldest first; files stay below the cap |
| Rule gates, imports, reconciliation, `app/*rule*.go`, `cli/importrules.go`, `router/reconcile.go` | `rules` rows | `/addrule`, `/register_rules`, `/reload_rules`, `ctl`, boot | row-by-row batches, a reload in between, bad rows | a human's decision stands, what was reported live becomes live, batches are atomic |
| Dispatcher's command table and its wiring, `telegram/dispatcher.go`, `app/app.go` | sources and gated actions set at boot | the ladder of `Process`, `startTelegram` | order of arms, exact against prefix matches, workers run during the wiring | documented commands reach their arm |
| Events, `server/events.go` | subscriber channels | `Publish`, `Subscribe` | slow subscribers, shutdown | publishers never block |
| Serve and shutdown, `cli/serve.go`, `app/app.go`, `loop/loop.go` | running servers and loops | start, stop order with bounded waits, exits on a failing listener | late writes meet a closing store, exits skip waits | runs are joined before the store closes |
| Log analysis and forecasting, `loganalysis`, `opsforecast` | none | reports over the newest lines, least squares, EWMA, advice | windows, blank lines, overflow, zero slopes | equals its reference definition |
| Front ends (REST, gRPC, MCP), tools, provider, configuration, CLI, generated protobuf | | | | |

Interactions. Every writer of audit, corpus, shadow and answer rows goes
through the write queue; ledger, inbox and rules-state writes that need a result
use `ExecResult` on the connection pool. The engine reads the router's live set,
which hot reload and approved gates replace. A Telegram worker calls the
dispatcher, which calls the engine, or a gate, which waits for the ledger, which
is decided by another inbox row handled by the same worker pool, or by REST. The
notifier reads the ledger and writes to the chat; a decision queues an edit for
the editor.

`PROJECT.json` lists the hazards with their lines, and for each the properties
that would catch it, or why none does.

## Modules and the code

**WriteQueue** (`store/store.go`). A member of `Ops` is one call into the store.
`closed`, `quit`, `exited` (the `done` channel), `dbOpen` and `writes` are the
fields of `Store`; `batch`, `bpc`, `draining` and `outcome` are the batcher's
locals; `doneCh` is the one-place channel of a sync write. `LoadClosed` and
`Send` are the two halves of `enqueue`, which are not atomic together.
`AwaitDone` and `CtxDone` are the branches of `execSync`'s select, `SelectWrite`,
`SelectQuit`, `Collect`, `Apply`, `Signal`, `Exit` the batcher with `collect`,
`apply` and `drainRemaining`, and `CloseCAS`, `CloseQuit`, `CloseDB` the
statements of `Close`, which two closers may call. A transaction succeeds or fails as a whole. SQL text is
left out. `queued`, `early` and `rolledBack` are history variables.

**DurableLog** is what the store promises, without goroutines or channels: one
line of accepted writes that leaves from the front into the log, or is dropped,
and callers who are told nothing untrue. `ImplementsDurableLog` is the
refinement: the batch that has not been applied and the channel, one after the
other, are the line. That writes reach the database once, in the order of
acceptance, and that a Flush that was answered had everything before it applied,
are consequences.

**Engine** (`engine/engine.go`, `router/router.go`, `router/rulesstore.go`,
`store/shadow.go`, `cli/ctl.go`, the insert of `miner/miner.go`). `rstate` and
`enabled` are the columns of a rules row, `live` is the router's set, `loaded`
what a reload has read and not yet swapped. A caller goes through `Handle`
(router decision and branch of `runUnwrapped` or `RunStreaming`), then
`Classify`, `Fallback`, or `Compare`, `Record`, `Judge`, `Promote`, `Answer`:
one action per store or provider call, because another caller, the operator or
a reload can come in between. Which prompt matches which pattern is a free
choice among the live rules; answer texts, confidences and latencies are left
out. A tail (`Finish`) logs one line, kept in `logged`, and queues rows whose write
may be lost without an error where the store fails (`Stored`): `audits` and
`corpus` are what is in the database. The choice of the LLM is a free choice between agreeing and diverging.
`setup` is the deployment: the LLM's configuration, the callers and reloaders at
work, whether store calls fail and whether the operator acts.

**Inbox** (`telegram/inbox.go`, `poll.go`, `webhook.go`, `dispatcher.go`).
Updates are numbers in arrival order; `status` and `claimed` are columns of
`telegram_inbox`, `high` the key-value row of the cursor. `PollRead` to
`PollAdvance` are the poll loop; `WebhookDeliver` the handler with a lost answer
or a 500; `WorkerRead`, `Process`, `ClaimReply`, `RunEngine`, `Send`, `Edit`,
`Fallback`, `Release` a worker. `kind[u]` is the sort of arm that Process takes
for the update; MCInbox computes it with `Routes` from texts. The Bot API is
external: a call is delivered, refused, or (`SentAnswerLost`) delivered with its
answer lost; `forgotten` are the updates it will not deliver again. A scenario
chooses webhook or long polling and the kinds of the updates.

**Approvals** (`store/approvals.go`, `tools/hitl.go`, `telegram/hitl.go`,
`telegram/notify.go`, `telegram/edit.go`, `server/approvals.go`, the gates of
`app/`). `ledger[i]` is the state column of request `i`. Gated commands and
presses are rows that the same workers take; `StartGate` creates the request,
`GatePoll`, `GateTimeout`, `GateRun` are `RunGated`, `HandlePress` is
`callbackText` with `decideOne`, `RestDecide` the REST endpoint. The lists a
worker or the notifier works through are sets taken oldest first. Reminder times
are nondeterministic. Claim and send faults belong to Inbox and do not occur
here. `deploy` chooses the pool, and whether it crashes and its calls fail;
`unsent` remembers announcements the Bot API refused.

**Scheduler** (`telegram/scheduler.go`, `store/schedules.go`, the part of
`startTelegram` in `app/app.go` that boots it). `rows` and `lastId` are the
table `scheduled_jobs` with its autoincrement; `next`, `jobs`, `crons`, `loops`
the fields of `Scheduler`, the job objects and the goroutines. `Wire`,
`ListSchedules`, `Rehydrate`, `LaunchAll` are `StartSchedules` and `Start`; the
worker pool is already running, so that a `Register` (`SaveSchedule` before the
lock, `AddJob` under it, `Reply`) may come between any two of them.
`Unregister` holds the lock throughout and is one action. It is modelled as the
scheduler offers it; that the dispatcher does not route `/unschedule #1` there is
Wiring's subject. `LoopRound` is one round of a loop. `fate` (what users were told),
`overlap`, `degraded` and `missed` are history variables. A `Register` that
overlaps the boot can be launched twice, once by itself and once by
`LaunchAll`; `OneLoopPerSchedule` and part of `RepliesAreHonest` therefore
exclude a process with such an overlap, and say so.

**Serve** (`server/http.go`, `server/events.go`, `grpcapi/server.go`,
`store/answers.go`, `task/task.go`, `loop/loop.go`, `cli/serve.go`). `Put`,
`Acknowledge`, `RunEnds` are the 202 path; writes to the table go through `queue`
(the abstraction of WriteQueue) and are applied later by `ApplyWrite`, reads are
direct: `PollRead` and `PollDelete` are the two halves of a `GetAnswer` that finds
an expired row. `Tick` is five minutes, `Sweep` the expiry loop. `Subscribe`,
`Published`, `Forward`, `Disconnect` are the event stream. `Signal`,
`ShutdownHTTP`, `StopGRPC`, `JoinTasks`, `Cleanup` are the stop with its waits, and
`ListenerFails` the other way out of `serve`, past all of them, with the servers
still accepting until the process is gone (`Serving`). `cutShort` remembers what
cut a stop short: a wait that gave up, or the listener. `ServeCrash` and `Boot`
are the rest of a life.

**Jobs** (`tools/jobs.go`, `tools/downloadtool.go`). `Register`, `Launch`,
`StoreCancel` are the three parts of `Start`; `Fetch`, `Copy`, `CloseFile`,
`Rename`, `RemovePart` the download in its goroutine, `Settle` the wrapper that
writes the outcome, `Cancel` and `Expire` what ends its context. Bodies are
lengths.

**LogRotate** (`logx/rotate.go`): the system calls of one `Write`: `Rename`, `Reopen`,
one `Prune` for each file removed, `AppendRecord`, each of which may fail, and
`Close`. Records have any `Length`, so that one may be longer than the cap, and a
failing write may leave a part of its record behind. `bytes` is the size of the
file, `size` what the writer thinks it is, a rotated file has the `stamp` of the
record that made the writer rotate, and `stuck` remembers that a rename failed.
`LogSpec` is the writer alone. **LogWatch** (`logwatch/watchdog.go`, `store.go`,
`app/watchgate.go`) extends it: `Stat` and `ReadAt` are the two halves of a poll,
`Add`, `AddReturns`, `Persist`, `RemoveWatch` the commands, `BootList` and
`BootAdd` the boot, `PumpSend` the goroutine behind the alert buffer. The writer
and the tail are thus checked together. A watch's positions are numbers of records
there, which stand for bytes when records have the length one (`UnitRecords`).
`history` is the rotation that a watch has not noticed, if any.

**Rules** (`app/reloadgate.go`, `addrulegate.go`, `registerrulesgate.go`,
`cli/importrules.go`, `miner/miner.go`, `router/reconcile.go`, `rulesstore.go`).
`Request`, `Decide`, `WriteRule` (one row at a time), `LoadForSwap`, `SwapRules`
are a gate or an import; `ReloadRead` and `ReloadSwap` the hot reload, which
compiles what it read; `ImportBegins` the validation with which an import starts;
`MinePropose`, `MineName`, `MineInsert` one proposal of the
miner; `EngineRoutes` and `EngineJudges` a run of the engine that compares a mined
rule and, later, promotes, demotes or leaves its row (what it takes to be promoted
is Engine's subject); `OperatorEdits`, `Stop`, `Boot` (with `Reconciled`) the operator's side. `disabled` and
`chosen` remember what a human last decided about a rule.

**Routes** is the ladder of guards of `Process`, as one table, and **Wiring**
composes it with the boot of `startTelegram`, during which workers already run.

**LogStats** (`loganalysis/analyze.go`, `Analyze` of `logwatch/watchdog.go`) and
**Forecast** (`opsforecast/forecast.go`, `tools/opsforecasttool.go`,
`tools/logtool.go`) are pure operators over lines that are records of what the
regular expressions find, with exact integers in place of floats (a mean is a sum
and a count, a slope a numerator and a denominator). Sums and selections are
recursive functions, a sort is a ranking, so that they can be reasoned about. The
state machine around them (`ToolsSpec`) writes lines and calls the tools. A log that
cannot be read is an error message and no report, and is left out.

**WriteQueueProofs**, **ApprovalsProofs**, **EngineProofs**, **InboxProofs**,
**DetachedProofs** (Jobs and Serve: what runs detached from the request that
started it), **SchedulerProofs**, **RulesProofs** and **LogProofs** (LogRotate,
LogWatch, LogStats and Forecast) hold the theorems. The modules **MC...** give TLC
model values, deployments, texts and lines.

Operators introduced by a comment "Mutant:" are plausible bugs. None of them is
part of a specification; each is there to show that some property notices when
it replaces the definition below it (`mutants` in PROJECT.json).

## Runs

| Run | Config | Shows |
|---|---|---|
| writequeue | MCWriteQueue.cfg | Sync, async, flush and direct write against two calls of `Close`, with failing transactions: answers are truthful, a stop drains, the store implements DurableLog, `CloseReturns`, `SyncAnsweredWhileOpen`. |
| engine | MCEngine.cfg | Two callers with a failing store, or one with the operator and two reloaders: `OneAuditRow`, `PromotionEarned`, `ReloadConverges`. |
| inbox | MCInbox.cfg | Webhook and long polling, two workers, a budget of crashes and failures: `AtMostOneReply`, `NoUpdateLost`, `CursorBehindPending`, and that every update is settled and the cursor catches up. |
| approvals | MCApprovals.cfg | Two workers on one gated command, or one that crashes and whose calls fail; a press, REST and timeouts: safety and liveness. |
| scheduler | MCScheduler.cfg | Two `/every` commands, `Unregister`, one restart with a changed allowlist, failing store: safety and `ReturnsAfterRestart`. |
| serve | MCServe.cfg | A REST and a gRPC request with one trace id, a stream, expiry, polls, failing writes, a stop, a failing listener and a crash: `FreshAnswersStay`, `StopLosesNothing`, `PendingEnds`. |
| jobs | MCJobs.cfg | Two downloads to one path, cancels anywhere, stalls, oversize bodies, retention and a crash: outcomes match the disk; `JobsEnd`. |
| logwatch | MCLogWatch.cfg | The rotating writer with faults under a tail, with commands that replace and remove the watch: `LogIsKept`, `CapIsKept`, `ReadsOnce`, `MatchesAreSeen`. |
| rules | MCRules.cfg | A gated batch, an import, the miner, the engine, an operator's edit, a bad rule, a failing call or a restart: `OperatorDecisionStands`, `DroppedStaysOut`, `ReportedRulesGoLive`. |
| analytics | MCForecast.cfg | All logs of up to five lines of six kinds, all audit trails of three kinds of rows: reports, fit and advice against reference definitions. |
| dispatcher_routes | MCWiring.cfg | Violation of `DocumentedCommandsReachable`. |
| scheduler_send | MCSchedulerSend.cfg | Violation of `RepliesDelivered`. |

Beside the runs stand other instances, for what the runs' bounds leave out and for
statements of the code's own comments that the code does not keep (TLC ends with a
counterexample; see Findings):

| Config (module) | Checks |
|---|---|
| MCLogRotate.cfg (MCLogRotate) | The writer alone, with `Close`, three faults and records longer than the cap: `LogIsKept` and `CapIsKept` hold. |
| MCRulesMining.cfg (MCRules) | Two mined names and two operator edits: `OperatorDecisionStands`, `DroppedStaysOut` and `NoDuplicateMined` hold. |
| MCWriteQueueLate.cfg, MCWriteQueueDrain.cfg (MCWriteQueue) | Refute `NoWriteLeftBehind` and `SyncAnswered`. |
| MCEngineDemote.cfg (MCEngine) | Refutes `DivergenceDemotes`. |
| MCServeJoin.cfg (MCServe) | Refutes `RunsJoinedBeforeClose`. |
| MCRulesBatch.cfg (MCRules) | Refutes `BatchesAreAtomic`. |
| MCLogWatchRotation.cfg (MCLogWatch) | Refutes `RotationsShow`. |

Bounds, and why they are enough for the cases of interest:

- `QueueCap = BatchCap = 2` with three queued calls: the queue fills, a batch
  fills, a batch is cut with elements left, and a drain takes more than one batch.
- `PromoteAfter = 2`, `StreakLimit = 3`, at most 3 runs: a streak is completed,
  broken and completed again. One seed and one mined rule suffice because rules
  interact only through "is any row enabled".
- Two updates in three scenarios: a batch is cut by `PendingLimit = 1`, and rows
  of different kinds overlap. `MaxFaults = 2` bounds crashes and failures
  together, so that every failing call and every pair of them is followed by a
  recovery.
- One gated command: two workers already make two requests of it (no lease on the
  row), and so does one worker that crashes. One press is enough to be late, to
  lose against REST, or to be stuck.
- Two `/every` commands of one chat that may leave the allowlist, two ids and one
  restart: a schedule is saved, rehydrated, deleted or left behind by a failed
  delete, while another is registered before, during or after the boot.
- Two requests with one trace id, `TTL = 2`, `RunBound = 1`: a row expires while
  its run, its delete or its completion is under way, and is used again. One event
  fills a subscriber's channel; two writes fill the queue.
- Two jobs, one path, a cap of one byte and bodies up to one above it: below, at
  and above the cap; `MaxFinished = 1` makes the second end evict the first.
- Five records, `MaxBytes = 2`, `KeepFiles = 1`: two rotations and a pruning, one
  failing call or restart; one name, a pattern that leaves one record out, and two
  commands. MCLogRotate adds lengths from 1 to 5 with a cap of 3, so that files are
  filled, left half full and exceeded by one record, and three faults: a removal
  fails, the next one does not, and a later pruning makes up for it.
- Rules: a batch of two of which one overrides a seed, an import that brings the seed
  back, one mined name, one edit and one failing call or restart; a second mined name
  matters to `NoDuplicateMined` only (MCRulesMining).
- The thresholds 1 and 3 lie below, at and above the series that the lines
  produce; logs of five lines cut the window of four, but no list of the most
  frequent is cut there (only the theorem `ReportsExact` covers that);
  `DurationMax` is small enough that the time to a crossing exceeds it.

Other properties of the modules (their type invariants, `CommitOrder`,
`FlushBarrier`, `PromptRunsOnce`, `CursorMonotone`, `OnlyAllowedChats`, `NoDuplicateMined`,
`RetentionKeepsNewest`, `TableMatchesLive`, `LiveCompiles`) hold on the same
instances as well; the runs list what takes more steps to break, and some of the
others are proved (below).

`CHECK_DEADLOCK FALSE` is set because users stop sending, and the bounded
inputs run out: a state in which everybody is idle is a normal end. What must not
stop is stated as liveness instead.

Some properties name an exception under which the code does not keep them
(`missed` in `NoUpdateLost`, `missed` and `ScanFilled` in `CursorBehindPending`,
`overlap` in the scheduler's, `Reused` in
`FreshAnswersStay`, `cutShort` in `StopLosesNothing`, the `history` of a watch in
`ReadsOnce` and `MatchesAreSeen`, mined rules in the first half of
`OperatorDecisionStands`, `stuck` in `CapIsKept`, a second miner in `NoDuplicateMined`,
`representable` in `AdviceFollowsTrend`).
Each exception is a case under Findings.

## Fairness

Weak fairness on goroutines that the code starts and never blocks
intentionally: the batcher, callers that have begun a call, a `Close` that has
begun, runs that have begun (every provider call has a deadline), the poll loop
and the pool workers, notifier and editor, the hot-reload ticker. Telegram
redelivers until it sees a 200, which is what its webhook contract says and
what `webhook.go` relies on. Nothing is assumed of users, operators, REST clients,
the miner, contexts that may end, or crashes. In approvals the gate's timeout is
part of the worker's step (`RunGated` checks its deadline in each round). In
Scheduler only the boot is fair (`startTelegram` runs to its end): no timer need
expire and no user need write. In `FairSpec` of Engine `ReloadSwap` is
fair and `ReloadRejected` is not required: a set that is rejected for ever never
becomes live, so `ReloadConverges` supposes that rejections end. In Serve the
queue, the handlers, the sweep, the stop's steps and time itself go on, and a
supervisor boots the process again; no client need poll or connect. In Jobs only
deadlines are certain: a goroutine need move only once its context has ended,
since a server may stall. In LogWatch polls go on (`loop.Periodic`) and a command
that has begun returns; the log need not be written. In Rules only the hot reload
and a boot are fair.

## Proofs

Every safety invariant and every action property that a passing run checks is a
theorem for all values of the constants; the rest of the runs' properties are
liveness. The theorems are about `Spec` (`ServeSpec`, `ToolsSpec`, `LogSpec`), without
fairness, and rest on the named ASSUMEs of the modules only (`RecordsReadOnce` has
`UnitRecords` for its hypothesis), which TLC evaluates
on every run: sets that mean different things are different, capacities and
limits that are positive in the code are positive, bounds are naturals. No set
is assumed finite and no capacity, limit or bound has a particular value. Some
of these came out of the proofs: the registry keeps at least one finished job
(`MaxFinished`, 256 in `jobs.go:30`), there is at least one seed rule (`Seeds`),
the value for "no definition", which also stands for "no writer", is no job
(Rules), a run's deadline is shorter than an answer's TTL (`TimeAssumption`), and
24 hours fit into a Duration (`ForecastAssumption`). A line of a log is blank or
any record of what the patterns may find (`LinesAssumption`), of any number of
lines.

Each invariant (`IInv`; for Serve, the parts named in the table) begins with the type invariant (in
RulesProofs and LogProofs, as much of it as is needed), and was first checked by
TLC on the instance of its component's run. Then there is one lemma or one step
per action, and under it one step per part of the invariant that the action can
disturb.

| Module | Theorems (property) | What the invariant adds, and why it is needed |
|---|---|---|
| WriteQueueProofs | `TypeCorrect`, `AckedWritesAreDurable` (`AckedIsDurable`), `ErrorsLeaveNothing` (`ErrorMeansAbsent`), `NoDoubleApply` (`AppliedAtMostOnce`), `GracefulStop` (`GracefulStopDrains`), `Refinement` (`ImplementsDurableLog`), `CommitsKeepOrder` (`CommitOrder`), `FlushIsBarrier` (`FlushBarrier`) | `Placement`: a call is in at most one of not sent, channel, batch, database, rolled back, except between the transaction and the answers. `Answers`: done channels and returns agree with the transaction's outcome. `Shutdown`: the stages of Close are ordered, and what was accepted before it is not in the channel once the batcher is gone. `LineInv`, for the refinement: calls and the line (the batch followed by the channel) agree, so that a sent call waits or has returned, and `apply` never runs on an empty batch. `OrderInv`: the database, the line, and the line behind what is resolved are in the order of acceptance, and what was accepted is in one of them. |
| ApprovalsProofs | `TypeCorrect`, `GatesAreFailClosed` (`RunsOnlyApproved`), `DecisionsAreFinal` (`DecisionIsFinal`), `PendingKeepsButtons` (`ButtonsStayWhilePending`) | `GateInv`: workers inside `RunGated` have different requests, not yet run, and one about to act has read "approved" from a row that cannot change any more. For the buttons: every edit that is queued or under way is for a decided request. |
| EngineProofs | `TypeCorrect`, `RunsAreAuditedOnce` (`OneAuditRow`), `PromotionsAreEarned` (`PromotionEarned`) | `BranchInv`: where a run is says how the router decided. `SilentInv`: nothing is logged or written for a run before its tail, so that the tail's line is the only one and its rows can only repeat it or be lost. `StreakInv`: a run about to promote has seen a streak, which stays in the record because comparisons are only added (`EarnedGrows`). `StreakFacts` derives the streak from the count that the code takes: more than `PromoteAfter - 1` positions cannot fit behind a divergence. |
| InboxProofs | `TypeCorrect`, `OneOwnerOneReply` (`AtMostOneReply`), `PromptsRunOnce` (`PromptRunsOnce`), `NothingIsLost` (`NoUpdateLost`), `CursorStaysBehind` (`CursorBehindPending`), `CursorOnlyAdvances` (`CursorMonotone`) | `ClaimInv`: the claim is set while somebody owns the reply and is given back only when no reply went unnoticed. `PromptInv`: a prompt runs behind its placeholder. `PollInv`: what the poll loop acknowledges has a row or failed to get one; a batch leaves out only such updates; what it has walked over is recorded. `CursorInv`, for the cursor's direction: the Bot API forgets from the front, what it may deliver again up to the cursor fits into one answer of getUpdates, and so a batch that was fetched from zero, after a `HighWater` that failed, reaches the cursor again. |
| DetachedProofs, Jobs | `TypeCorrect`, `OutcomesMatch` (`OutcomeMatchesFiles`), `TargetsAreWhole` (`NoPartialTarget`), `CancelsAreHonoured` (`CancelIsHonoured`), `NewestStay` (`RetentionKeepsNewest`) | `StageInv`: how far `Start`, goroutine and registry can be of each other. `FileInv`: where the `.part` file and the target are at each stage; a whole body has been copied when the rename comes. `CancelInv`: an issued cancel is the end of the context. `ListInv`: the list of finished jobs names each once. |
| DetachedProofs, Serve | `ServeTypeCorrect`, `AnswersStay` (`FreshAnswersStay`), `StopsLoseNothing` (`StopLosesNothing`) | `PutInv`: each request puts one row, and a completion is of a run that was promised. `RowInv`: a row, or a decided deletion, comes from a put that has been applied. `FreshInv`: as long as the request of a trace id that was used once may write its row, the row has time left, more than the run; it is deleted only after that. `StopInv`: from `StopGRPC` on nobody is handled, and nobody runs once the runs have been joined, unless a wait gave up or was skipped. |
| SchedulerProofs | `TypeCorrect`, `SchedulesRunOnce` (`OneLoopPerSchedule`), `RepliesStayHonest` (`RepliesAreHonest`), `LoopsAreAllowed` (`OnlyAllowedChats`) | `TableInv`: ids grow, two commands never hold one, a saved row stays until its fate is known. `ChatInv`: only allowed chats get jobs. `OrderInv`, without an overlap of boot and `Register`: the job of an id is the one cronJob of that id which goes on, and each cronJob has one loop. |
| RulesProofs | `TypeCorrect`, `OperatorWins` (`OperatorDecisionStands`), `DisabledStaysOut` (`DroppedStaysOut`), `MinesOnce` (`NoDuplicateMined`), `RoutesCompile` (`LiveCompiles`) | `TableInv`: rows are whole, and a disabled name has one (so that reseeding, which fills gaps, leaves it alone), as a rule that a human chose has; runs compare mined rules only, so that the engine's promotion reaches no other row. `MinerInv`: the pattern about to be inserted is none of the miner's own, although the table may change between its calls. `JobInv`, `RouterInv`: a set that waits to be swapped in is not empty. |
| LogProofs, LogRotate and LogWatch | `AckedRecordsStay` (`LogIsKept`), `FilesStaySmall` (`CapIsKept`), `RecordsReadOnce` (`ReadsOnce`), `TableIsLive` (`TableMatchesLive`) | `DiskInv`: records stand in the active file in the order of their writes. `KeptInv`: stamps ascend, each is newer than the records of its file, and pruning, which may leave any file behind, starts with the oldest and leaves the newest alone, so that what it takes is pushed out. `SizeInv`: an open writer knows the size of its file, and what it is about to append fits, is alone in the file or follows a rename that failed. `CountInv`: a watch either stands where it has read to, with nothing beyond counted, or the file is a new one of which nothing was counted. `GateInv`: commands run one at a time, a name on which manager and table differ is the one of the command under way, which is about to write what the manager has, and a boot finds an empty manager. |
| LogProofs, LogStats and Forecast | `ReportsExact` (`ReportsAreExact`), `ForecastsFit` (`FitIsLeastSquares`), `LeastSquares`, `AdviceIsSound` (`AdviceFollowsTrend`) | `LogInv`: the log is a sequence of lines, of which an answer is about the newest. The work is in lemmas about these computations, below. |

Proving changed one statement. `CursorBehindPending` excluded updates in
`missed` only, and is not inductive that way for a `ScanLimit` of 1 and two
updates: an update whose insert failed comes again after a failed `HighWater`
read, is a pending row behind the cursor, and takes the place in the scan of
the row that should have stopped it. `ScanFilled` names this case. It needs as
many such rows as the scan reads (ten times `pollBatchMax`, `poll.go:121`).

The analytics are mathematics about functions of a log, for logs of any length.
What a recursive function computes is shown by its least counterexample
(`LeastNumber`, `RecursionExists`, `TotalFacts`), once for each function. For the
fit: totals are linear (`TotalLinear`), the residuals of the fitted line add up to
zero and are orthogonal to the places (`ResidualsVanish`, `MomentsVanish`), so that
no other line with rational coefficients is nearer to any series (`LeastSquares`);
the spread around the mean splits into the line's part and the residuals' (`DeviationsSplit`), and the
denominator is positive from two places on (`DenominatorPositive`). For the
reports: a strict order ranks a finite set without ties or gaps (`RankFacts`,
`InOrderFacts`); what is read are the newest lines that say anything, each once
(`ReadShows`, `SelectionShows`); a tally has true numbers and its top leaves out
nothing more frequent (`TallyFacts`, `TopFacts`); the sorted latencies are in
ascending order, and fewer than k of them are below the k-th (`AscendingFacts`,
`AscendingOrder`).

Facts that several proofs need are lemmas: what `Append`, `Tail`,
`SubSeq` and concatenation hold; `LeastNumber` (a non-empty set of
naturals has a least element, from the library's well-founded relations), from
which `RankFacts` says that the oldest elements of a finite set are as many as
were asked for.

`TypeCorrect` (except the store's), `NoDoubleApply`, `CommitsKeepOrder`,
`FlushIsBarrier`, `PromptsRunOnce`, `CursorOnlyAdvances`, `LeastSquares`,
`NewestStay`, `LoopsAreAllowed`, `MinesOnce`, `RoutesCompile`, `TableIsLive` and `ServeTypeCorrect` are listed without a run's
property: TLC checked the invariants on the same instances, but what is in the
runs' lists takes more steps to break, and `LeastSquares` is about all series,
integers of any size among them.

Model-checked only:

- all liveness: fairness and ENABLED are outside the prover's reach;
- what `ReportsAreExact` does not name of a report (bursts, the slowest request,
  the audit trail's averages, the errors of `/analyze`): it is modelled, and no
  property is about it;
- the upper bound of `counted` in LogWatch's `TypeOK`: how often a watch that was
  overtaken by rotations may count a record; the proofs use
  `counted[n][r] \in {0, 1}` for the others.

## Findings

With a run:

1. **Documented commands are unknown** (dispatcher_routes, `dispatcher.go:188`).
   The arms of `/audit`, `/watch`, `/unwatch`, `/analyze` and `/unschedule`
   compare the whole text, so that with an argument they do not match
   (`src/README.md:236`, 242-245, 263 document them with one). `RegisterGated`
   replaces the map and is called three times (`app.go:326-336`, against "Call
   once at build time", `hitl.go:193-197`), so that of `/reload_rules`,
   `/addrule` and `/register_rules` only the last is served; and the newline of a
   pasted batch sticks to its command word (`dispatcher.go:231`).
2. **Scheduled replies are sent with a cancelled context** (scheduler_send,
   `scheduler.go:206`). The loop calls `cancel()` after the engine has run and
   passes the same context to `SendMessage`, whose HTTP request is built with it
   (`client.go:129`) and refused. `scheduler.go:25-26` says it "sends the engine's
   reply to the allowlisted chat that registered them"; the fake client of
   `scheduler_test.go` ignores its context.

With an instance beside the runs:

3. **A write can be accepted by a closed store** (MCWriteQueueLate, `store.go:95`).
   `enqueue` loads `closed` and sends afterwards; `Close` and the whole drain fit in
   between, and nobody reads the write. `store.go:83` promises "draining queued
   writes", `close_test.go:64-65` that a write never queues "behind a dead batcher".
4. **A drained sync write is never answered** (MCWriteQueueDrain, `store.go:182`).
   `drainRemaining` answers only a batch that failed; a caller of `execSync` whose
   write was committed there waits until its context ends (`store.go:113`: "waits for
   its error").
5. **A promotion undoes a later demotion** (MCEngineDemote, `engine.go:474`). Streak and
   promotion are two calls; another run's divergence and demotion fit in between
   (`engine.go:456`: "Divergence ALWAYS demotes").
6. **serve can exit without joining the runs** (MCServeJoin, `serve.go:155`, 139, 161). A
   failing listener, and a `Shutdown` that an event stream holds up for its 15 s,
   return before `tasks.Wait`, which 166-168 ask for: runs acknowledged with a 202
   are lost.
7. **Batches of rules are not atomic** (MCRulesBatch, `registerrulesgate.go:113`). Each
   rule is a statement of its own, and an error leaves those before it in the table
   (`registerrulesgate.go:101-102`: "one atomic batch"; `importrules.go:28`: "never
   half-applied").
8. **A rotation need not show up as a size drop** (MCLogWatchRotation,
   `watchdog.go:168`). If the new file has grown to what was read of the old one by
   the next poll, the tail goes on in its middle and never reads its head
   (`watchdog.go:9`, 152-153).

Met while modelling, and in the models, without a run of their own. Several are
the exceptions that the properties name:

- `store.go:109`: `exec` drops the error of a full or closed queue, and a batch that
  fails loses its rows silently: an audit or corpus row may be missing for a run that
  succeeded (`Stored` in Engine).
- `engine.go:474`: the promotion also enables a mined rule that the operator disabled
  while a run compared it.
- `poll.go:135`: a failed insert has no row, and the cursor moves past it
  (`poll.go:91`: "next poll refetches").
- `answers.go:84`: the DELETE of an expired row names the trace id only; a client
  that reuses the id may lose the new row.
- `events.go:61` leaves a goroutine per connection.
- `jobs.go:118-120`: a running job whose cancel function is not stored yet is
  reported like a finished one (`dispatcher.go:842`).
- `watchdog.go:174`: a rotation between the Stat and the read makes the poll read the
  new file from the old offset; `watchdog.go:115` starts the cooldown even if the alert is dropped;
  `watchgate.go:288` starts the pump only if there are watches at boot.
- `rotate.go:89`: the Write during which the rename succeeds and the reopen fails
  is lost; after a rename that failed the file grows beyond the cap, and a record
  longer than the cap exceeds it alone (`rotate_test.go:49-51`).
- `rotate.go:133`: a file that could not be removed stays, while newer ones go.
- `registerrulesgate.go`: an upsert keeps state and origin, so that a rule
  reported live may stay in shadow; a reload applies the table as it is at
  approval, not the diff that was shown; one row that does not compile blocks every
  reload and the next boot; with every row disabled the seeds come back.
- `miner.go:84`: the loop and `ctl` mining at once can add one pattern twice.
- `hitl.go:133`: a command is known if a pattern begins with it, so `/df`, `/free`
  and `/uname` are unknown and `/u` reaches the engine.
- `forecast.go:329`: the time to the threshold overflows a Duration before it is
  compared with 24 hours; `forecast.go:345` says "ALREADY at/over" of a metric
  below the threshold that does not rise.
- `analyze.go`: the mean latency of a path counts lines without a latency as -1;
  p95 of two values is the smaller one.

## Not modelled

- Generated protobuf code; JSON envelopes, dashboards, rendering, formatting and
  logging: no state of their own.
- Tools, provider and Bot API calls: external effects, abstracted to success,
  refusal and (for sends) lost answers.
- SQLite itself: a statement is atomic and a transaction is all or nothing.
- `ExpireApprovals`: no caller outside its test. Typed `/approve` and `/deny` reach
  the same `decideOne` as a press (their routes are in Routes).
- How text becomes what a rule, a log line or a prompt means: regular expressions,
  `NormalizePrompt`, pattern synthesis and argument splicing work character by
  character; the models take their results as given.
- Time: deadlines, tickers and reminders are nondeterministic, except where an
  order of durations matters (Serve).
- Everything marked `not_modelled` or `partly` in PROJECT.json, for the reason
  given there.

## Plan

What is left:

1. Properties of what `ReportsAreExact` does not name: bursts, the slowest request,
   the audit trail's averages.
2. Boundary cases with larger lists: `StreakLimit` below `PromoteAfter`,
   `ListLimit` below the number of pending requests.
