------------------------------- MODULE Serve -------------------------------
(***************************************************************************)
(* Asynchronous answers and the life of `aegis serve': the 202 path of     *)
(* REST and gRPC (internal/server/http.go, internal/grpcapi/server.go),    *)
(* the answers table (internal/store/answers.go), detached runs            *)
(* (internal/task/task.go), the run-event stream (internal/server/         *)
(* events.go), the sweep (internal/loop/loop.go) and the shutdown of       *)
(* internal/cli/serve.go.                                                  *)
(*                                                                         *)
(* Writes to the table pass the store's queue, which WriteQueue specifies: *)
(* here it is a sequence applied in order, each write as a whole or not.   *)
(* Reads go to the table directly.  A tick is five minutes: rows and runs  *)
(* have what is left of their time, and neither a queued write nor the     *)
(* handler of a 202 waits for a tick.  Prompts, outputs and HTTP envelopes *)
(* are left out.                                                           *)
(***************************************************************************)
EXTENDS Naturals, Sequences, FiniteSets

CONSTANTS
    Requests,    \* async run requests
    GRPC,        \* those of them that arrive over gRPC
    Traces,      \* trace ids, which clients may supply and reuse
    TraceOf,     \* the trace id of each request
    NoTrace,     \* no poll is under way
    Streams,     \* clients that hold an HTTP handler (GET /v1/events)
    QueueCap,    \* the capacity of the store's queue
    EventCap,    \* the buffer of an event subscriber
    TTL,         \* AnswerTTL in ticks
    RunBound,    \* the deadline of a detached run in ticks
    MaxFaults    \* bound on stops, crashes and failed writes

ASSUME TimeAssumption == RunBound \in Nat /\ TTL \in Nat /\ RunBound < TTL
ASSUME CapacityAssumption == MaxFaults \in Nat /\ EventCap \in Nat /\ QueueCap \in Nat \ {0}
ASSUME RequestsAssumption == GRPC \subseteq Requests /\ TraceOf \in [Requests -> Traces]
ASSUME NoTraceAssumption == NoTrace \notin Traces

VARIABLES
    rows,     \* answers: [status, left] of each trace; status "none" if there is no row
    queue,    \* the store's write queue
    req,      \* the handler of each request
    task,     \* the detached run of each request
    budget,   \* ticks left of a run's deadline
    swept,    \* the sweep of this tick has begun
    poll,     \* the trace whose row a GetAnswer found expired
    stream,   \* the handler of each stream
    subs,     \* EventPub.subs: events buffered for each stream, EventCap + 1 if it is not there
    phase,    \* how far serve is
    cutShort, \* what cut the stop short: a wait that gave up, a listener that failed
    faults    \* stops, crashes and failed writes so far

tableVars == <<rows, queue>>
runVars == <<req, task, budget>>
streamVars == <<stream, subs>>
stopVars == <<phase, cutShort, faults>>
serveVars == <<tableVars, runVars, streamVars, swept, poll, stopVars>>

NoRow == [status |-> "none", left |-> 0]
Absent == EventCap + 1

\* serve: accepting; srv.Shutdown; GracefulStop; tasks.Wait; the deferred
\* cleanup; the process has ended.
Phases == {"up", "http", "grpc", "join", "cleanup", "down"}

Writes ==
    [op : {"put"}, r : Requests]
        \cup [op : {"complete"}, r : Requests, status : {"done", "error"}]
        \cup [op : {"delete"}, t : Traces]
        \cup [op : {"sweep"}]

\* The type invariant.  A run exists for accepted requests only.
ServeTypeOK ==
    /\ rows \in [Traces -> [status : {"none", "pending", "done", "error"}, left : 0..TTL]]
    /\ queue \in Seq(Writes) /\ Len(queue) <= QueueCap
    /\ req \in [Requests -> {"idle", "putting", "put", "acked", "refused"}]
    /\ task \in [Requests -> {"none", "running", "completing", "settled", "lost"}]
    /\ budget \in [Requests -> 0..RunBound]
    /\ swept \in BOOLEAN
    /\ poll \in Traces \cup {NoTrace}
    /\ stream \in [Streams -> {"idle", "open", "gone"}]
    /\ subs \in [Streams -> 0..Absent]
    /\ phase \in Phases
    /\ cutShort \subseteq {"http", "join", "listener"}
    /\ faults \in 0..MaxFaults
    /\ \A r \in Requests : task[r] # "none" => req[r] = "acked"

ServeInit ==
    /\ rows = [t \in Traces |-> NoRow]
    /\ queue = <<>>
    /\ req = [r \in Requests |-> "idle"]
    /\ task = [r \in Requests |-> "none"]
    /\ budget = [r \in Requests |-> 0]
    /\ swept = FALSE
    /\ poll = NoTrace
    /\ stream = [s \in Streams |-> "idle"] /\ subs = [s \in Streams |-> Absent]
    /\ phase = "up" /\ cutShort = {} /\ faults = 0

-----------------------------------------------------------------------------
(* The store.                                                              *)

Fault == faults < MaxFaults /\ faults' = faults + 1

StoreOpen == phase # "down"

\* A send into the queue, or the error of a full one.
Enqueue(w) == Len(queue) < QueueCap /\ queue' = Append(queue, w)
QueueFull == Len(queue) >= QueueCap /\ UNCHANGED queue

\* The rows after a write.  Put is INSERT OR REPLACE; a completion updates the
\* row of its trace if there is one; the sweep's WHERE is evaluated as it runs.
Applied(w) ==
    CASE w.op = "put" ->
           [rows EXCEPT ![TraceOf[w.r]] = [status |-> "pending", left |-> TTL]]
      [] w.op = "complete" ->
           [rows EXCEPT ![TraceOf[w.r]] =
               IF @.status = "none" THEN @ ELSE [status |-> w.status, left |-> TTL]]
      [] w.op = "delete" -> [rows EXCEPT ![w.t] = NoRow]
      [] w.op = "sweep" -> [t \in Traces |-> IF rows[t].left = 0 THEN NoRow ELSE rows[t]]

\* A write has been committed (ok) or not: its sync caller is told.  The
\* caller of a put may have left.
Signalled(w, ok) ==
    /\ req' = IF w.op = "put" /\ req[w.r] = "putting"
              THEN [req EXCEPT ![w.r] = IF ok THEN "put" ELSE "refused"] ELSE req
    /\ task' = IF w.op = "complete" /\ task[w.r] = "completing"
               THEN [task EXCEPT ![w.r] = IF ok THEN "settled" ELSE "lost"] ELSE task

\* The batcher's next write.  It goes on while Close drains the queue.
ApplyWrite ==
    /\ StoreOpen
    /\ queue # <<>>
    /\ queue' = Tail(queue)
    /\ \/ rows' = Applied(Head(queue)) /\ Signalled(Head(queue), TRUE)
          /\ UNCHANGED faults
       \/ Fault /\ UNCHANGED rows /\ Signalled(Head(queue), FALSE)
    /\ UNCHANGED <<budget, streamVars, swept, poll, phase, cutShort>>

-----------------------------------------------------------------------------
(* POST /v1/agent/run?async=1 and RunAsync.                                *)

\* Nobody has told the servers to stop: serve is up, or goes down because a
\* listener failed.
Serving == phase = "up" \/ (phase = "cleanup" /\ "listener" \in cutShort)

\* Does the server of this request take new calls?  gRPC does until it is
\* stopped, or until the end if a failed Shutdown skips that.
Accepting(r) ==
    \/ Serving
    \/ r \in GRPC /\ (phase = "http" \/ (phase = "cleanup" /\ "http" \in cutShort))

\* PutAnswer.
Put(r) ==
    /\ req[r] = "idle"
    /\ Accepting(r)
    /\ \/ Enqueue([op |-> "put", r |-> r]) /\ req' = [req EXCEPT ![r] = "putting"]
       \/ QueueFull /\ req' = [req EXCEPT ![r] = "refused"]
    /\ UNCHANGED <<rows, task, budget, streamVars, swept, poll, stopVars>>

\* The client goes away: execSync returns, the write stays in the queue.
PutAbandoned(r) ==
    /\ req[r] = "putting"
    /\ req' = [req EXCEPT ![r] = "refused"]
    /\ UNCHANGED <<tableVars, task, budget, streamVars, swept, poll, stopVars>>

\* Tasks.Go and the 202.
Acknowledge(r) ==
    /\ req[r] = "put"
    /\ req' = [req EXCEPT ![r] = "acked"]
    /\ task' = [task EXCEPT ![r] = "running"]
    /\ budget' = [budget EXCEPT ![r] = RunBound]
    /\ UNCHANGED <<tableVars, streamVars, swept, poll, stopVars>>

\* Publish to every subscriber; a full buffer loses the event.
Published == [s \in Streams |-> IF subs[s] < EventCap THEN subs[s] + 1 ELSE subs[s]]

\* The run ends, by its deadline at the latest; WrapRun publishes it and the
\* answer is completed, or cannot be.
RunEnds(r) ==
    /\ task[r] = "running"
    /\ subs' = Published
    /\ \/ /\ task' = [task EXCEPT ![r] = "completing"]
          /\ \E status \in {"done", "error"} :
                Enqueue([op |-> "complete", r |-> r, status |-> status])
       \/ QueueFull /\ task' = [task EXCEPT ![r] = "lost"]
    /\ UNCHANGED <<rows, req, budget, stream, swept, poll, stopVars>>

-----------------------------------------------------------------------------
(* Expiry.                                                                 *)

\* Mutant: a row counts as expired a tick too early.
ExpiredEarly(t) == rows[t].status # "none" /\ rows[t].left <= 1

\* GetAnswer's test, on the row it has read.
Expired(t) == rows[t].status # "none" /\ rows[t].left = 0

\* GetAnswer reads an expired row ...
PollRead(t) ==
    /\ Serving \/ phase = "http"
    /\ poll = NoTrace
    /\ Expired(t)
    /\ poll' = t
    /\ UNCHANGED <<tableVars, runVars, streamVars, swept, stopVars>>

\* ... and queues its deletion, by trace id.
PollDelete ==
    /\ poll # NoTrace
    /\ poll' = NoTrace
    /\ Enqueue([op |-> "delete", t |-> poll]) \/ QueueFull
    /\ UNCHANGED <<rows, runVars, streamVars, swept, stopVars>>

\* Mutant: the sweep is not started.
SweepNever == FALSE /\ UNCHANGED serveVars

\* The periodic sweep.
Sweep ==
    /\ phase # "down" /\ phase # "cleanup"
    /\ ~swept
    /\ swept' = TRUE
    /\ Enqueue([op |-> "sweep"]) \/ QueueFull
    /\ UNCHANGED <<rows, runVars, streamVars, poll, stopVars>>

\* The handler of a request is between its first statement and the 202.
Handling(r) == req[r] \in {"putting", "put"}

\* Five minutes pass.  A run does not outlive its deadline.
Tick ==
    /\ queue = <<>>
    /\ \A r \in Requests : ~Handling(r) /\ (task[r] = "running" => budget[r] > 0)
    /\ rows' = [t \in Traces |->
                   [rows[t] EXCEPT !.left = IF @ = 0 THEN 0 ELSE @ - 1]]
    /\ budget' = [r \in Requests |-> IF task[r] = "running" THEN budget[r] - 1 ELSE 0]
    /\ swept' = FALSE
    /\ UNCHANGED <<queue, req, task, streamVars, poll, stopVars>>

-----------------------------------------------------------------------------
(* GET /v1/events: a handler that ends when its client leaves.             *)

Subscribe(s) ==
    /\ Serving
    /\ stream[s] = "idle"
    /\ stream' = [stream EXCEPT ![s] = "open"]
    /\ subs' = [subs EXCEPT ![s] = 0]
    /\ UNCHANGED <<tableVars, runVars, swept, poll, stopVars>>

\* The handler writes one event.
Forward(s) ==
    /\ stream[s] = "open"
    /\ subs[s] \in 1..EventCap
    /\ subs' = [subs EXCEPT ![s] = @ - 1]
    /\ UNCHANGED <<tableVars, runVars, stream, swept, poll, stopVars>>

\* r.Context is done: the handler returns and the subscription is removed.
Disconnect(s) ==
    /\ stream[s] = "open"
    /\ stream' = [stream EXCEPT ![s] = "gone"]
    /\ subs' = [subs EXCEPT ![s] = Absent]
    /\ UNCHANGED <<tableVars, runVars, swept, poll, stopVars>>

-----------------------------------------------------------------------------
(* Shutdown.                                                               *)

Goto(p) == phase' = p

\* SIGTERM.
Signal ==
    /\ phase = "up"
    /\ Fault
    /\ Goto("http")
    /\ UNCHANGED <<tableVars, runVars, streamVars, swept, poll, cutShort>>

\* The other branch of serve's select, and the gRPC listen that fails while the
\* HTTP server is up: serve returns the error at once.  No server is stopped
\* and no run is joined.
ListenerFails ==
    /\ phase = "up"
    /\ Fault
    /\ Goto("cleanup")
    /\ cutShort' = {"listener"}
    /\ UNCHANGED <<tableVars, runVars, streamVars, swept, poll>>

HTTPIdle ==
    /\ \A s \in Streams : stream[s] # "open"
    /\ \A r \in Requests \ GRPC : ~Handling(r)
    /\ poll = NoTrace

\* Mutant: the runs were started in another group.
JoinedOther == TRUE

\* tasks.Wait: every goroutine started with Go has returned.
Joined == \A r \in Requests : task[r] \notin {"running", "completing"}

\* srv.Shutdown returns when its handlers have.  A stream may keep it for the
\* whole 15 s: then it returns an error, and so does serve: neither gRPC nor
\* the runs are waited for.
ShutdownHTTP ==
    /\ phase = "http"
    /\ \/ HTTPIdle /\ Goto("grpc") /\ UNCHANGED cutShort
       \/ /\ \E s \in Streams : stream[s] = "open"
          /\ Goto("cleanup")
          /\ cutShort' = cutShort \cup {"http"}
    /\ UNCHANGED <<tableVars, runVars, streamVars, swept, poll, faults>>

\* GracefulStop: new calls are refused, present ones finish.
StopGRPC ==
    /\ phase = "grpc"
    /\ \A r \in GRPC : ~Handling(r)
    /\ Goto("join")
    /\ UNCHANGED <<tableVars, runVars, streamVars, swept, poll, cutShort, faults>>

\* tasks.Wait(10 s).
JoinTasks ==
    /\ phase = "join"
    /\ Goto("cleanup")
    /\ cutShort' = IF Joined THEN cutShort ELSE cutShort \cup {"join"}
    /\ UNCHANGED <<tableVars, runVars, streamVars, swept, poll, faults>>

\* What ends with the process: runs, handlers, subscriptions, the queue.
ProcessEnds ==
    /\ Goto("down")
    /\ queue' = <<>>
    /\ poll' = NoTrace
    /\ req' = [r \in Requests |-> IF Handling(r) THEN "refused" ELSE req[r]]
    /\ task' = [r \in Requests |-> IF task[r] \in {"running", "completing"} THEN "lost" ELSE task[r]]
    /\ stream' = [s \in Streams |-> IF stream[s] = "open" THEN "gone" ELSE stream[s]]
    /\ subs' = [s \in Streams |-> Absent]

\* The deferred calls: the sweep is stopped, store.Close drains the queue, the
\* process ends.
Cleanup ==
    /\ phase = "cleanup"
    /\ queue = <<>>
    /\ ProcessEnds
    /\ UNCHANGED <<rows, budget, swept, cutShort, faults>>

ServeCrash ==
    /\ phase # "down"
    /\ Fault
    /\ ProcessEnds
    /\ UNCHANGED <<rows, budget, swept, cutShort>>

\* systemd starts the service again.
Boot ==
    /\ phase = "down"
    /\ Goto("up")
    /\ cutShort' = {}
    /\ UNCHANGED <<tableVars, runVars, streamVars, swept, poll, faults>>

-----------------------------------------------------------------------------

HandlerStep(r) == Acknowledge(r) \/ RunEnds(r)
StopStep == ShutdownHTTP \/ StopGRPC \/ JoinTasks \/ Cleanup

ServeNext ==
    \/ ApplyWrite
    \/ \E r \in Requests : Put(r) \/ PutAbandoned(r) \/ HandlerStep(r)
    \/ \E t \in Traces : PollRead(t)
    \/ PollDelete
    \/ Sweep
    \/ Tick
    \/ \E s \in Streams : Subscribe(s) \/ Forward(s) \/ Disconnect(s)
    \/ Signal
    \/ ListenerFails
    \/ StopStep
    \/ ServeCrash
    \/ Boot

ServeSpec == ServeInit /\ [][ServeNext]_serveVars

\* Time passes, the batcher and the sweep run, handlers and runs end (each has
\* a deadline), a shutdown goes on, the service is restarted.  Clients need do
\* nothing.
Fairness ==
    /\ WF_serveVars(ApplyWrite) /\ WF_serveVars(PollDelete) /\ WF_serveVars(Sweep) /\ WF_serveVars(Tick)
    /\ \A r \in Requests : WF_serveVars(HandlerStep(r))
    /\ WF_serveVars(StopStep) /\ WF_serveVars(Boot)

ServeFairSpec == ServeSpec /\ Fairness

-----------------------------------------------------------------------------
(* Properties.                                                             *)

\* Clients have used this trace id for more than one request.
Reused(t) == Cardinality({r \in Requests : TraceOf[r] = t /\ req[r] # "idle"}) > 1

\* An answer stays for its whole TTL: no expiry decided on an earlier read of
\* the row, and no sweep, deletes a row that has time left, unless its trace id
\* was used again in between.
FreshAnswersStay ==
    [][\A t \in Traces :
          rows[t].left > 0 /\ rows'[t].status = "none" => Reused(t)]_serveVars

\* A stop that nothing cut short loses no answer that was promised: when every
\* wait has begun and has ended in time, no run had to be abandoned, however
\* requests raced the stages of the stop.
StopLosesNothing ==
    [][Cleanup /\ cutShort = {} => \A r \in Requests : task'[r] = "lost" => task[r] = "lost"]_serveVars

\* "Join in-flight async runs (bounded): their answers must persist before the
\* store closes": unless the bounded join itself gave up.  The code does not keep
\* it: a Shutdown that an event stream holds up for its 15 s, and a listener
\* that fails, make serve return before the join.
RunsJoinedBeforeClose ==
    [][Cleanup /\ "join" \notin cutShort =>
          \A r \in Requests : task'[r] = "lost" => task[r] = "lost"]_serveVars

\* "a stuck provider call must not park a pending answer forever": whatever
\* happens to the run, also a crash or a failed completion, a pending row gets
\* its answer or disappears.
PendingEnds ==
    \A t \in Traces : (rows[t].status = "pending") ~> (rows[t].status # "pending")
=============================================================================
