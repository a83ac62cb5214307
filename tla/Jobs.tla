-------------------------------- MODULE Jobs --------------------------------
(***************************************************************************)
(* Background jobs: the registry of internal/tools/jobs.go with its        *)
(* detached goroutines (internal/task/task.go), the one kind of job there  *)
(* is, a download (internal/tools/downloadtool.go), and the cancel calls   *)
(* of REST and Telegram.                                                   *)
(*                                                                         *)
(* A job has three actors: the tool call that starts it, its goroutine and *)
(* whoever cancels it.  They meet under the manager's lock, so that one    *)
(* locked section is one step.  Bodies are lengths, URLs are left out, and *)
(* a request that the guards of startDownload refuse starts nothing.       *)
(***************************************************************************)
EXTENDS Naturals, Sequences, FiniteSets, SequencesExt

CONSTANTS
    Ids,          \* job ids, one per download call
    Paths,        \* destination files
    PathOf,       \* the destination of each job
    NoJob,        \* what is at a path nothing was downloaded to
    MaxBytes,     \* AEGIS_DOWNLOAD_MAX_BYTES
    MaxFinished,  \* maxFinishedJobs
    MaxCrashes    \* bound on ends of the process

ASSUME PathsAssumption == PathOf \in [Ids -> Paths] /\ NoJob \notin Ids
ASSUME BoundsAssumption ==
    MaxBytes \in Nat /\ MaxFinished \in Nat \ {0} /\ MaxCrashes \in Nat

VARIABLES
    jobs,      \* JobManager.jobs: the status of each job, "absent" if it is not there
    finished,  \* JobManager.finished, oldest first
    cancels,   \* the keys of JobManager.cancels
    starter,   \* how far Start is
    run,       \* how far the job's goroutine is
    ctx,       \* the goroutine's context
    body,      \* the length of the response's body
    copied,    \* bytes copied so far
    parts,     \* jobs whose .part file exists
    target,    \* for each path, the job whose download is there and its length
    issued,    \* jobs whose cancellation was reported as issued in time
    crashes    \* ends of the process so far

registryVars == <<jobs, finished, cancels>>
fetchVars == <<body, copied>>
fileVars == <<parts, target>>
vars == <<registryVars, starter, run, ctx, fetchVars, fileVars, issued, crashes>>

Ended == {"done", "error", "cancelled"}

\* The goroutine: MkdirAll and CreateTemp; client.Do; io.Copy; Close and the
\* cap; os.Rename; the deferred Remove; fn has returned nil or an error; over.
Stages == {"none", "stage", "fetch", "copy", "close", "rename", "remove", "ok", "err", "over"}

\* The type invariant.  A cancel function is kept for running jobs only, and
\* exactly the ended jobs that are retained are in the list of finished ones.
TypeOK ==
    /\ jobs \in [Ids -> {"absent", "running"} \cup Ended]
    /\ finished \in Seq(Ids) /\ Len(finished) <= MaxFinished
    /\ cancels \subseteq {j \in Ids : jobs[j] = "running"}
    /\ starter \in [Ids -> {"idle", "registered", "launched", "returned"}]
    /\ run \in [Ids -> Stages]
    /\ ctx \in [Ids -> {"live", "expired", "cancelled"}]
    /\ body \in [Ids -> 0..(MaxBytes + 2)]
    /\ copied \in [Ids -> 0..(MaxBytes + 1)]
    /\ parts \subseteq Ids
    /\ target \in [Paths -> [job : Ids \cup {NoJob}, bytes : 0..(MaxBytes + 1)]]
    /\ issued \subseteq Ids
    /\ crashes \in 0..MaxCrashes
    /\ ToSet(finished) = {j \in Ids : jobs[j] \in Ended}

Init ==
    /\ jobs = [j \in Ids |-> "absent"]
    /\ finished = <<>>
    /\ cancels = {}
    /\ starter = [j \in Ids |-> "idle"]
    /\ run = [j \in Ids |-> "none"]
    /\ ctx = [j \in Ids |-> "live"]
    /\ body = [j \in Ids |-> 0] /\ copied = [j \in Ids |-> 0]
    /\ parts = {}
    /\ target = [p \in Paths |-> [job |-> NoJob, bytes |-> 0]]
    /\ issued = {}
    /\ crashes = 0

-----------------------------------------------------------------------------
(* The registry.                                                           *)

\* Start, first locked section: the job is listed as running.
Register(j) ==
    /\ starter[j] = "idle"
    /\ starter' = [starter EXCEPT ![j] = "registered"]
    /\ jobs' = [jobs EXCEPT ![j] = "running"]
    /\ UNCHANGED <<finished, cancels, run, ctx, fetchVars, fileVars, issued, crashes>>

\* GoCancel: the goroutine and its context exist.
Launch(j) ==
    /\ starter[j] = "registered"
    /\ starter' = [starter EXCEPT ![j] = "launched"]
    /\ run' = [run EXCEPT ![j] = "stage"]
    /\ UNCHANGED <<registryVars, ctx, fetchVars, fileVars, issued, crashes>>

\* Is the cancel function still worth keeping?
StillRunning(j) == jobs[j] = "running"

\* Start, second locked section.
StoreCancel(j) ==
    /\ starter[j] = "launched"
    /\ starter' = [starter EXCEPT ![j] = "returned"]
    /\ cancels' = IF StillRunning(j) THEN cancels \cup {j} ELSE cancels
    /\ UNCHANGED <<jobs, finished, run, ctx, fetchVars, fileVars, issued, crashes>>

\* The number of finished jobs that evictFinishedLocked drops.
Surplus(list) == IF Len(list) > MaxFinished THEN Len(list) - MaxFinished ELSE 0

\* Mutant: every error is reported as a failure.
OutcomeIgnoresCancel(j) == IF run[j] = "ok" THEN "done" ELSE "error"

\* The status of a job whose fn has returned.
Outcome(j) ==
    IF run[j] = "ok" THEN "done"
    ELSE IF ctx[j] = "cancelled" THEN "cancelled"
    ELSE "error"

\* The wrapper's locked section, with the eviction.
Settle(j) ==
    LET list == Append(finished, j)
        evicted == ToSet(SubSeq(list, 1, Surplus(list)))
    IN
    /\ run[j] \in {"ok", "err"}
    /\ run' = [run EXCEPT ![j] = "over"]
    /\ jobs' = [i \in Ids |-> IF i \in evicted THEN "absent"
                              ELSE IF i = j THEN Outcome(j) ELSE jobs[i]]
    /\ finished' = SubSeq(list, Surplus(list) + 1, Len(list))
    /\ cancels' = cancels \ {j}
    /\ UNCHANGED <<starter, ctx, fetchVars, fileVars, issued, crashes>>

\* Cancel issues a cancellation; otherwise it changes nothing.
Cancel(j) ==
    /\ jobs[j] = "running"
    /\ j \in cancels
    /\ IF ctx[j] = "live"
       THEN ctx' = [ctx EXCEPT ![j] = "cancelled"] /\ issued' = issued \cup {j}
       ELSE UNCHANGED <<ctx, issued>>
    /\ UNCHANGED <<registryVars, starter, run, fetchVars, fileVars, crashes>>

\* Mutant: the detached context has no deadline.
ExpireNever(j) == FALSE /\ UNCHANGED vars

\* The deadline of the detached context.
Expire(j) ==
    /\ run[j] \notin {"none", "over"}
    /\ ctx[j] = "live"
    /\ ctx' = [ctx EXCEPT ![j] = "expired"]
    /\ UNCHANGED <<registryVars, starter, run, fetchVars, fileVars, issued, crashes>>

-----------------------------------------------------------------------------
(* runDownload.                                                            *)

To(j, stage) == run' = [run EXCEPT ![j] = stage]

\* MkdirAll and CreateTemp, either of which may fail.
Stage(j) ==
    /\ run[j] = "stage"
    /\ \/ To(j, "fetch") /\ parts' = parts \cup {j}
       \/ To(j, "err") /\ UNCHANGED parts
    /\ UNCHANGED <<registryVars, starter, ctx, fetchVars, target, issued, crashes>>

\* client.Do: a response, or an error, a bad status or a refused redirect.
\* There is no response once the context is done.
Fetch(j) ==
    /\ run[j] = "fetch"
    /\ \/ /\ ctx[j] = "live"
          /\ To(j, "copy")
          /\ \E n \in 0..(MaxBytes + 2) : body' = [body EXCEPT ![j] = n]
       \/ To(j, "remove") /\ UNCHANGED body
    /\ UNCHANGED <<registryVars, starter, ctx, copied, fileVars, issued, crashes>>

\* Mutant: the copy ends at the cap, and an oversize body is cut off.
ReadLimitAtCap == MaxBytes

\* Where the LimitReader ends: one byte past the cap shows an oversize body.
ReadLimit == MaxBytes + 1

\* io.Copy reads a byte, reaches the end of the body or of the limit, or
\* fails.  What was buffered can still be read once the context is done.
Copy(j) ==
    /\ run[j] = "copy"
    /\ \/ /\ copied[j] < ReadLimit /\ copied[j] < body[j]
          /\ copied' = [copied EXCEPT ![j] = @ + 1]
          /\ UNCHANGED run
       \/ /\ copied[j] = ReadLimit \/ copied[j] = body[j]
          /\ To(j, "close") /\ UNCHANGED copied
       \/ To(j, "remove") /\ UNCHANGED copied
    /\ UNCHANGED <<registryVars, starter, ctx, body, fileVars, issued, crashes>>

Oversize(j) == copied[j] > MaxBytes

\* Close, which may fail, and the check of the cap.
CloseFile(j) ==
    /\ run[j] = "close"
    /\ \/ ~Oversize(j) /\ To(j, "rename")
       \/ To(j, "remove")
    /\ UNCHANGED <<registryVars, starter, ctx, fetchVars, fileVars, issued, crashes>>

\* The point of no return.  The context is not looked at again.
Rename(j) ==
    /\ run[j] = "rename"
    /\ \/ /\ To(j, "ok")
          /\ parts' = parts \ {j}
          /\ target' = [target EXCEPT ![PathOf[j]] = [job |-> j, bytes |-> copied[j]]]
       \/ To(j, "remove") /\ UNCHANGED fileVars
    /\ UNCHANGED <<registryVars, starter, ctx, fetchVars, issued, crashes>>

\* Mutant: a failed download leaves its .part file.
RemoveNever(j) ==
    /\ run[j] = "remove"
    /\ To(j, "err")
    /\ UNCHANGED <<registryVars, starter, ctx, fetchVars, fileVars, issued, crashes>>

\* The deferred os.Remove of a download that was not renamed.
RemovePart(j) ==
    /\ run[j] = "remove"
    /\ To(j, "err")
    /\ parts' = parts \ {j}
    /\ UNCHANGED <<registryVars, starter, ctx, fetchVars, target, issued, crashes>>

-----------------------------------------------------------------------------
\* The process ends, by a crash or by a shutdown, which does not join the
\* jobs: the registry is gone and the files stay as they are.  Ids are fresh,
\* so that those of the old process are not used again.
Crash ==
    /\ crashes < MaxCrashes
    /\ crashes' = crashes + 1
    /\ jobs' = [j \in Ids |-> "absent"]
    /\ finished' = <<>>
    /\ cancels' = {}
    /\ starter' = [j \in Ids |-> IF starter[j] = "idle" THEN "idle" ELSE "returned"]
    /\ run' = [j \in Ids |-> IF run[j] = "none" THEN "none" ELSE "over"]
    /\ UNCHANGED <<ctx, fetchVars, fileVars, issued>>

Goroutine(j) ==
    Stage(j) \/ Fetch(j) \/ Copy(j) \/ CloseFile(j) \/ Rename(j) \/ RemovePart(j) \/ Settle(j)

Next ==
    \/ \E j \in Ids :
        \/ Register(j) \/ Launch(j) \/ StoreCancel(j)
        \/ Cancel(j) \/ Expire(j)
        \/ Goroutine(j)
    \/ Crash

Spec == Init /\ [][Next]_vars

\* Start returns, the deadline fires, and a goroutine whose context is done
\* goes on.  Before that it may wait for the server as long as it likes.
FairSpec ==
    /\ Spec
    /\ \A j \in Ids :
        /\ WF_vars(Launch(j))
        /\ WF_vars(Expire(j))
        /\ WF_vars(ctx[j] # "live" /\ Goroutine(j))

-----------------------------------------------------------------------------
(* Properties.                                                             *)

\* What a job reports is what happened to the files: a job that is done has
\* replaced its destination, one that failed or was cancelled never did and
\* has taken its .part file with it, whatever the cancel raced with.
OutcomeMatchesFiles ==
    \A p \in Paths, j \in Ids :
        /\ target[p].job = j => PathOf[j] = p /\ jobs[j] \notin {"error", "cancelled"}
        /\ jobs[j] = "done" => target[PathOf[j]].job # NoJob
        /\ jobs[j] \in Ended => j \notin parts

\* The file at a destination is the whole body of one response within the
\* cap: no failure, cancellation or crash leaves a part of one there.
NoPartialTarget ==
    \A p \in Paths :
        target[p].job # NoJob =>
            target[p].bytes <= MaxBytes /\ target[p].bytes = body[target[p].job]

\* A cancellation that was issued in time is not reported as a failure: the
\* job is cancelled, or was past the point where it could be.
CancelIsHonoured == \A j \in issued : jobs[j] # "error"

\* Within a process only an ended job leaves the registry, and only for
\* MaxFinished jobs that ended after it.
RetentionKeepsNewest ==
    [][crashes' = crashes =>
        \A j \in Ids :
            (jobs[j] # "absent" /\ jobs'[j] = "absent") =>
                /\ jobs[j] \in Ended
                /\ Len(finished') = MaxFinished]_vars

\* A job that was started ends, even if the server it fetches from stalls.
JobsEnd == \A j \in Ids : jobs[j] = "running" ~> jobs[j] # "running"

=============================================================================
