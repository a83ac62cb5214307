--------------------------- MODULE DetachedProofs ---------------------------
(***************************************************************************)
(* Proofs about what runs detached from the request that started it.       *)
(*                                                                         *)
(* Background jobs, for any number of jobs, destinations and crashes and   *)
(* any cap: type correctness, outcomes that match the files, no partial    *)
(* file at a destination, cancellations that are honoured and a registry   *)
(* that only forgets the oldest ended jobs.                                *)
(*                                                                         *)
(* Asynchronous answers, for any requests, trace ids, streams, capacities  *)
(* and deadlines shorter than the time to live: type correctness, answers  *)
(* that stay for their time, and a stop that loses no run.                 *)
(***************************************************************************)
EXTENDS Jobs, Serve, FiniteSetTheorems, TLAPS

-----------------------------------------------------------------------------
(* Background jobs: the inductive invariant.                               *)

\* The stages in which a goroutine has work to do or a result to report.
Active == {"stage", "fetch", "copy", "close", "rename", "remove", "ok", "err"}

\* How far Start, the goroutine and the registry's entry can be of each other.
StageInv ==
    \A j \in Ids :
        /\ starter[j] \in {"idle", "registered"} => run[j] = "none"
        /\ starter[j] = "idle" => jobs[j] = "absent"
        /\ starter[j] = "registered" => jobs[j] = "running"
        /\ run[j] \in Active => jobs[j] = "running"
        /\ jobs[j] \in Ended => run[j] = "over"

\* The list of finished jobs names each of them once.
ListInv == \A m, n \in 1..Len(finished) : finished[m] = finished[n] => m = n

\* Where the goroutine's files are at each stage.
FileInv ==
    /\ \A j \in parts : run[j] \notin {"none", "stage", "ok", "err"}
    /\ \A j \in Ids :
        /\ run[j] = "close" => copied[j] = MaxBytes + 1 \/ copied[j] = body[j]
        /\ run[j] = "rename" => copied[j] = body[j] /\ copied[j] <= MaxBytes
        /\ run[j] = "ok" => target[PathOf[j]].job # NoJob
    /\ \A p \in Paths, j \in Ids : target[p].job = j => run[j] \in {"ok", "over"}

\* A cancellation that was issued is the end of the job's context.
CancelInv == \A j \in issued : ctx[j] = "cancelled"

IInv == /\ TypeOK /\ StageInv /\ ListInv /\ FileInv /\ CancelInv
        /\ OutcomeMatchesFiles /\ NoPartialTarget /\ CancelIsHonoured

-----------------------------------------------------------------------------
(* The list of finished jobs.                                              *)

\* The wrapper's append and evictFinishedLocked: the list keeps its bound and
\* still names each job once, and what leaves it is what is evicted.
LEMMA SettleFacts ==
  ASSUME TypeOK, ListInv, NEW j \in Ids, j \notin ToSet(finished)
  PROVE  LET list == Append(finished, j)
             evicted == ToSet(SubSeq(list, 1, Surplus(list)))
             kept == SubSeq(list, Surplus(list) + 1, Len(list))
         IN  /\ kept \in Seq(Ids) /\ Len(kept) <= MaxFinished
             /\ \A m, n \in 1..Len(kept) : kept[m] = kept[n] => m = n
             /\ ToSet(kept) = (ToSet(finished) \cup {j}) \ evicted
             /\ evicted \subseteq ToSet(finished)
             /\ evicted # {} => Len(kept) = MaxFinished
<1>. DEFINE list == Append(finished, j)
            k == Surplus(list)
            L == Len(finished)
            gone == SubSeq(list, 1, k)
            kept == SubSeq(list, k + 1, Len(list))
<1>1. /\ finished \in Seq(Ids) /\ L \in Nat /\ L <= MaxFinished
      /\ MaxFinished \in Nat \ {0}
  BY BoundsAssumption DEF TypeOK
<1>2. /\ list \in Seq(Ids) /\ Len(list) = L + 1
      /\ list[L + 1] = j /\ \A m \in 1..L : list[m] = finished[m]
  BY <1>1
<1>3. k \in {0, 1} /\ k <= L /\ (k = 1 => L = MaxFinished) /\ (k = 0 => L < MaxFinished)
  BY <1>1, <1>2 DEF Surplus
<1>. HIDE DEF list, k
<1>4. /\ gone \in Seq(Ids) /\ Len(gone) = k
      /\ \A m \in 1..k : gone[m] = list[m]
  BY <1>1, <1>2, <1>3
<1>5. /\ kept \in Seq(Ids) /\ Len(kept) = L + 1 - k
      /\ \A m \in 1..(L + 1 - k) : kept[m] = list[m + k]
  BY <1>1, <1>2, <1>3
<1>. HIDE DEF gone, kept, L
<1>6. /\ \A m \in 1..L : finished[m] # j
      /\ \A m, n \in 1..L : finished[m] = finished[n] => m = n
      /\ ToSet(finished) = {finished[m] : m \in 1..L}
  BY <1>1 DEF ToSet, ListInv, L
<1>7. ASSUME NEW m \in 1..(L + 1), NEW n \in 1..(L + 1), list[m] = list[n]
      PROVE  m = n
  <2>1. m \in 1..L \/ m = L + 1
    BY <1>1
  <2>2. n \in 1..L \/ n = L + 1
    BY <1>1
  <2>. QED
    BY <1>2, <1>6, <1>7, <2>1, <2>2
<1>8. ToSet(gone) = {list[m] : m \in 1..k} /\ ToSet(kept) = {list[m + k] : m \in 1..(L + 1 - k)}
  <2>1. DOMAIN gone = 1..k /\ DOMAIN kept = 1..(L + 1 - k)
    BY <1>1, <1>3, <1>4, <1>5
  <2>2. /\ ToSet(gone) = {gone[m] : m \in 1..k}
        /\ ToSet(kept) = {kept[m] : m \in 1..(L + 1 - k)}
    BY <2>1 DEF ToSet
  <2>3. {gone[m] : m \in 1..k} = {list[m] : m \in 1..k}
    BY <1>4
  <2>4. {kept[m] : m \in 1..(L + 1 - k)} = {list[m + k] : m \in 1..(L + 1 - k)}
    BY <1>5
  <2>. QED
    BY <2>2, <2>3, <2>4
<1>9. ToSet(finished) \cup {j} = {list[m] : m \in 1..(L + 1)}
  <2>1. ASSUME NEW x \in {list[m] : m \in 1..(L + 1)}
        PROVE  x \in ToSet(finished) \cup {j}
    <3>1. PICK m \in 1..(L + 1) : x = list[m]
      OBVIOUS
    <3>2. m \in 1..L \/ m = L + 1
      BY <1>1
    <3>. QED
      BY <1>2, <1>6, <3>1, <3>2
  <2>2. 1..L \subseteq 1..(L + 1) /\ L + 1 \in 1..(L + 1)
    BY <1>1
  <2>. QED
    BY <1>2, <1>6, <2>1, <2>2
<1>10. ASSUME NEW m \in 1..(L + 1 - k), NEW n \in 1..(L + 1 - k), kept[m] = kept[n]
       PROVE  m = n
  <2>1. m + k \in 1..(L + 1) /\ n + k \in 1..(L + 1)
    BY <1>1, <1>3
  <2>2. m + k = n + k
    BY <1>5, <1>7, <1>10, <2>1
  <2>. QED
    BY <1>1, <1>3, <2>2
<1>11. ToSet(kept) = (ToSet(finished) \cup {j}) \ ToSet(gone)
  <2>1. ASSUME NEW m \in 1..(L + 1 - k)
        PROVE  list[m + k] \in {list[n] : n \in 1..(L + 1)} \ {list[n] : n \in 1..k}
    <3>1. m + k \in 1..(L + 1) /\ m + k \notin 1..k
      BY <1>1, <1>3
    <3>2. 1..k \subseteq 1..(L + 1)
      BY <1>1, <1>3
    <3>. QED
      BY <1>7, <3>1, <3>2
  <2>2. ASSUME NEW n \in 1..(L + 1), n \notin 1..k
        PROVE  list[n] \in {list[m + k] : m \in 1..(L + 1 - k)}
    <3>1. n - k \in 1..(L + 1 - k) /\ (n - k) + k = n
      BY <1>1, <1>3, <2>2
    <3>. QED
      BY <3>1
  <2>. QED
    BY <1>8, <1>9, <2>1, <2>2
<1>12. ToSet(gone) \subseteq ToSet(finished)
  <2>1. \A m \in 1..k : m \in 1..L
    BY <1>1, <1>3
  <2>. QED
    BY <1>2, <1>6, <1>8, <2>1
<1>13. ToSet(gone) # {} => Len(kept) = MaxFinished
  <2>1. k = 0 => ToSet(gone) = {}
    BY <1>8
  <2>. QED
    BY <1>1, <1>3, <1>5, <2>1
<1>14. Len(kept) <= MaxFinished
  BY <1>1, <1>3, <1>5
<1>. QED
  BY <1>5, <1>10, <1>11, <1>12, <1>13, <1>14 DEF list, k, gone, kept, L

-----------------------------------------------------------------------------
(* Type correctness.                                                       *)

\* The record that a download leaves at a path.
FileType == [job : Ids \cup {NoJob}, bytes : 0..(MaxBytes + 1)]

\* Start, Cancel and the deadline.
LEMMA CallTypes ==
  ASSUME IInv, NEW j \in Ids, Register(j) \/ Launch(j) \/ StoreCancel(j) \/ Cancel(j) \/ Expire(j)
  PROVE  TypeOK'
<1>1. TypeOK /\ StageInv
  BY DEF IInv
<1>2. CASE Register(j)
  <2>1. jobs' \in [Ids -> {"absent", "running"} \cup Ended] /\ jobs[j] = "absent"
    BY <1>1, <1>2 DEF Register, TypeOK, StageInv
  <2>2. starter' \in [Ids -> {"idle", "registered", "launched", "returned"}]
    BY <1>1, <1>2 DEF Register, TypeOK
  <2>3. cancels' \subseteq {i \in Ids : jobs'[i] = "running"}
    BY <1>1, <1>2 DEF Register, TypeOK
  <2>4. {i \in Ids : jobs'[i] \in Ended} = {i \in Ids : jobs[i] \in Ended}
    BY <1>1, <1>2, <2>1 DEF Register, TypeOK, Ended
  <2>. QED
    BY <1>1, <1>2, <2>1, <2>2, <2>3, <2>4 DEF Register, TypeOK, fetchVars, fileVars
<1>3. CASE Launch(j)
  <2>1. /\ starter' \in [Ids -> {"idle", "registered", "launched", "returned"}]
        /\ run' \in [Ids -> Stages]
    BY <1>1, <1>3 DEF Launch, TypeOK, Stages
  <2>. QED
    BY <1>1, <1>3, <2>1 DEF Launch, TypeOK, registryVars, fetchVars, fileVars
<1>4. CASE StoreCancel(j)
  <2>1. /\ starter' \in [Ids -> {"idle", "registered", "launched", "returned"}]
        /\ cancels' \subseteq {i \in Ids : jobs[i] = "running"}
    BY <1>1, <1>4 DEF StoreCancel, StillRunning, TypeOK
  <2>. QED
    BY <1>1, <1>4, <2>1 DEF StoreCancel, TypeOK, fetchVars, fileVars
<1>5. CASE Cancel(j)
  <2>1. ctx' \in [Ids -> {"live", "expired", "cancelled"}] /\ issued' \subseteq Ids
    BY <1>1, <1>5 DEF Cancel, TypeOK
  <2>. QED
    BY <1>1, <1>5, <2>1 DEF Cancel, TypeOK, registryVars, fetchVars, fileVars
<1>6. CASE Expire(j)
  <2>1. ctx' \in [Ids -> {"live", "expired", "cancelled"}]
    BY <1>1, <1>6 DEF Expire, TypeOK
  <2>. QED
    BY <1>1, <1>6, <2>1 DEF Expire, TypeOK, registryVars, fetchVars, fileVars
<1>. QED
  BY <1>2, <1>3, <1>4, <1>5, <1>6

\* The steps of a download.
LEMMA DownloadTypes ==
  ASSUME TypeOK, NEW j \in Ids,
         Stage(j) \/ Fetch(j) \/ Copy(j) \/ CloseFile(j) \/ Rename(j) \/ RemovePart(j)
  PROVE  TypeOK'
<1>1. run' \in [Ids -> Stages]
  <2>1. run' = run \/ \E s \in Stages : run' = [run EXCEPT ![j] = s]
    <3>1. {"fetch", "copy", "close", "rename", "remove", "ok", "err"} \subseteq Stages
      BY DEF Stages
    <3>2. \/ run' = run
          \/ \E s \in {"fetch", "copy", "close", "rename", "remove", "ok", "err"} : To(j, s)
      BY DEF Stage, Fetch, Copy, CloseFile, Rename, RemovePart
    <3>. QED
      BY <3>1, <3>2 DEF To
  <2>. QED
    BY <2>1 DEF TypeOK
<1>2. UNCHANGED <<registryVars, starter, ctx, issued, crashes>>
  BY DEF Stage, Fetch, Copy, CloseFile, Rename, RemovePart
<1>3. body' \in [Ids -> 0..(MaxBytes + 2)]
  BY DEF TypeOK, Stage, Fetch, Copy, CloseFile, Rename, RemovePart, fetchVars
<1>4. copied' \in [Ids -> 0..(MaxBytes + 1)]
  <2>1. CASE copied' = [copied EXCEPT ![j] = @ + 1] /\ copied[j] < ReadLimit
    <3>1. copied[j] + 1 \in 0..(MaxBytes + 1)
      BY <2>1, BoundsAssumption DEF TypeOK, ReadLimit
    <3>. QED
      BY <2>1, <3>1 DEF TypeOK
  <2>2. CASE copied' = copied
    BY <2>2 DEF TypeOK
  <2>. QED
    BY <2>1, <2>2 DEF Stage, Fetch, Copy, CloseFile, Rename, RemovePart, fetchVars
<1>5. parts' \subseteq Ids
  BY DEF TypeOK, Stage, Fetch, Copy, CloseFile, Rename, RemovePart, fileVars
<1>6. target' \in [Paths -> FileType]
  <2>1. target \in [Paths -> FileType]
    BY DEF TypeOK, FileType
  <2>2. CASE target' = [target EXCEPT ![PathOf[j]] = [job |-> j, bytes |-> copied[j]]]
    <3>1. [job |-> j, bytes |-> copied[j]] \in FileType
      BY DEF FileType, TypeOK
    <3>. QED
      BY <2>1, <2>2, <3>1
  <2>3. CASE target' = target
    BY <2>1, <2>3
  <2>. QED
    BY <2>2, <2>3 DEF Stage, Fetch, Copy, CloseFile, Rename, RemovePart, fileVars
<1>. QED
  BY <1>1, <1>2, <1>3, <1>4, <1>5, <1>6 DEF TypeOK, registryVars, FileType

\* What Settle does to the registry.
LEMMA SettleStep ==
  ASSUME IInv, NEW j \in Ids, Settle(j)
  PROVE  /\ jobs[j] = "running" /\ run[j] \in {"ok", "err"}
         /\ run' = [run EXCEPT ![j] = "over"]
         /\ Outcome(j) \in Ended
         /\ \E evicted \in SUBSET (ToSet(finished) \cup {j}) :
               /\ jobs' = [i \in Ids |-> IF i \in evicted THEN "absent"
                                         ELSE IF i = j THEN Outcome(j) ELSE jobs[i]]
               /\ ToSet(finished') = (ToSet(finished) \cup {j}) \ evicted
               /\ j \notin evicted
               /\ evicted # {} => Len(finished') = MaxFinished
         /\ finished' \in Seq(Ids) /\ Len(finished') <= MaxFinished
         /\ ListInv'
         /\ cancels' = cancels \ {j}
         /\ UNCHANGED <<starter, ctx, fetchVars, fileVars, issued, crashes>>
<1>1. TypeOK /\ StageInv /\ ListInv
  BY DEF IInv
<1>2. run[j] \in {"ok", "err"} /\ jobs[j] = "running"
  BY <1>1 DEF Settle, StageInv, Active
<1>3. j \notin ToSet(finished)
  BY <1>1, <1>2 DEF TypeOK, Ended
<1>. DEFINE list == Append(finished, j)
            evicted == ToSet(SubSeq(list, 1, Surplus(list)))
            kept == SubSeq(list, Surplus(list) + 1, Len(list))
<1>4. /\ jobs' = [i \in Ids |-> IF i \in evicted THEN "absent"
                                ELSE IF i = j THEN Outcome(j) ELSE jobs[i]]
      /\ finished' = kept
      /\ run' = [run EXCEPT ![j] = "over"]
      /\ cancels' = cancels \ {j}
      /\ UNCHANGED <<starter, ctx, fetchVars, fileVars, issued, crashes>>
  BY DEF Settle
<1>5. /\ kept \in Seq(Ids) /\ Len(kept) <= MaxFinished
      /\ \A m, n \in 1..Len(kept) : kept[m] = kept[n] => m = n
      /\ ToSet(kept) = (ToSet(finished) \cup {j}) \ evicted
      /\ evicted \subseteq ToSet(finished)
      /\ evicted # {} => Len(kept) = MaxFinished
  BY <1>1, <1>3, SettleFacts
<1>. HIDE DEF evicted, kept, list
<1>6. j \notin evicted /\ evicted \in SUBSET (ToSet(finished) \cup {j})
  BY <1>3, <1>5
<1>7. Outcome(j) \in Ended
  BY DEF Outcome, Ended
<1>8. ListInv'
  BY <1>4, <1>5 DEF ListInv
<1>. QED
  BY <1>2, <1>4, <1>5, <1>6, <1>7, <1>8

\* The end of a job and the end of the process.
LEMMA EndTypes ==
  ASSUME IInv, Crash \/ \E j \in Ids : Settle(j)
  PROVE  TypeOK'
<1>1. TypeOK
  BY DEF IInv
<1>2. CASE Crash
  <2>1. /\ jobs' \in [Ids -> {"absent", "running"} \cup Ended]
        /\ {i \in Ids : jobs'[i] \in Ended} = {}
    BY <1>2 DEF Crash, Ended
  <2>2. finished' \in Seq(Ids) /\ Len(finished') <= MaxFinished /\ ToSet(finished') = {}
    BY <1>2, BoundsAssumption DEF Crash, ToSet
  <2>3. /\ starter' \in [Ids -> {"idle", "registered", "launched", "returned"}]
        /\ run' \in [Ids -> Stages]
        /\ cancels' = {} /\ crashes' \in 0..MaxCrashes
    BY <1>1, <1>2, BoundsAssumption DEF Crash, TypeOK, Stages
  <2>. QED
    BY <1>1, <1>2, <2>1, <2>2, <2>3 DEF Crash, TypeOK, fetchVars, fileVars
<1>3. ASSUME NEW j \in Ids, Settle(j)
      PROVE  TypeOK'
  <2>1. PICK evicted \in SUBSET (ToSet(finished) \cup {j}) :
               /\ jobs' = [i \in Ids |-> IF i \in evicted THEN "absent"
                                         ELSE IF i = j THEN Outcome(j) ELSE jobs[i]]
               /\ ToSet(finished') = (ToSet(finished) \cup {j}) \ evicted
               /\ j \notin evicted
    BY <1>3, SettleStep
  <2>2. /\ jobs[j] = "running" /\ Outcome(j) \in Ended
        /\ finished' \in Seq(Ids) /\ Len(finished') <= MaxFinished
        /\ cancels' = cancels \ {j}
        /\ run' = [run EXCEPT ![j] = "over"]
        /\ UNCHANGED <<starter, ctx, fetchVars, fileVars, issued, crashes>>
    BY <1>3, SettleStep
  <2>3. ToSet(finished) = {i \in Ids : jobs[i] \in Ended}
    BY <1>1 DEF TypeOK
  <2>4. jobs' \in [Ids -> {"absent", "running"} \cup Ended]
    BY <1>1, <2>1, <2>2 DEF TypeOK
  <2>5. ToSet(finished') = {i \in Ids : jobs'[i] \in Ended}
    <3>1. \A i \in Ids : jobs'[i] \in Ended <=> (i \notin evicted /\ (i = j \/ jobs[i] \in Ended))
      BY <2>1, <2>2 DEF Ended
    <3>2. \A i \in ToSet(finished') : i \in Ids
      BY <2>1, <2>3
    <3>. QED
      BY <2>1, <2>3, <3>1, <3>2
  <2>6. cancels' \subseteq {i \in Ids : jobs'[i] = "running"}
    <3>1. ASSUME NEW i \in cancels, i # j
          PROVE  i \in Ids /\ jobs'[i] = "running"
      <4>1. i \in Ids /\ jobs[i] = "running"
        BY <1>1 DEF TypeOK
      <4>2. i \notin evicted
        BY <2>1, <2>3, <3>1, <4>1 DEF Ended
      <4>. QED
        BY <2>1, <3>1, <4>1, <4>2
    <3>. QED
      BY <2>2, <3>1
  <2>7. run' \in [Ids -> Stages]
    BY <1>1, <2>2 DEF TypeOK, Stages
  <2>. QED
    BY <1>1, <2>2, <2>4, <2>5, <2>6, <2>7 DEF TypeOK, fetchVars, fileVars
<1>. QED
  BY <1>2, <1>3

-----------------------------------------------------------------------------
(* The actions keep the invariant.                                         *)

\* What speaks of files, outcomes and cancellations.
Safe == FileInv /\ CancelInv /\ OutcomeMatchesFiles /\ NoPartialTarget /\ CancelIsHonoured

\* Start, Cancel and the deadline touch no file.
LEMMA CallKeeps ==
  ASSUME IInv, NEW j \in Ids, Register(j) \/ Launch(j) \/ StoreCancel(j) \/ Cancel(j) \/ Expire(j)
  PROVE  StageInv' /\ ListInv' /\ Safe'
<1>1. TypeOK /\ StageInv /\ ListInv /\ Safe
  BY DEF IInv, Safe
<1>2. UNCHANGED <<finished, body, copied, parts, target>>
  BY DEF Register, Launch, StoreCancel, Cancel, Expire, registryVars, fetchVars, fileVars
<1>3. ListInv'
  BY <1>1, <1>2 DEF ListInv
<1>4. CASE Register(j)
  <2>1. /\ jobs[j] = "absent" /\ starter[j] = "idle" /\ run[j] = "none"
        /\ jobs' = [jobs EXCEPT ![j] = "running"]
        /\ starter' = [starter EXCEPT ![j] = "registered"]
        /\ UNCHANGED <<run, ctx, issued>>
    BY <1>1, <1>4 DEF Register, StageInv
  <2>2. StageInv'
    BY <1>1, <2>1 DEF StageInv, TypeOK, Active, Ended
  <2>3. FileInv' /\ CancelInv' /\ NoPartialTarget'
    BY <1>1, <1>2, <2>1 DEF Safe, FileInv, CancelInv, NoPartialTarget
  <2>4. OutcomeMatchesFiles' /\ CancelIsHonoured'
    BY <1>1, <1>2, <2>1 DEF Safe, OutcomeMatchesFiles, CancelIsHonoured, TypeOK, Ended
  <2>. QED
    BY <1>3, <2>2, <2>3, <2>4 DEF Safe
<1>5. CASE Launch(j)
  <2>1. /\ starter[j] = "registered" /\ run[j] = "none" /\ jobs[j] = "running"
        /\ run' = [run EXCEPT ![j] = "stage"]
        /\ starter' = [starter EXCEPT ![j] = "launched"]
        /\ UNCHANGED <<jobs, ctx, issued>>
    BY <1>1, <1>5 DEF Launch, StageInv, registryVars
  <2>2. StageInv'
    BY <1>1, <2>1 DEF StageInv, TypeOK, Active, Ended
  <2>3. CancelInv' /\ NoPartialTarget' /\ OutcomeMatchesFiles' /\ CancelIsHonoured'
    BY <1>1, <1>2, <2>1 DEF Safe, CancelInv, NoPartialTarget, OutcomeMatchesFiles, CancelIsHonoured
  <2>4. FileInv'
    BY <1>1, <1>2, <2>1 DEF Safe, FileInv, TypeOK
  <2>. QED
    BY <1>3, <2>2, <2>3, <2>4 DEF Safe
<1>6. CASE StoreCancel(j)
  <2>1. /\ starter[j] = "launched" /\ starter' = [starter EXCEPT ![j] = "returned"]
        /\ UNCHANGED <<jobs, run, ctx, issued>>
    BY <1>6 DEF StoreCancel
  <2>2. StageInv'
    BY <1>1, <2>1 DEF StageInv, TypeOK
  <2>3. Safe'
    BY <1>1, <1>2, <2>1
    DEF Safe, FileInv, CancelInv, NoPartialTarget, OutcomeMatchesFiles, CancelIsHonoured
  <2>. QED
    BY <1>3, <2>2, <2>3
<1>7. CASE Cancel(j) \/ Expire(j)
  <2>1. /\ UNCHANGED <<jobs, run, starter>>
        /\ \/ UNCHANGED <<ctx, issued>>
           \/ /\ ctx' = [ctx EXCEPT ![j] = "cancelled"] /\ issued' = issued \cup {j}
              /\ jobs[j] = "running"
           \/ /\ ctx[j] = "live" /\ ctx' = [ctx EXCEPT ![j] = "expired"] /\ issued' = issued
    BY <1>7 DEF Cancel, Expire, registryVars
  <2>2. StageInv'
    BY <1>1, <2>1 DEF StageInv
  <2>3. FileInv' /\ NoPartialTarget' /\ OutcomeMatchesFiles'
    BY <1>1, <1>2, <2>1 DEF Safe, FileInv, NoPartialTarget, OutcomeMatchesFiles
  <2>4. CancelInv' /\ CancelIsHonoured'
    BY <1>1, <2>1 DEF Safe, CancelInv, CancelIsHonoured, TypeOK
  <2>. QED
    BY <1>3, <2>2, <2>3, <2>4 DEF Safe
<1>. QED
  BY <1>4, <1>5, <1>6, <1>7

\* A download that goes from one stage to another while the job runs.
LEMMA DownloadStages ==
  ASSUME IInv, NEW j \in Ids, run[j] \in Active, NEW s \in Active, run' = [run EXCEPT ![j] = s],
         UNCHANGED <<registryVars, starter, ctx, issued>>
  PROVE  /\ StageInv' /\ ListInv' /\ CancelInv' /\ CancelIsHonoured'
         /\ jobs[j] = "running" /\ run'[j] = s
         /\ \A i \in Ids : i # j => run'[i] = run[i]
<1>1. TypeOK /\ StageInv /\ ListInv /\ CancelInv /\ CancelIsHonoured
  BY DEF IInv
<1>2. jobs[j] = "running" /\ run'[j] = s /\ \A i \in Ids : i # j => run'[i] = run[i]
  BY <1>1 DEF StageInv, TypeOK
<1>3. s \notin {"none", "over"} /\ run[j] \notin {"none", "over"}
  BY DEF Active
<1>4. StageInv'
  BY <1>1, <1>2, <1>3 DEF StageInv, registryVars
<1>5. ListInv' /\ CancelInv' /\ CancelIsHonoured'
  BY <1>1 DEF ListInv, CancelInv, CancelIsHonoured, registryVars
<1>. QED
  BY <1>2, <1>4, <1>5

\* Staging, the response and the copy.
LEMMA FetchKeeps ==
  ASSUME IInv, NEW j \in Ids, Stage(j) \/ Fetch(j) \/ Copy(j) \/ CloseFile(j)
  PROVE  StageInv' /\ ListInv' /\ Safe'
<1>1. TypeOK /\ Safe
  BY DEF IInv, Safe
<1>2. /\ UNCHANGED <<registryVars, starter, ctx, issued, target>>
      /\ run[j] \in {"stage", "fetch", "copy", "close"}
  BY DEF Stage, Fetch, Copy, CloseFile, fileVars
<1>3. run' = run \/ \E s \in {"fetch", "copy", "close", "rename", "remove", "err"} : To(j, s)
  BY DEF Stage, Fetch, Copy, CloseFile
<1>4. PICK s \in {"stage", "fetch", "copy", "close", "rename", "remove", "err"} :
         run' = [run EXCEPT ![j] = s]
  <2>1. CASE run' = run
    BY <1>1, <1>2, <2>1 DEF TypeOK
  <2>2. CASE run' # run
    BY <1>3, <2>2 DEF To
  <2>. QED
    BY <2>1, <2>2
<1>5. /\ StageInv' /\ ListInv' /\ CancelInv' /\ CancelIsHonoured'
      /\ jobs[j] = "running" /\ run'[j] = s
      /\ \A i \in Ids : i # j => run'[i] = run[i]
  BY <1>2, <1>4, DownloadStages DEF Active
<1>6. \A p \in Paths : target[p].job # j
  BY <1>1, <1>2 DEF Safe, FileInv
<1>7. /\ parts' = parts \/ (parts' = parts \cup {j} /\ s = "fetch")
      /\ run[j] = "stage" => s \in {"fetch", "err"} /\ (s = "err" => parts' = parts)
      /\ run[j] # "stage" => parts' = parts /\ s \notin {"stage", "err"}
  BY <1>1, <1>2, <1>4, <1>5 DEF Stage, Fetch, Copy, CloseFile, fileVars, To, TypeOK
<1>8. \A i \in Ids : i # j => body'[i] = body[i] /\ copied'[i] = copied[i]
  BY <1>1 DEF Stage, Fetch, Copy, CloseFile, fetchVars, TypeOK
<1>9. /\ s = "close" => copied'[j] = MaxBytes + 1 \/ copied'[j] = body'[j]
      /\ s = "rename" => copied'[j] = body'[j] /\ copied'[j] <= MaxBytes
  <2>1. CASE run[j] = "copy"
    BY <1>1, <1>5, <2>1 DEF Stage, Fetch, Copy, CloseFile, To, TypeOK, ReadLimit
  <2>2. CASE run[j] = "close"
    <3>1. UNCHANGED <<body, copied>> /\ (s = "rename" => ~Oversize(j)) /\ s # "close"
      BY <1>1, <1>5, <2>2 DEF Stage, Fetch, Copy, CloseFile, To, TypeOK, fetchVars
    <3>2. copied[j] = MaxBytes + 1 \/ copied[j] = body[j]
      BY <1>1, <2>2 DEF Safe, FileInv
    <3>3. copied[j] \in Nat
      BY <1>1 DEF TypeOK
    <3>. QED
      BY <3>1, <3>2, <3>3, BoundsAssumption DEF Oversize
  <2>3. CASE run[j] \in {"stage", "fetch"}
    BY <1>1, <1>5, <2>3 DEF Stage, Fetch, Copy, CloseFile, To, TypeOK
  <2>. QED
    BY <1>2, <2>1, <2>2, <2>3
<1>10. FileInv'
  <2>1. ASSUME NEW i \in parts'
        PROVE  run'[i] \notin {"none", "stage", "ok", "err"}
    <3>1. CASE i = j
      <4>1. j \in parts => run[j] # "stage"
        BY <1>1 DEF Safe, FileInv
      <4>. QED
        BY <1>2, <1>5, <1>7, <2>1, <3>1, <4>1
    <3>2. CASE i # j
      <4>1. i \in parts /\ i \in Ids
        BY <1>1, <1>7, <2>1, <3>2 DEF TypeOK
      <4>. QED
        BY <1>1, <1>5, <3>2, <4>1 DEF Safe, FileInv
    <3>. QED
      BY <3>1, <3>2
  <2>2. ASSUME NEW i \in Ids
        PROVE  /\ run'[i] = "close" => copied'[i] = MaxBytes + 1 \/ copied'[i] = body'[i]
               /\ run'[i] = "rename" => copied'[i] = body'[i] /\ copied'[i] <= MaxBytes
               /\ run'[i] = "ok" => target'[PathOf[i]].job # NoJob
    BY <1>1, <1>2, <1>5, <1>8, <1>9 DEF Safe, FileInv
  <2>3. ASSUME NEW p \in Paths, NEW i \in Ids, target'[p].job = i
        PROVE  run'[i] \in {"ok", "over"}
    BY <1>1, <1>2, <1>5, <1>6, <2>3 DEF Safe, FileInv
  <2>. QED
    BY <2>1, <2>2, <2>3 DEF FileInv
<1>11. OutcomeMatchesFiles'
  <2>1. jobs' = jobs /\ target' = target /\ jobs[j] \notin Ended
    BY <1>2, <1>5 DEF registryVars, Ended
  <2>2. \A i \in Ids : i # j => (i \in parts' <=> i \in parts)
    BY <1>7
  <2>. QED
    BY <1>1, <2>1, <2>2 DEF Safe, OutcomeMatchesFiles
<1>12. NoPartialTarget'
  <2>1. ASSUME NEW p \in Paths, target'[p].job # NoJob
        PROVE  target'[p].bytes <= MaxBytes /\ target'[p].bytes = body'[target'[p].job]
    <3>1. target[p].job \in Ids /\ target[p].job # j /\ target' = target
      BY <1>1, <1>2, <1>6, <2>1 DEF TypeOK
    <3>. QED
      BY <1>1, <1>8, <2>1, <3>1 DEF Safe, NoPartialTarget
  <2>. QED
    BY <2>1 DEF NoPartialTarget
<1>. QED
  BY <1>5, <1>10, <1>11, <1>12 DEF Safe

\* The rename puts the whole body in place; a download that fails takes its
\* .part file with it.
LEMMA RenameKeeps ==
  ASSUME IInv, NEW j \in Ids, Rename(j) \/ RemovePart(j)
  PROVE  StageInv' /\ ListInv' /\ Safe'
<1>1. TypeOK /\ Safe
  BY DEF IInv, Safe
<1>2. /\ UNCHANGED <<registryVars, starter, ctx, issued, body, copied>>
      /\ run[j] \in {"rename", "remove"}
  BY DEF Rename, RemovePart, fetchVars
<1>3. PICK s \in {"ok", "remove", "err"} :
         /\ run' = [run EXCEPT ![j] = s]
         /\ s = "ok" => /\ run[j] = "rename" /\ parts' = parts \ {j}
                        /\ target' = [target EXCEPT ![PathOf[j]] = [job |-> j, bytes |-> copied[j]]]
         /\ s = "remove" => parts' = parts /\ target' = target
         /\ s = "err" => parts' = parts \ {j} /\ target' = target
  <2>1. CASE Rename(j)
    BY <2>1 DEF Rename, To, fileVars
  <2>2. CASE RemovePart(j)
    BY <2>2 DEF RemovePart, To
  <2>. QED
    BY <2>1, <2>2
<1>4. /\ StageInv' /\ ListInv' /\ CancelInv' /\ CancelIsHonoured'
      /\ jobs[j] = "running" /\ run'[j] = s
      /\ \A i \in Ids : i # j => run'[i] = run[i]
  BY <1>2, <1>3, DownloadStages DEF Active
<1>5. PathOf[j] \in Paths /\ NoJob \notin Ids /\ jobs' = jobs
  BY <1>2, PathsAssumption DEF registryVars
<1>6. \A p \in Paths : target[p].job # j
  BY <1>1, <1>2 DEF Safe, FileInv
<1>7. \A p \in Paths :
         \/ target'[p] = target[p]
         \/ s = "ok" /\ p = PathOf[j] /\ target'[p] = [job |-> j, bytes |-> copied[j]]
  BY <1>1, <1>3, <1>5 DEF TypeOK
<1>8. s = "ok" => target'[PathOf[j]] = [job |-> j, bytes |-> copied[j]]
  BY <1>1, <1>3, <1>5 DEF TypeOK
<1>9. FileInv'
  <2>1. ASSUME NEW i \in parts'
        PROVE  run'[i] \notin {"none", "stage", "ok", "err"}
    <3>1. i \in parts /\ i \in Ids /\ (i = j => s = "remove")
      BY <1>1, <1>3, <2>1 DEF TypeOK
    <3>. QED
      BY <1>1, <1>4, <3>1 DEF Safe, FileInv
  <2>2. ASSUME NEW i \in Ids
        PROVE  /\ run'[i] = "close" => copied'[i] = MaxBytes + 1 \/ copied'[i] = body'[i]
               /\ run'[i] = "rename" => copied'[i] = body'[i] /\ copied'[i] <= MaxBytes
    BY <1>1, <1>2, <1>4 DEF Safe, FileInv
  <2>3. ASSUME NEW i \in Ids, run'[i] = "ok"
        PROVE  target'[PathOf[i]].job # NoJob
    <3>1. PathOf[i] \in Paths
      BY PathsAssumption
    <3>2. CASE i = j
      BY <1>4, <1>5, <1>8, <2>3, <3>2
    <3>3. CASE i # j
      <4>1. target[PathOf[i]].job # NoJob
        BY <1>1, <1>4, <2>3, <3>3 DEF Safe, FileInv
      <4>. QED
        BY <1>5, <1>7, <3>1, <4>1
    <3>. QED
      BY <3>2, <3>3
  <2>4. ASSUME NEW p \in Paths, NEW i \in Ids, target'[p].job = i
        PROVE  run'[i] \in {"ok", "over"}
    <3>1. CASE target'[p] = target[p]
      BY <1>1, <1>4, <1>6, <2>4, <3>1 DEF Safe, FileInv
    <3>2. CASE s = "ok" /\ target'[p] = [job |-> j, bytes |-> copied[j]]
      BY <1>4, <2>4, <3>2
    <3>. QED
      BY <1>7, <3>1, <3>2
  <2>. QED
    BY <2>1, <2>2, <2>3, <2>4 DEF FileInv
<1>10. OutcomeMatchesFiles'
  <2>1. ASSUME NEW p \in Paths, NEW i \in Ids, target'[p].job = i
        PROVE  PathOf[i] = p /\ jobs'[i] \notin {"error", "cancelled"}
    <3>1. CASE target'[p] = target[p]
      BY <1>1, <1>5, <2>1, <3>1 DEF Safe, OutcomeMatchesFiles
    <3>2. CASE p = PathOf[j] /\ target'[p] = [job |-> j, bytes |-> copied[j]]
      BY <1>4, <1>5, <2>1, <3>2
    <3>. QED
      BY <1>7, <3>1, <3>2
  <2>2. ASSUME NEW i \in Ids, jobs'[i] = "done"
        PROVE  target'[PathOf[i]].job # NoJob
    <3>1. PathOf[i] \in Paths
      BY PathsAssumption
    <3>2. target[PathOf[i]].job # NoJob
      BY <1>1, <1>5, <2>2, <3>1 DEF Safe, OutcomeMatchesFiles
    <3>. QED
      BY <1>5, <1>7, <3>1, <3>2
  <2>3. ASSUME NEW i \in Ids, jobs'[i] \in Ended, NEW p \in Paths
        PROVE  i \notin parts'
    <3>1. i # j
      BY <1>4, <1>5, <2>3 DEF Ended
    <3>2. i \notin parts
      BY <1>1, <1>5, <2>3 DEF Safe, OutcomeMatchesFiles
    <3>. QED
      BY <1>3, <3>1, <3>2
  <2>. QED
    BY <2>1, <2>2, <2>3 DEF OutcomeMatchesFiles
<1>11. NoPartialTarget'
  <2>1. ASSUME NEW p \in Paths, target'[p].job # NoJob
        PROVE  target'[p].bytes <= MaxBytes /\ target'[p].bytes = body'[target'[p].job]
    <3>1. CASE target'[p] = target[p]
      BY <1>1, <1>2, <2>1, <3>1 DEF Safe, NoPartialTarget
    <3>2. CASE s = "ok" /\ target'[p] = [job |-> j, bytes |-> copied[j]]
      <4>1. copied[j] = body[j] /\ copied[j] <= MaxBytes
        BY <1>1, <1>3, <3>2 DEF Safe, FileInv
      <4>. QED
        BY <1>2, <3>2, <4>1
    <3>. QED
      BY <1>7, <3>1, <3>2
  <2>. QED
    BY <2>1 DEF NoPartialTarget
<1>. QED
  BY <1>4, <1>9, <1>10, <1>11 DEF Safe

\* The wrapper reports what happened.
LEMMA SettleKeeps ==
  ASSUME IInv, NEW j \in Ids, Settle(j)
  PROVE  StageInv' /\ ListInv' /\ Safe'
<1>1. TypeOK /\ StageInv /\ Safe
  BY DEF IInv, Safe
<1>2. PICK evicted \in SUBSET (ToSet(finished) \cup {j}) :
         /\ jobs' = [i \in Ids |-> IF i \in evicted THEN "absent"
                                   ELSE IF i = j THEN Outcome(j) ELSE jobs[i]]
         /\ j \notin evicted
  BY SettleStep
<1>3. /\ jobs[j] = "running" /\ run[j] \in {"ok", "err"} /\ Outcome(j) \in Ended
      /\ run' = [run EXCEPT ![j] = "over"]
      /\ ListInv'
      /\ UNCHANGED <<starter, ctx, body, copied, parts, target, issued>>
  BY SettleStep DEF fetchVars, fileVars
<1>4. ToSet(finished) = {i \in Ids : jobs[i] \in Ended}
  BY <1>1 DEF TypeOK
<1>5. /\ run'[j] = "over" /\ jobs'[j] = Outcome(j)
      /\ \A i \in Ids : i # j => /\ run'[i] = run[i]
                                 /\ \/ jobs'[i] = jobs[i]
                                    \/ jobs'[i] = "absent" /\ jobs[i] \in Ended
  BY <1>1, <1>2, <1>3, <1>4 DEF TypeOK
<1>6. StageInv'
  <2>1. starter[j] \notin {"idle", "registered"}
    BY <1>1, <1>3 DEF StageInv
  <2>2. ASSUME NEW i \in Ids
        PROVE  /\ starter'[i] \in {"idle", "registered"} => run'[i] = "none"
               /\ starter'[i] = "idle" => jobs'[i] = "absent"
               /\ starter'[i] = "registered" => jobs'[i] = "running"
               /\ run'[i] \in Active => jobs'[i] = "running"
               /\ jobs'[i] \in Ended => run'[i] = "over"
    <3>1. CASE i = j
      BY <1>3, <1>5, <2>1, <3>1 DEF Active
    <3>2. CASE i # j
      BY <1>1, <1>3, <1>5, <3>2 DEF StageInv, Active, Ended
    <3>. QED
      BY <3>1, <3>2
  <2>. QED
    BY <2>2 DEF StageInv
<1>7. FileInv'
  <2>1. \A i \in parts : i \in Ids /\ i # j
    BY <1>1, <1>3 DEF Safe, FileInv, TypeOK
  <2>. QED
    BY <1>1, <1>3, <1>5, <2>1 DEF Safe, FileInv
<1>8. CancelInv' /\ NoPartialTarget'
  BY <1>1, <1>3 DEF Safe, CancelInv, NoPartialTarget
<1>9. CancelIsHonoured'
  <2>1. j \in issued => Outcome(j) # "error"
    BY <1>1 DEF Safe, CancelInv, Outcome
  <2>. QED
    BY <1>1, <1>3, <1>5, <2>1 DEF Safe, CancelIsHonoured, TypeOK
<1>10. OutcomeMatchesFiles'
  <2>1. /\ Outcome(j) \in {"error", "cancelled"} => run[j] = "err"
        /\ Outcome(j) = "done" => run[j] = "ok"
    BY <1>3 DEF Outcome
  <2>2. /\ run[j] = "err" => \A p \in Paths : target[p].job # j
        /\ run[j] = "ok" => target[PathOf[j]].job # NoJob
        /\ j \notin parts
    BY <1>1, <1>3 DEF Safe, FileInv
  <2>3. ASSUME NEW p \in Paths, NEW i \in Ids
        PROVE  /\ target'[p].job = i => PathOf[i] = p /\ jobs'[i] \notin {"error", "cancelled"}
               /\ jobs'[i] = "done" => target'[PathOf[i]].job # NoJob
               /\ jobs'[i] \in Ended => i \notin parts'
    <3>1. CASE i = j
      BY <1>1, <1>3, <1>5, <2>1, <2>2, <3>1 DEF Safe, OutcomeMatchesFiles
    <3>2. CASE i # j
      BY <1>1, <1>3, <1>5, <3>2 DEF Safe, OutcomeMatchesFiles, Ended
    <3>. QED
      BY <3>1, <3>2
  <2>. QED
    BY <2>3 DEF OutcomeMatchesFiles
<1>. QED
  BY <1>3, <1>6, <1>7, <1>8, <1>9, <1>10 DEF Safe

\* A crash forgets the registry and leaves the files.
LEMMA CrashKeeps ==
  ASSUME IInv, Crash
  PROVE  StageInv' /\ ListInv' /\ Safe'
<1>1. TypeOK /\ StageInv /\ Safe
  BY DEF IInv, Safe
<1>2. /\ \A j \in Ids : /\ jobs'[j] = "absent"
                        /\ starter'[j] = (IF starter[j] = "idle" THEN "idle" ELSE "returned")
                        /\ run'[j] = (IF run[j] = "none" THEN "none" ELSE "over")
      /\ finished' = <<>>
      /\ UNCHANGED <<ctx, body, copied, parts, target, issued>>
  BY DEF Crash, fetchVars, fileVars
<1>3. StageInv'
  BY <1>1, <1>2 DEF StageInv, Active, Ended
<1>4. ListInv'
  BY <1>2 DEF ListInv
<1>5. FileInv'
  <2>1. \A j \in parts : j \in Ids
    BY <1>1 DEF TypeOK
  <2>. QED
    BY <1>1, <1>2, <2>1 DEF Safe, FileInv
<1>6. CancelInv' /\ NoPartialTarget'
  BY <1>1, <1>2 DEF Safe, CancelInv, NoPartialTarget
<1>7. CancelIsHonoured' /\ OutcomeMatchesFiles'
  <2>1. issued \subseteq Ids
    BY <1>1 DEF TypeOK
  <2>. QED
    BY <1>1, <1>2, <2>1 DEF Safe, CancelIsHonoured, OutcomeMatchesFiles, Ended
<1>. QED
  BY <1>3, <1>4, <1>5, <1>6, <1>7 DEF Safe

-----------------------------------------------------------------------------
(* The inductive invariant and the theorems.                               *)

\* The invariant holds at the start.
LEMMA InitInv == Init => IInv
<1>. SUFFICES ASSUME Init
              PROVE  IInv
  OBVIOUS
<1>. USE PathsAssumption, BoundsAssumption
<1>1. TypeOK
  <2>1. finished \in Seq(Ids) /\ Len(finished) <= MaxFinished /\ ToSet(finished) = {}
    BY DEF Init, ToSet
  <2>2. {j \in Ids : jobs[j] \in Ended} = {}
    BY DEF Init, Ended
  <2>3. 0 \in 0..(MaxBytes + 2) /\ 0 \in 0..(MaxBytes + 1) /\ 0 \in 0..MaxCrashes
    OBVIOUS
  <2>. QED
    BY <2>1, <2>2, <2>3 DEF Init, TypeOK, Stages
<1>2. StageInv /\ ListInv /\ CancelInv
  BY DEF Init, StageInv, ListInv, CancelInv, Active, Ended
<1>3. FileInv
  BY DEF Init, FileInv
<1>4. OutcomeMatchesFiles /\ NoPartialTarget /\ CancelIsHonoured
  BY DEF Init, OutcomeMatchesFiles, NoPartialTarget, CancelIsHonoured, Ended
<1>. QED
  BY <1>1, <1>2, <1>3, <1>4 DEF IInv

\* Every step keeps it.
LEMMA StepInv == IInv /\ [Next]_vars => IInv'
<1>. SUFFICES ASSUME IInv, [Next]_vars
              PROVE  IInv'
  OBVIOUS
<1>. USE DEF IInv, Safe
<1>1. ASSUME NEW j \in Ids,
             Register(j) \/ Launch(j) \/ StoreCancel(j) \/ Cancel(j) \/ Expire(j)
      PROVE  IInv'
  BY <1>1, CallTypes, CallKeeps
<1>2. ASSUME NEW j \in Ids, Stage(j) \/ Fetch(j) \/ Copy(j) \/ CloseFile(j)
      PROVE  IInv'
  BY <1>2, DownloadTypes, FetchKeeps
<1>3. ASSUME NEW j \in Ids, Rename(j) \/ RemovePart(j)
      PROVE  IInv'
  BY <1>3, DownloadTypes, RenameKeeps
<1>4. ASSUME NEW j \in Ids, Settle(j)
      PROVE  IInv'
  BY <1>4, EndTypes, SettleKeeps
<1>5. CASE Crash
  BY <1>5, EndTypes, CrashKeeps
<1>6. CASE UNCHANGED vars
  BY <1>6 DEF vars, registryVars, fetchVars, fileVars, TypeOK, StageInv, ListInv, FileInv, CancelInv,
              OutcomeMatchesFiles, NoPartialTarget, CancelIsHonoured
<1>. QED
  BY <1>1, <1>2, <1>3, <1>4, <1>5, <1>6 DEF Next, Goroutine

\* The invariant is one of the specification.
LEMMA AlwaysInv == Spec => []IInv
  BY InitInv, StepInv, PTL DEF Spec

\* The registry, the list of finished jobs and the cancel functions agree,
\* and every variable stays in its type.
THEOREM TypeCorrect == Spec => []TypeOK
<1>1. IInv => TypeOK
  BY DEF IInv
<1>. QED
  BY <1>1, AlwaysInv, PTL

\* The wrapper's outcome is what runDownload did to the files, whatever the
\* cancel and the crash raced with.
THEOREM OutcomesMatch == Spec => []OutcomeMatchesFiles
<1>1. IInv => OutcomeMatchesFiles
  BY DEF IInv
<1>. QED
  BY <1>1, AlwaysInv, PTL

\* The rename only ever puts a whole body within the cap at a destination.
THEOREM TargetsAreWhole == Spec => []NoPartialTarget
<1>1. IInv => NoPartialTarget
  BY DEF IInv
<1>. QED
  BY <1>1, AlwaysInv, PTL

\* A cancellation that Cancel issued is not reported as a failure.
THEOREM CancelsAreHonoured == Spec => []CancelIsHonoured
<1>1. IInv => CancelIsHonoured
  BY DEF IInv
<1>. QED
  BY <1>1, AlwaysInv, PTL

\* evictFinishedLocked: within a process only ended jobs leave the registry,
\* and only once it holds MaxFinished of them.
LEMMA StepRetention ==
  ASSUME IInv, [Next]_vars
  PROVE  crashes' = crashes =>
           \A j \in Ids : (jobs[j] # "absent" /\ jobs'[j] = "absent") =>
                             jobs[j] \in Ended /\ Len(finished') = MaxFinished
<1>. SUFFICES ASSUME crashes' = crashes, NEW k \in Ids, jobs[k] # "absent", jobs'[k] = "absent"
              PROVE  jobs[k] \in Ended /\ Len(finished') = MaxFinished
  OBVIOUS
<1>0. TypeOK
  BY DEF IInv
<1>1. ASSUME NEW j \in Ids, Register(j)
      PROVE  FALSE
  BY <1>0, <1>1 DEF Register, TypeOK
<1>2. jobs' # jobs
  OBVIOUS
<1>3. ASSUME NEW j \in Ids, Settle(j)
      PROVE  jobs[k] \in Ended /\ Len(finished') = MaxFinished
  <2>1. PICK evicted \in SUBSET (ToSet(finished) \cup {j}) :
           /\ jobs' = [i \in Ids |-> IF i \in evicted THEN "absent"
                                     ELSE IF i = j THEN Outcome(j) ELSE jobs[i]]
           /\ ToSet(finished') = (ToSet(finished) \cup {j}) \ evicted
           /\ j \notin evicted
           /\ evicted # {} => Len(finished') = MaxFinished
    BY <1>3, SettleStep
  <2>2. Outcome(j) # "absent"
    BY <1>3, SettleStep DEF Ended
  <2>3. k \in evicted /\ k # j
    BY <2>1, <2>2
  <2>. QED
    BY <1>0, <2>1, <2>3 DEF TypeOK
<1>4. ~Crash
  BY <1>0, BoundsAssumption DEF Crash, TypeOK
<1>. QED
  BY <1>1, <1>2, <1>3, <1>4
  DEF Next, Goroutine, Launch, StoreCancel, Cancel, Expire, Stage, Fetch, Copy, CloseFile, Rename,
      RemovePart, registryVars, vars

\* So the newest ended jobs stay.
THEOREM NewestStay == Spec => RetentionKeepsNewest
<1>1. IInv /\ [Next]_vars =>
        [crashes' = crashes =>
           \A j \in Ids : (jobs[j] # "absent" /\ jobs'[j] = "absent") =>
                             /\ jobs[j] \in Ended
                             /\ Len(finished') = MaxFinished]_vars
  BY StepRetention
<1>. QED
  BY <1>1, AlwaysInv, PTL DEF Spec, RetentionKeepsNewest

-----------------------------------------------------------------------------
(* Asynchronous answers: the invariant.                                    *)

\* A request that uses a trace id.
User(r, t) == TraceOf[r] = t /\ req[r] # "idle"

\* At most one request has used the trace id.
Sole(t) == \A a, b \in Requests : User(a, t) /\ User(b, t) => a = b

\* What waits in a queue: the put or the completion of a request, a deletion.
PutIn(q, r) == \E i \in 1..Len(q) : q[i].op = "put" /\ q[i].r = r
CompleteIn(q, r) == \E i \in 1..Len(q) : q[i].op = "complete" /\ q[i].r = r
DeleteIn(q, t) == \E i \in 1..Len(q) : q[i].op = "delete" /\ q[i].t = t

\* A deletion of the trace's row has been decided.
Doomed(t) == poll = t \/ DeleteIn(queue, t)

\* Each request puts one row, while or after its handler waits for it; a
\* completion is of a run that was promised.
PutInv ==
    /\ IsFiniteSet({r \in Requests : req[r] # "idle"})
    /\ \A i, j \in 1..Len(queue) :
          queue[i].op = "put" /\ queue[j].op = "put" /\ queue[i].r = queue[j].r => i = j
    /\ \A r \in Requests :
          /\ PutIn(queue, r) => req[r] \in {"putting", "refused"}
          /\ req[r] = "putting" => PutIn(queue, r)
          /\ CompleteIn(queue, r) => req[r] = "acked"

\* A row, and a decision to delete it, come from a put that has been applied.
RowInv ==
    \A t \in Traces :
        /\ rows[t].status = "none" => rows[t].left = 0
        /\ rows[t].status # "none" \/ Doomed(t) =>
              \E r \in Requests : User(r, t) /\ ~PutIn(queue, r)

\* The row of a trace id that was used once has time left as long as its
\* request may write it, and is deleted only after that.
FreshInv ==
    \A t \in Traces : Sole(t) =>
        /\ Doomed(t) => rows[t].left = 0
        /\ \A r \in Requests : User(r, t) =>
              /\ req[r] = "put" => rows[t].left = TTL /\ ~Doomed(t)
              /\ task[r] = "running" => budget[r] < rows[t].left /\ ~Doomed(t)
              /\ CompleteIn(queue, r) => 0 < rows[t].left /\ ~Doomed(t)

\* From StopGRPC on nobody is handled any more, and nobody runs when the runs
\* have been joined, unless the stop was cut short.
StopInv ==
    /\ phase = "grpc" => \A r \in Requests \ GRPC : ~Handling(r)
    /\ phase \in {"join", "cleanup"} /\ cutShort = {} => \A r \in Requests : ~Handling(r)
    /\ phase = "cleanup" /\ cutShort = {} => Joined

-----------------------------------------------------------------------------
(* The store's queue.                                                      *)

\* A write is one of four.
LEMMA WriteFacts ==
  ASSUME NEW w \in Writes
  PROVE  /\ w.op \in {"put", "complete", "delete", "sweep"}
         /\ w.op = "put" => w.r \in Requests
         /\ w.op = "complete" => w.r \in Requests /\ w.status \in {"done", "error"}
         /\ w.op = "delete" => w.t \in Traces
  BY DEF Writes

\* A write that is taken joins the end of the queue.
LEMMA EnqueueFacts ==
  ASSUME queue \in Seq(Writes), Len(queue) <= QueueCap, NEW w \in Writes, Enqueue(w)
  PROVE  /\ queue' \in Seq(Writes) /\ Len(queue') <= QueueCap
         /\ Len(queue') = Len(queue) + 1 /\ queue'[Len(queue) + 1] = w
         /\ \A i \in 1..Len(queue) : queue'[i] = queue[i]
  BY CapacityAssumption DEF Enqueue

\* The rest of the queue.
LEMMA TailFacts ==
  ASSUME queue \in Seq(Writes), queue # <<>>, queue' = Tail(queue)
  PROVE  /\ queue' \in Seq(Writes) /\ Len(queue') = Len(queue) - 1
         /\ Head(queue) = queue[1] /\ queue[1] \in Writes
         /\ \A i \in 1..Len(queue') : queue'[i] = queue[i + 1]
  OBVIOUS

\* What a new write changes of what waits.
LEMMA EnqueuedIn ==
  ASSUME queue \in Seq(Writes), Len(queue) <= QueueCap, NEW w \in Writes, Enqueue(w)
  PROVE  /\ \A r : PutIn(queue', r) <=> PutIn(queue, r) \/ (w.op = "put" /\ w.r = r)
         /\ \A r : CompleteIn(queue', r) <=> CompleteIn(queue, r) \/ (w.op = "complete" /\ w.r = r)
         /\ \A t : DeleteIn(queue', t) <=> DeleteIn(queue, t) \/ (w.op = "delete" /\ w.t = t)
<1>1. /\ Len(queue) \in Nat /\ Len(queue') = Len(queue) + 1 /\ queue'[Len(queue) + 1] = w
      /\ \A i \in 1..Len(queue) : queue'[i] = queue[i]
  BY EnqueueFacts
<1>2. \A i \in 1..Len(queue') : i \in 1..Len(queue) \/ i = Len(queue) + 1
  BY <1>1
<1>3. \A i \in 1..Len(queue) : i \in 1..Len(queue')
  BY <1>1
<1>4. Len(queue) + 1 \in 1..Len(queue')
  BY <1>1
<1>. HIDE DEF Enqueue
<1>. QED
  BY <1>1, <1>2, <1>3, <1>4, Zenon DEF PutIn, CompleteIn, DeleteIn

\* What waits behind the first write waited before.
LEMMA TailIn ==
  ASSUME queue \in Seq(Writes), queue # <<>>, queue' = Tail(queue)
  PROVE  /\ \A r : PutIn(queue', r) => PutIn(queue, r)
         /\ \A r : CompleteIn(queue', r) => CompleteIn(queue, r)
         /\ \A t : DeleteIn(queue', t) => DeleteIn(queue, t)
         /\ \A r : PutIn(queue, r) => PutIn(queue', r) \/ (queue[1].op = "put" /\ queue[1].r = r)
<1>1. /\ Len(queue) \in Nat /\ Len(queue') = Len(queue) - 1
      /\ \A i \in 1..Len(queue') : queue'[i] = queue[i + 1] /\ i + 1 \in 1..Len(queue)
  BY TailFacts
<1>2. /\ \A r : PutIn(queue', r) => PutIn(queue, r)
      /\ \A r : CompleteIn(queue', r) => CompleteIn(queue, r)
      /\ \A t : DeleteIn(queue', t) => DeleteIn(queue, t)
  BY <1>1, Zenon DEF PutIn, CompleteIn, DeleteIn
<1>3. ASSUME NEW r, PutIn(queue, r), ~(queue[1].op = "put" /\ queue[1].r = r)
      PROVE  PutIn(queue', r)
  <2>1. PICK i \in 1..Len(queue) : queue[i].op = "put" /\ queue[i].r = r
    BY <1>3 DEF PutIn
  <2>2. i # 1
    BY <1>3, <2>1
  <2>3. i - 1 \in 1..Len(queue') /\ queue'[i - 1] = queue[i]
    BY <1>1, <2>2
  <2>. QED
    BY <2>1, <2>3 DEF PutIn
<1>. QED
  BY <1>2, <1>3

\* Nothing waits in an empty queue.
LEMMA EmptyIn ==
  \A x : ~PutIn(<<>>, x) /\ ~CompleteIn(<<>>, x) /\ ~DeleteIn(<<>>, x)
  BY DEF PutIn, CompleteIn, DeleteIn

\* A trace id that was not used for two requests was used for one at most.
LEMMA NotReused ==
  ASSUME IsFiniteSet({r \in Requests : req[r] # "idle"}), NEW t \in Traces, ~Reused(t)
  PROVE  Sole(t)
<1>. DEFINE S == {r \in Requests : TraceOf[r] = t /\ req[r] # "idle"}
<1>. SUFFICES ASSUME NEW a \in Requests, NEW b \in Requests, User(a, t), User(b, t), a # b
              PROVE  FALSE
  BY DEF Sole
<1>1. IsFiniteSet(S)
  <2>1. S \subseteq {r \in Requests : req[r] # "idle"}
    OBVIOUS
  <2>. QED
    BY <2>1, FS_Subset
<1>2. {a, b} \subseteq S
  BY DEF User
<1>3. IsFiniteSet({a, b}) /\ Cardinality({a, b}) <= Cardinality(S)
  BY <1>1, <1>2, FS_Subset
<1>4. Cardinality({a, b}) = 2
  <2>1. IsFiniteSet({a}) /\ Cardinality({a}) = 1
    BY FS_Singleton
  <2>2. Cardinality({a} \cup {b}) = Cardinality({a}) + 1
    BY <2>1, FS_AddElement
  <2>3. {a} \cup {b} = {a, b}
    OBVIOUS
  <2>. QED
    BY <2>1, <2>2, <2>3
<1>5. Cardinality(S) \in Nat /\ Cardinality(S) <= 1
  <2>1. Cardinality(S) \in Nat
    BY <1>1, FS_CardinalityType
  <2>. QED
    BY <2>1 DEF Reused
<1>. QED
  BY <1>3, <1>4, <1>5

-----------------------------------------------------------------------------
(* Type correctness and the stop.                                          *)

\* The type invariant at the start.
LEMMA ServeTypeInit == ServeInit => ServeTypeOK
<1>. SUFFICES ASSUME ServeInit
              PROVE  ServeTypeOK
  OBVIOUS
<1>1. /\ 0 \in 0..TTL /\ 0 \in 0..RunBound /\ 0 \in 0..MaxFaults /\ Absent \in 0..Absent
      /\ <<>> \in Seq(Writes) /\ Len(<<>>) <= QueueCap
  BY TimeAssumption, CapacityAssumption DEF Absent
<1>2. rows \in [Traces -> [status : {"none", "pending", "done", "error"}, left : 0..TTL]]
  BY <1>1 DEF ServeInit, NoRow
<1>. QED
  BY <1>1, <1>2 DEF ServeInit, ServeTypeOK, Phases

\* The rows after a write are rows.
LEMMA AppliedType ==
  ASSUME ServeTypeOK, NEW w \in Writes
  PROVE  Applied(w) \in [Traces -> [status : {"none", "pending", "done", "error"}, left : 0..TTL]]
<1>1. TTL \in Nat /\ TTL \in 0..TTL
  BY TimeAssumption
<1>2. CASE w.op = "put"
  BY <1>1, <1>2, WriteFacts, RequestsAssumption DEF Applied, ServeTypeOK
<1>3. CASE w.op = "complete"
  BY <1>1, <1>3, WriteFacts, RequestsAssumption DEF Applied, ServeTypeOK
<1>4. CASE w.op = "delete"
  BY <1>1, <1>4, WriteFacts DEF Applied, ServeTypeOK, NoRow
<1>5. CASE w.op = "sweep"
  BY <1>1, <1>5 DEF Applied, ServeTypeOK, NoRow
<1>. QED
  BY <1>2, <1>3, <1>4, <1>5, WriteFacts

\* Every step keeps the type invariant.
LEMMA ServeTypeStep == ServeTypeOK /\ [ServeNext]_serveVars => ServeTypeOK'
<1>. SUFFICES ASSUME ServeTypeOK, [ServeNext]_serveVars
              PROVE  ServeTypeOK'
  OBVIOUS
<1>0. /\ TTL \in Nat /\ RunBound \in Nat /\ MaxFaults \in Nat /\ EventCap \in Nat
      /\ queue \in Seq(Writes) /\ Len(queue) <= QueueCap
      /\ <<>> \in Seq(Writes) /\ Len(<<>>) <= QueueCap
      /\ faults \in 0..MaxFaults /\ Absent = EventCap + 1
  BY TimeAssumption, CapacityAssumption DEF ServeTypeOK, Absent
<1>1. CASE ApplyWrite
  <2>1. /\ queue' \in Seq(Writes) /\ Len(queue') <= QueueCap /\ Head(queue) \in Writes
    BY <1>0, <1>1, TailFacts, CapacityAssumption DEF ApplyWrite
  <2>2. rows' \in [Traces -> [status : {"none", "pending", "done", "error"}, left : 0..TTL]]
    BY <1>1, <2>1, AppliedType DEF ApplyWrite, ServeTypeOK
  <2>3. PICK ok \in BOOLEAN : Signalled(Head(queue), ok)
    BY <1>1 DEF ApplyWrite
  <2>4. /\ req' \in [Requests -> {"idle", "putting", "put", "acked", "refused"}]
        /\ task' \in [Requests -> {"none", "running", "completing", "settled", "lost"}]
    BY <2>3 DEF Signalled, ServeTypeOK
  <2>5. \A r \in Requests : task'[r] # "none" => req'[r] = "acked"
    BY <2>1, <2>3, WriteFacts DEF Signalled, ServeTypeOK
  <2>6. faults' \in 0..MaxFaults
    <3>1. faults' = faults \/ (faults < MaxFaults /\ faults' = faults + 1)
      BY <1>1 DEF ApplyWrite, Fault
    <3>. QED
      BY <1>0, <3>1
  <2>. QED
    BY <1>1, <2>1, <2>2, <2>4, <2>5, <2>6 DEF ApplyWrite, ServeTypeOK, streamVars
<1>2. ASSUME NEW r \in Requests, Put(r)
      PROVE  ServeTypeOK'
  <2>1. [op |-> "put", r |-> r] \in Writes
    BY DEF Writes
  <2>2. queue' \in Seq(Writes) /\ Len(queue') <= QueueCap
    BY <1>0, <1>2, <2>1, EnqueueFacts DEF Put, QueueFull
  <2>3. /\ req' \in [Requests -> {"idle", "putting", "put", "acked", "refused"}]
        /\ \A a \in Requests : task[a] # "none" => req'[a] = "acked"
    BY <1>2 DEF Put, ServeTypeOK
  <2>. QED
    BY <1>2, <2>2, <2>3 DEF Put, ServeTypeOK, streamVars, stopVars
<1>3. ASSUME NEW r \in Requests, PutAbandoned(r)
      PROVE  ServeTypeOK'
  BY <1>3 DEF PutAbandoned, ServeTypeOK, tableVars, streamVars, stopVars
<1>4. ASSUME NEW r \in Requests, Acknowledge(r)
      PROVE  ServeTypeOK'
  <2>1. RunBound \in 0..RunBound
    BY <1>0
  <2>. QED
    BY <1>4, <2>1 DEF Acknowledge, ServeTypeOK, tableVars, streamVars, stopVars
<1>5. ASSUME NEW r \in Requests, RunEnds(r)
      PROVE  ServeTypeOK'
  <2>1. \A status \in {"done", "error"} : [op |-> "complete", r |-> r, status |-> status] \in Writes
    BY DEF Writes
  <2>2. queue' \in Seq(Writes) /\ Len(queue') <= QueueCap
    BY <1>0, <1>5, <2>1, EnqueueFacts DEF RunEnds, QueueFull
  <2>3. subs' \in [Streams -> 0..Absent]
    BY <1>0, <1>5 DEF RunEnds, Published, Absent, ServeTypeOK
  <2>4. /\ task' \in [Requests -> {"none", "running", "completing", "settled", "lost"}]
        /\ \A a \in Requests : task'[a] # "none" => req[a] = "acked"
    BY <1>5 DEF RunEnds, ServeTypeOK
  <2>. QED
    BY <1>5, <2>2, <2>3, <2>4 DEF RunEnds, ServeTypeOK, stopVars
<1>6. ASSUME NEW t \in Traces, PollRead(t)
      PROVE  ServeTypeOK'
  BY <1>6 DEF PollRead, ServeTypeOK, tableVars, runVars, streamVars, stopVars
<1>7. CASE PollDelete
  <2>1. [op |-> "delete", t |-> poll] \in Writes
    BY <1>7 DEF PollDelete, Writes, ServeTypeOK
  <2>2. queue' \in Seq(Writes) /\ Len(queue') <= QueueCap
    BY <1>0, <1>7, <2>1, EnqueueFacts DEF PollDelete, QueueFull
  <2>. QED
    BY <1>7, <2>2 DEF PollDelete, ServeTypeOK, runVars, streamVars, stopVars
<1>8. CASE Sweep
  <2>1. [op |-> "sweep"] \in Writes
    BY DEF Writes
  <2>2. queue' \in Seq(Writes) /\ Len(queue') <= QueueCap
    BY <1>0, <1>8, <2>1, EnqueueFacts DEF Sweep, QueueFull
  <2>. QED
    BY <1>8, <2>2 DEF Sweep, ServeTypeOK, runVars, streamVars, stopVars
<1>9. CASE Tick
  <2>1. rows' \in [Traces -> [status : {"none", "pending", "done", "error"}, left : 0..TTL]]
    <3>1. \A t \in Traces : /\ rows[t] \in [status : {"none", "pending", "done", "error"}, left : 0..TTL]
                            /\ rows[t].left = 0 \/ rows[t].left - 1 \in 0..TTL
      BY <1>0 DEF ServeTypeOK
    <3>2. \A t \in Traces : [rows[t] EXCEPT !.left = IF @ = 0 THEN 0 ELSE @ - 1]
             \in [status : {"none", "pending", "done", "error"}, left : 0..TTL]
      BY <1>0, <3>1
    <3>. QED
      BY <1>9, <3>2 DEF Tick
  <2>2. budget' \in [Requests -> 0..RunBound]
    <3>1. \A r \in Requests : budget[r] \in 0..RunBound
      BY DEF ServeTypeOK
    <3>2. \A r \in Requests : task[r] = "running" => budget[r] > 0
      BY <1>9 DEF Tick
    <3>3. \A r \in Requests : (IF task[r] = "running" THEN budget[r] - 1 ELSE 0) \in 0..RunBound
      BY <1>0, <3>1, <3>2
    <3>. QED
      BY <1>9, <3>3 DEF Tick
  <2>. QED
    BY <1>9, <2>1, <2>2 DEF Tick, ServeTypeOK, streamVars, stopVars
<1>10. ASSUME NEW s \in Streams, Subscribe(s) \/ Forward(s) \/ Disconnect(s)
       PROVE  ServeTypeOK'
  <2>1. /\ stream' \in [Streams -> {"idle", "open", "gone"}]
        /\ subs' \in [Streams -> 0..Absent]
    <3>1. stream \in [Streams -> {"idle", "open", "gone"}] /\ subs \in [Streams -> 0..Absent]
      BY DEF ServeTypeOK
    <3>2. 0 \in 0..Absent /\ Absent \in 0..Absent
      BY <1>0
    <3>3. CASE Subscribe(s)
      BY <3>1, <3>2, <3>3 DEF Subscribe
    <3>4. CASE Forward(s)
      <4>1. subs[s] - 1 \in 0..Absent
        BY <1>0, <3>4 DEF Forward
      <4>. QED
        BY <3>1, <3>4, <4>1 DEF Forward
    <3>5. CASE Disconnect(s)
      BY <3>1, <3>2, <3>5 DEF Disconnect
    <3>. QED
      BY <1>10, <3>3, <3>4, <3>5
  <2>. QED
    BY <1>10, <2>1 DEF Subscribe, Forward, Disconnect, ServeTypeOK, tableVars, runVars, stopVars
<1>11. CASE Signal \/ ListenerFails \/ ShutdownHTTP \/ StopGRPC \/ JoinTasks \/ Boot
  <2>1. phase' \in Phases
    BY <1>11 DEF Signal, ListenerFails, ShutdownHTTP, StopGRPC, JoinTasks, Boot, Goto, Phases
  <2>2. cutShort' \subseteq {"http", "join", "listener"}
    BY <1>11 DEF Signal, ListenerFails, ShutdownHTTP, StopGRPC, JoinTasks, Boot, ServeTypeOK
  <2>3. faults' \in 0..MaxFaults
    BY <1>0, <1>11 DEF Signal, ListenerFails, ShutdownHTTP, StopGRPC, JoinTasks, Boot, Fault
  <2>4. UNCHANGED <<tableVars, runVars, streamVars, swept, poll>>
    BY <1>11 DEF Signal, ListenerFails, ShutdownHTTP, StopGRPC, JoinTasks, Boot
  <2>. QED
    BY <2>1, <2>2, <2>3, <2>4 DEF ServeTypeOK, tableVars, runVars, streamVars
<1>12. CASE Cleanup \/ ServeCrash
  <2>1. faults' \in 0..MaxFaults
    BY <1>0, <1>12 DEF Cleanup, ServeCrash, Fault, ServeTypeOK
  <2>2. /\ req' \in [Requests -> {"idle", "putting", "put", "acked", "refused"}]
        /\ task' \in [Requests -> {"none", "running", "completing", "settled", "lost"}]
        /\ \A a \in Requests : task'[a] # "none" => req'[a] = "acked"
    <3>1. ProcessEnds
      BY <1>12 DEF Cleanup, ServeCrash
    <3>2. /\ req \in [Requests -> {"idle", "putting", "put", "acked", "refused"}]
          /\ task \in [Requests -> {"none", "running", "completing", "settled", "lost"}]
          /\ \A a \in Requests : task[a] # "none" => req[a] = "acked"
      BY DEF ServeTypeOK
    <3>3. \A r \in Requests :
             /\ req'[r] = IF Handling(r) THEN "refused" ELSE req[r]
             /\ task'[r] = IF task[r] \in {"running", "completing"} THEN "lost" ELSE task[r]
      BY <3>1 DEF ProcessEnds
    <3>. QED
      BY <3>1, <3>2, <3>3 DEF ProcessEnds, Handling
  <2>3. /\ stream' \in [Streams -> {"idle", "open", "gone"}]
        /\ subs' \in [Streams -> 0..Absent]
    BY <1>0, <1>12 DEF Cleanup, ServeCrash, ProcessEnds, Absent, ServeTypeOK
  <2>. QED
    BY <1>0, <1>12, <2>1, <2>2, <2>3 DEF Cleanup, ServeCrash, ProcessEnds, Goto, Phases, ServeTypeOK
<1>13. CASE UNCHANGED serveVars
  BY <1>13 DEF ServeTypeOK, serveVars, tableVars, runVars, streamVars, stopVars
<1>. QED
  BY <1>1, <1>2, <1>3, <1>4, <1>5, <1>6, <1>7, <1>8, <1>9, <1>10, <1>11, <1>12, <1>13
  DEF ServeNext, HandlerStep, StopStep

\* The stop's invariant.
LEMMA StopStepInv ==
  ASSUME ServeTypeOK, StopInv, [ServeNext]_serveVars
  PROVE  StopInv'
<1>1. CASE ApplyWrite
  <2>1. PICK ok \in BOOLEAN : Signalled(Head(queue), ok)
    BY <1>1 DEF ApplyWrite
  <2>2. \A r \in Requests : /\ Handling(r)' => Handling(r)
                            /\ task'[r] \in {"running", "completing"} => task[r] \in {"running", "completing"}
    BY <2>1 DEF Signalled, Handling, ServeTypeOK
  <2>. QED
    BY <1>1, <2>2 DEF ApplyWrite, StopInv, Joined
<1>2. ASSUME NEW r \in Requests, Put(r)
      PROVE  StopInv'
  <2>1. /\ UNCHANGED <<phase, cutShort, task>>
        /\ \A a \in Requests : a # r => Handling(a)' = Handling(a)
    BY <1>2 DEF Put, stopVars, Handling, ServeTypeOK
  <2>2. \/ phase = "up" \/ (r \in GRPC /\ phase = "http")
        \/ (phase = "cleanup" /\ cutShort # {})
    BY <1>2 DEF Put, Accepting, Serving
  <2>. QED
    BY <2>1, <2>2 DEF StopInv, Joined
<1>3. ASSUME NEW r \in Requests, PutAbandoned(r)
      PROVE  StopInv'
  <2>1. /\ UNCHANGED <<phase, cutShort, task>>
        /\ \A a \in Requests : Handling(a)' => Handling(a)
    BY <1>3 DEF PutAbandoned, stopVars, Handling, ServeTypeOK
  <2>. QED
    BY <2>1 DEF StopInv, Joined
<1>4. ASSUME NEW r \in Requests, Acknowledge(r)
      PROVE  StopInv'
  <2>1. /\ UNCHANGED <<phase, cutShort>> /\ Handling(r)
        /\ \A a \in Requests : Handling(a)' => Handling(a)
        /\ \A a \in Requests : a # r => task'[a] = task[a]
    BY <1>4 DEF Acknowledge, stopVars, Handling, ServeTypeOK
  <2>. QED
    BY <2>1 DEF StopInv
<1>5. ASSUME NEW r \in Requests, RunEnds(r)
      PROVE  StopInv'
  <2>1. /\ UNCHANGED <<phase, cutShort, req>> /\ task[r] = "running"
    BY <1>5 DEF RunEnds, stopVars
  <2>. QED
    BY <2>1 DEF StopInv, Joined, Handling
<1>6. CASE \/ \E t \in Traces : PollRead(t)
           \/ PollDelete \/ Sweep \/ Tick
           \/ \E s \in Streams : Subscribe(s) \/ Forward(s) \/ Disconnect(s)
           \/ UNCHANGED serveVars
  <2>1. UNCHANGED <<phase, cutShort, req, task>>
    BY <1>6 DEF PollRead, PollDelete, Sweep, Tick, Subscribe, Forward, Disconnect, serveVars, runVars, stopVars
  <2>. QED
    BY <2>1 DEF StopInv, Joined, Handling
<1>7. CASE Signal \/ Boot \/ Cleanup \/ ServeCrash
  <2>1. phase' \in {"http", "up", "down"}
    BY <1>7 DEF Signal, Boot, Cleanup, ServeCrash, ProcessEnds, Goto
  <2>. QED
    BY <2>1 DEF StopInv
<1>11. CASE ListenerFails
  BY <1>11 DEF ListenerFails, StopInv, Goto
<1>8. CASE ShutdownHTTP
  <2>1. UNCHANGED <<req, task>>
    BY <1>8 DEF ShutdownHTTP, runVars
  <2>2. CASE HTTPIdle /\ Goto("grpc")
    BY <2>1, <2>2 DEF StopInv, Goto, HTTPIdle, Handling
  <2>3. CASE Goto("cleanup") /\ cutShort' = cutShort \cup {"http"}
    BY <2>3 DEF StopInv, Goto
  <2>. QED
    BY <1>8, <2>2, <2>3 DEF ShutdownHTTP
<1>9. CASE StopGRPC
  BY <1>9 DEF StopGRPC, StopInv, Goto, Handling, runVars
<1>10. CASE JoinTasks
  BY <1>10 DEF JoinTasks, StopInv, Joined, Goto, Handling, runVars
<1>. QED
  BY <1>1, <1>2, <1>3, <1>4, <1>5, <1>6, <1>7, <1>8, <1>9, <1>10, <1>11
  DEF ServeNext, HandlerStep, StopStep

-----------------------------------------------------------------------------
(* The rows.                                                               *)

RowParts == PutInv /\ RowInv /\ FreshInv

\* What neither the queue, the table, a request, a run nor a poll is part of.
LEMMA ElsewhereStep ==
  ASSUME RowParts, UNCHANGED <<rows, queue, req, task, budget, poll>>
  PROVE  RowParts'
<1>1. PutInv'
  BY DEF RowParts, PutInv, PutIn, CompleteIn
<1>2. RowInv'
  BY DEF RowParts, RowInv, User, Doomed, PutIn, DeleteIn
<1>3. FreshInv'
  BY DEF RowParts, FreshInv, Sole, User, Doomed, CompleteIn, DeleteIn
<1>. QED
  BY <1>1, <1>2, <1>3 DEF RowParts

\* PutAnswer: the request is the first of its trace id, or the trace id is used
\* more than once from now on.
LEMMA PutStep ==
  ASSUME ServeTypeOK, RowParts, NEW r \in Requests, Put(r)
  PROVE  RowParts'
<1>. DEFINE w == [op |-> "put", r |-> r]
<1>0. /\ UNCHANGED <<rows, task, budget, poll>> /\ req[r] = "idle"
      /\ queue \in Seq(Writes) /\ Len(queue) <= QueueCap /\ w \in Writes
      /\ PutInv /\ RowInv /\ FreshInv /\ TraceOf[r] \in Traces
  BY RequestsAssumption DEF Put, ServeTypeOK, RowParts, Writes
<1>1. /\ req' \in [Requests -> {"idle", "putting", "put", "acked", "refused"}]
      /\ req'[r] \in {"putting", "refused"}
      /\ \A a \in Requests : a # r => req'[a] = req[a]
  BY DEF Put, ServeTypeOK
<1>2. ~PutIn(queue, r) /\ ~CompleteIn(queue, r) /\ task[r] # "running"
  BY <1>0 DEF PutInv, ServeTypeOK
<1>3. \/ Enqueue(w) /\ req'[r] = "putting"
      \/ queue' = queue /\ req'[r] = "refused"
  BY DEF Put, QueueFull, ServeTypeOK
<1>4. /\ \A a : a # r => (PutIn(queue', a) <=> PutIn(queue, a))
      /\ \A a : CompleteIn(queue', a) <=> CompleteIn(queue, a)
      /\ \A t : DeleteIn(queue', t) <=> DeleteIn(queue, t)
      /\ req'[r] = "putting" <=> PutIn(queue', r)
  <2>1. CASE Enqueue(w) /\ req'[r] = "putting"
    BY <1>0, <2>1, EnqueuedIn
  <2>2. CASE queue' = queue /\ req'[r] = "refused"
    BY <1>2, <2>2
  <2>. QED
    BY <1>3, <2>1, <2>2
<1>5. PutInv'
  <2>1. IsFiniteSet({a \in Requests : req'[a] # "idle"})
    <3>1. {a \in Requests : req'[a] # "idle"} = {a \in Requests : req[a] # "idle"} \cup {r}
      BY <1>0, <1>1
    <3>. QED
      BY <1>0, <3>1, FS_AddElement DEF PutInv
  <2>2. \A i, j \in 1..Len(queue') :
          queue'[i].op = "put" /\ queue'[j].op = "put" /\ queue'[i].r = queue'[j].r => i = j
    <3>1. CASE Enqueue(w)
      <4>1. /\ Len(queue) \in Nat /\ Len(queue') = Len(queue) + 1 /\ queue'[Len(queue) + 1] = w
            /\ \A i \in 1..Len(queue) : queue'[i] = queue[i]
        BY <1>0, <3>1, EnqueueFacts
      <4>2. \A i \in 1..Len(queue) : ~(queue[i].op = "put" /\ queue[i].r = r)
        BY <1>2 DEF PutIn
      <4>3. \A i \in 1..Len(queue') : i \in 1..Len(queue) \/ i = Len(queue) + 1
        BY <4>1
      <4>4. \A i, j \in 1..Len(queue) :
              queue[i].op = "put" /\ queue[j].op = "put" /\ queue[i].r = queue[j].r => i = j
        BY <1>0 DEF PutInv
      <4>. QED
        BY <4>1, <4>2, <4>3, <4>4
    <3>2. CASE queue' = queue
      BY <1>0, <3>2 DEF PutInv
    <3>. QED
      BY <1>3, <3>1, <3>2
  <2>3. \A a \in Requests :
          /\ PutIn(queue', a) => req'[a] \in {"putting", "refused"}
          /\ req'[a] = "putting" => PutIn(queue', a)
          /\ CompleteIn(queue', a) => req'[a] = "acked"
    BY <1>0, <1>1, <1>2, <1>4 DEF PutInv
  <2>. QED
    BY <2>1, <2>2, <2>3 DEF PutInv
<1>6. \A t \in Traces : Doomed(t)' <=> Doomed(t)
  BY <1>0, <1>4 DEF Doomed
<1>7. RowInv'
  <2>1. ASSUME NEW t \in Traces, NEW a \in Requests, User(a, t), ~PutIn(queue, a)
        PROVE  User(a, t)' /\ ~PutIn(queue', a)
    BY <1>0, <1>1, <1>4, <2>1 DEF User
  <2>. QED
    BY <1>0, <1>6, <2>1 DEF RowInv
<1>8. FreshInv'
  <2>. SUFFICES ASSUME NEW t \in Traces, Sole(t)'
                PROVE  /\ Doomed(t)' => rows[t].left = 0
                       /\ \A a \in Requests : User(a, t)' =>
                            /\ req'[a] = "put" => rows[t].left = TTL /\ ~Doomed(t)'
                            /\ task[a] = "running" => budget[a] < rows[t].left /\ ~Doomed(t)'
                            /\ CompleteIn(queue', a) => 0 < rows[t].left /\ ~Doomed(t)'
    BY <1>0 DEF FreshInv
  <2>1. \A a \in Requests : User(a, t) => User(a, t)'
    BY <1>0, <1>1 DEF User
  <2>2. Sole(t)
    BY <2>1 DEF Sole
  <2>3. \A a \in Requests : a # r => (User(a, t)' <=> User(a, t))
    BY <1>1 DEF User
  <2>. QED
    BY <1>0, <1>1, <1>2, <1>4, <1>6, <2>2, <2>3 DEF FreshInv
<1>. QED
  BY <1>5, <1>7, <1>8 DEF RowParts

\* The client of a put leaves.
LEMMA AbandonStep ==
  ASSUME ServeTypeOK, RowParts, NEW r \in Requests, PutAbandoned(r)
  PROVE  RowParts'
<1>0. /\ UNCHANGED <<rows, queue, task, budget, poll>> /\ req[r] = "putting"
      /\ PutInv /\ RowInv /\ FreshInv
  BY DEF PutAbandoned, tableVars, RowParts
<1>1. /\ req'[r] = "refused"
      /\ \A a \in Requests : a # r => req'[a] = req[a]
  BY DEF PutAbandoned, ServeTypeOK
<1>2. /\ \A a \in Requests, t \in Traces : User(a, t)' <=> User(a, t)
      /\ \A t \in Traces : Doomed(t)' <=> Doomed(t)
  BY <1>0, <1>1 DEF User, Doomed
<1>3. PutInv'
  <2>1. {a \in Requests : req'[a] # "idle"} = {a \in Requests : req[a] # "idle"}
    BY <1>0, <1>1
  <2>2. ~CompleteIn(queue, r)
    BY <1>0 DEF PutInv
  <2>. QED
    BY <1>0, <1>1, <2>1, <2>2 DEF PutInv
<1>4. RowInv'
  BY <1>0, <1>2 DEF RowInv
<1>5. FreshInv'
  <2>1. \A t \in Traces : Sole(t)' <=> Sole(t)
    BY <1>2 DEF Sole
  <2>. QED
    BY <1>0, <1>1, <1>2, <2>1 DEF FreshInv
<1>. QED
  BY <1>3, <1>4, <1>5 DEF RowParts

\* The 202: the run's deadline is shorter than what the row has.
LEMMA AcknowledgeStep ==
  ASSUME ServeTypeOK, RowParts, NEW r \in Requests, Acknowledge(r)
  PROVE  RowParts'
<1>0. /\ UNCHANGED <<rows, queue, poll>> /\ req[r] = "put"
      /\ PutInv /\ RowInv /\ FreshInv
  BY DEF Acknowledge, tableVars, RowParts
<1>1. /\ req'[r] = "acked" /\ budget'[r] = RunBound
      /\ \A a \in Requests : a # r => req'[a] = req[a] /\ task'[a] = task[a] /\ budget'[a] = budget[a]
  BY DEF Acknowledge, ServeTypeOK
<1>2. /\ \A a \in Requests, t \in Traces : User(a, t)' <=> User(a, t)
      /\ \A t \in Traces : Doomed(t)' <=> Doomed(t)
  BY <1>0, <1>1 DEF User, Doomed
<1>3. PutInv'
  <2>1. {a \in Requests : req'[a] # "idle"} = {a \in Requests : req[a] # "idle"}
    BY <1>0, <1>1
  <2>2. ~PutIn(queue, r)
    BY <1>0 DEF PutInv
  <2>. QED
    BY <1>0, <1>1, <2>1, <2>2 DEF PutInv
<1>4. RowInv'
  BY <1>0, <1>2 DEF RowInv
<1>5. FreshInv'
  <2>1. \A t \in Traces : Sole(t)' <=> Sole(t)
    BY <1>2 DEF Sole
  <2>2. \A t \in Traces : Sole(t) /\ User(r, t) => RunBound < rows[t].left /\ ~Doomed(t)
    BY <1>0, TimeAssumption DEF FreshInv
  <2>3. ~CompleteIn(queue, r)
    BY <1>0 DEF PutInv
  <2>. QED
    BY <1>0, <1>1, <1>2, <2>1, <2>2, <2>3 DEF FreshInv
<1>. QED
  BY <1>3, <1>4, <1>5 DEF RowParts

\* The run ends within its deadline.
LEMMA RunEndsStep ==
  ASSUME ServeTypeOK, RowParts, NEW r \in Requests, RunEnds(r)
  PROVE  RowParts'
<1>0. /\ UNCHANGED <<rows, req, budget, poll>> /\ task[r] = "running" /\ req[r] = "acked"
      /\ queue \in Seq(Writes) /\ Len(queue) <= QueueCap
      /\ PutInv /\ RowInv /\ FreshInv
  BY DEF RunEnds, RowParts, ServeTypeOK
<1>1. /\ task'[r] \in {"completing", "lost"}
      /\ \A a \in Requests : a # r => task'[a] = task[a]
  BY DEF RunEnds, ServeTypeOK
<1>2. \/ \E status \in {"done", "error"} : Enqueue([op |-> "complete", r |-> r, status |-> status])
      \/ queue' = queue
  BY DEF RunEnds, QueueFull
<1>3. /\ \A a : PutIn(queue', a) <=> PutIn(queue, a)
      /\ \A t : DeleteIn(queue', t) <=> DeleteIn(queue, t)
      /\ \A a : CompleteIn(queue', a) => CompleteIn(queue, a) \/ a = r
  <2>1. ASSUME NEW status \in {"done", "error"}, Enqueue([op |-> "complete", r |-> r, status |-> status])
        PROVE  /\ \A a : PutIn(queue', a) <=> PutIn(queue, a)
               /\ \A t : DeleteIn(queue', t) <=> DeleteIn(queue, t)
               /\ \A a : CompleteIn(queue', a) => CompleteIn(queue, a) \/ a = r
    <3>. DEFINE w == [op |-> "complete", r |-> r, status |-> status]
    <3>1. w \in Writes /\ w.op = "complete" /\ w.r = r
      BY DEF Writes
    <3>. QED
      BY <1>0, <2>1, <3>1, EnqueuedIn
  <2>. QED
    BY <1>2, <2>1
<1>4. PutInv'
  <2>1. \A i, j \in 1..Len(queue') :
          queue'[i].op = "put" /\ queue'[j].op = "put" /\ queue'[i].r = queue'[j].r => i = j
    <3>1. ASSUME NEW status \in {"done", "error"}, Enqueue([op |-> "complete", r |-> r, status |-> status])
          PROVE  \A i, j \in 1..Len(queue') :
                   queue'[i].op = "put" /\ queue'[j].op = "put" /\ queue'[i].r = queue'[j].r => i = j
      <4>. DEFINE w == [op |-> "complete", r |-> r, status |-> status]
      <4>1. w \in Writes /\ w.op # "put"
        BY DEF Writes
      <4>2. /\ Len(queue) \in Nat /\ Len(queue') = Len(queue) + 1 /\ queue'[Len(queue) + 1] = w
            /\ \A i \in 1..Len(queue) : queue'[i] = queue[i]
        BY <1>0, <3>1, <4>1, EnqueueFacts
      <4>3. \A i \in 1..Len(queue') : i \in 1..Len(queue) \/ i = Len(queue) + 1
        BY <4>2
      <4>4. \A i, j \in 1..Len(queue) :
              queue[i].op = "put" /\ queue[j].op = "put" /\ queue[i].r = queue[j].r => i = j
        BY <1>0 DEF PutInv
      <4>. QED
        BY <4>1, <4>2, <4>3, <4>4
    <3>2. CASE queue' = queue
      BY <1>0, <3>2 DEF PutInv
    <3>. QED
      BY <1>2, <3>1, <3>2
  <2>. QED
    BY <1>0, <1>3, <2>1 DEF PutInv
<1>5. \A t \in Traces : Doomed(t)' <=> Doomed(t)
  BY <1>0, <1>3 DEF Doomed
<1>6. RowInv'
  BY <1>0, <1>3, <1>5 DEF RowInv, User
<1>7. FreshInv'
  <2>1. \A t \in Traces : Sole(t)' <=> Sole(t)
    BY <1>0 DEF Sole, User
  <2>2. \A t \in Traces : Sole(t) /\ User(r, t) => 0 < rows[t].left /\ ~Doomed(t)
    <3>1. \A t \in Traces : budget[r] \in 0..RunBound /\ rows[t].left \in 0..TTL
      BY DEF ServeTypeOK
    <3>. QED
      BY <1>0, <3>1, TimeAssumption DEF FreshInv
  <2>3. \A a \in Requests, t \in Traces : User(a, t)' <=> User(a, t)
    BY <1>0 DEF User
  <2>. QED
    BY <1>0, <1>1, <1>3, <1>5, <2>1, <2>2, <2>3 DEF FreshInv
<1>. QED
  BY <1>4, <1>6, <1>7 DEF RowParts

\* A poll reads a row whose time is over: nobody is about to write it, unless
\* its trace id was used twice.
LEMMA PollReadStep ==
  ASSUME ServeTypeOK, RowParts, NEW t \in Traces, PollRead(t)
  PROVE  RowParts'
<1>0. /\ UNCHANGED <<rows, queue, req, task, budget>> /\ poll' = t /\ poll = NoTrace
      /\ rows[t].status # "none" /\ rows[t].left = 0
      /\ PutInv /\ RowInv /\ FreshInv
  BY DEF PollRead, Expired, tableVars, runVars, RowParts
<1>1. /\ \A a \in Requests, u \in Traces : User(a, u)' <=> User(a, u)
      /\ \A u \in Traces : Doomed(u)' <=> Doomed(u) \/ u = t
      /\ \A u \in Traces : Sole(u)' <=> Sole(u)
  BY <1>0, NoTraceAssumption DEF User, Doomed, Sole
<1>2. PutInv'
  BY <1>0 DEF PutInv
<1>3. RowInv'
  BY <1>0, <1>1 DEF RowInv
<1>4. FreshInv'
  <2>1. \A a \in Requests : budget[a] \in 0..RunBound
    BY DEF ServeTypeOK
  <2>2. Sole(t) => \A a \in Requests : User(a, t) =>
           req[a] # "put" /\ task[a] # "running" /\ ~CompleteIn(queue, a)
    BY <1>0, <2>1, TimeAssumption DEF FreshInv
  <2>. QED
    BY <1>0, <1>1, <2>2 DEF FreshInv
<1>. QED
  BY <1>2, <1>3, <1>4 DEF RowParts

\* A deletion that was decided, or a sweep, joins the queue.
LEMMA QueueDeletionStep ==
  ASSUME ServeTypeOK, RowParts, PollDelete \/ Sweep
  PROVE  RowParts'
<1>0. /\ UNCHANGED <<rows, req, task, budget>>
      /\ queue \in Seq(Writes) /\ Len(queue) <= QueueCap
      /\ PutInv /\ RowInv /\ FreshInv
  BY DEF PollDelete, Sweep, runVars, RowParts, ServeTypeOK
<1>1. \/ queue' = queue /\ (poll' = poll \/ poll' = NoTrace)
      \/ \E w \in Writes : /\ Enqueue(w) /\ w.op \in {"delete", "sweep"}
                           /\ w.op = "delete" => w.t = poll /\ poll' = NoTrace
                           /\ w.op = "sweep" => poll' = poll
  <2>1. CASE PollDelete
    <3>1. /\ [op |-> "delete", t |-> poll] \in Writes
      BY <2>1 DEF PollDelete, Writes, ServeTypeOK
    <3>. QED
      BY <2>1, <3>1 DEF PollDelete, QueueFull
  <2>2. CASE Sweep
    <3>1. [op |-> "sweep"] \in Writes
      BY DEF Writes
    <3>. QED
      BY <2>2, <3>1 DEF Sweep, QueueFull
  <2>. QED
    BY <2>1, <2>2
<1>2. /\ \A a : PutIn(queue', a) <=> PutIn(queue, a)
      /\ \A a : CompleteIn(queue', a) <=> CompleteIn(queue, a)
      /\ \A t \in Traces : Doomed(t)' => Doomed(t)
      /\ \A i, j \in 1..Len(queue') :
           queue'[i].op = "put" /\ queue'[j].op = "put" /\ queue'[i].r = queue'[j].r => i = j
  <2>1. CASE queue' = queue /\ (poll' = poll \/ poll' = NoTrace)
    BY <1>0, <2>1, NoTraceAssumption DEF PutInv, Doomed
  <2>2. ASSUME NEW w \in Writes, Enqueue(w), w.op \in {"delete", "sweep"},
               w.op = "delete" => w.t = poll /\ poll' = NoTrace,
               w.op = "sweep" => poll' = poll
        PROVE  /\ \A a : PutIn(queue', a) <=> PutIn(queue, a)
               /\ \A a : CompleteIn(queue', a) <=> CompleteIn(queue, a)
               /\ \A t \in Traces : Doomed(t)' => Doomed(t)
               /\ \A i, j \in 1..Len(queue') :
                    queue'[i].op = "put" /\ queue'[j].op = "put" /\ queue'[i].r = queue'[j].r => i = j
    <3>1. /\ \A a : PutIn(queue', a) <=> PutIn(queue, a)
          /\ \A a : CompleteIn(queue', a) <=> CompleteIn(queue, a)
          /\ \A t : DeleteIn(queue', t) <=> DeleteIn(queue, t) \/ (w.op = "delete" /\ w.t = t)
      BY <1>0, <2>2, EnqueuedIn
    <3>2. \A t \in Traces : Doomed(t)' => Doomed(t)
      BY <2>2, <3>1, NoTraceAssumption DEF Doomed
    <3>3. /\ Len(queue) \in Nat /\ Len(queue') = Len(queue) + 1 /\ queue'[Len(queue) + 1] = w
          /\ \A i \in 1..Len(queue) : queue'[i] = queue[i]
      BY <1>0, <2>2, EnqueueFacts
    <3>4. \A i \in 1..Len(queue') : i \in 1..Len(queue) \/ i = Len(queue) + 1
      BY <3>3
    <3>5. \A i, j \in 1..Len(queue) :
            queue[i].op = "put" /\ queue[j].op = "put" /\ queue[i].r = queue[j].r => i = j
      BY <1>0 DEF PutInv
    <3>. QED
      BY <2>2, <3>1, <3>2, <3>3, <3>4, <3>5
  <2>. QED
    BY <1>1, <2>1, <2>2
<1>3. PutInv'
  BY <1>0, <1>2 DEF PutInv
<1>4. RowInv'
  BY <1>0, <1>2 DEF RowInv, User
<1>5. FreshInv'
  <2>1. \A t \in Traces : Sole(t)' <=> Sole(t)
    BY <1>0 DEF Sole, User
  <2>2. \A a \in Requests, t \in Traces : User(a, t)' <=> User(a, t)
    BY <1>0 DEF User
  <2>. QED
    BY <1>0, <1>2, <2>1, <2>2 DEF FreshInv
<1>. QED
  BY <1>3, <1>4, <1>5 DEF RowParts

\* A tick takes as much from a row as from the deadline of its run, and finds
\* no write waiting.
LEMMA TickStep ==
  ASSUME ServeTypeOK, RowParts, Tick
  PROVE  RowParts'
<1>0. /\ UNCHANGED <<queue, req, task, poll>> /\ queue = <<>>
      /\ \A r \in Requests : ~Handling(r) /\ (task[r] = "running" => budget[r] > 0)
      /\ PutInv /\ RowInv /\ FreshInv
  BY DEF Tick, RowParts
<1>1. \A t \in Traces :
        /\ rows[t].left \in 0..TTL
        /\ rows'[t].status = rows[t].status
        /\ rows'[t].left = IF rows[t].left = 0 THEN 0 ELSE rows[t].left - 1
  BY DEF Tick, ServeTypeOK
<1>2. \A r \in Requests : /\ budget[r] \in 0..RunBound
                          /\ task[r] = "running" => budget'[r] = budget[r] - 1
  BY DEF Tick, ServeTypeOK
<1>3. /\ \A a \in Requests, t \in Traces : User(a, t)' <=> User(a, t)
      /\ \A t \in Traces : Doomed(t)' <=> Doomed(t)
      /\ \A t \in Traces : Sole(t)' <=> Sole(t)
  BY <1>0 DEF User, Doomed, Sole
<1>4. PutInv'
  BY <1>0 DEF PutInv
<1>5. RowInv'
  BY <1>0, <1>1, <1>3 DEF RowInv
<1>6. FreshInv'
  <2>1. \A r \in Requests : ~CompleteIn(queue, r) /\ req[r] # "put"
    BY <1>0, EmptyIn DEF Handling
  <2>2. \A t \in Traces, r \in Requests :
          Sole(t) /\ User(r, t) /\ task[r] = "running" =>
             budget'[r] < rows'[t].left /\ ~Doomed(t)
    BY <1>0, <1>1, <1>2, TimeAssumption DEF FreshInv
  <2>3. \A t \in Traces : Sole(t) /\ Doomed(t) => rows'[t].left = 0
    BY <1>0, <1>1 DEF FreshInv
  <2>. QED
    BY <1>0, <1>3, <2>1, <2>2, <2>3 DEF FreshInv
<1>. QED
  BY <1>4, <1>5, <1>6 DEF RowParts

\* The process ends: what was queued, read or running is gone.
LEMMA EndStep ==
  ASSUME ServeTypeOK, RowParts, Cleanup \/ ServeCrash
  PROVE  RowParts'
<1>0. /\ UNCHANGED rows /\ queue' = <<>> /\ poll' = NoTrace
      /\ PutInv /\ RowInv /\ FreshInv
  BY DEF Cleanup, ServeCrash, ProcessEnds, RowParts
<1>1. \A r \in Requests :
        /\ req[r] \in {"idle", "putting", "put", "acked", "refused"}
        /\ req'[r] = IF Handling(r) THEN "refused" ELSE req[r]
        /\ task'[r] # "running"
  <2>1. ProcessEnds
    BY DEF Cleanup, ServeCrash
  <2>2. \A r \in Requests : req[r] \in {"idle", "putting", "put", "acked", "refused"}
    BY DEF ServeTypeOK
  <2>. QED
    BY <2>1, <2>2 DEF ProcessEnds
<1>2. \A a \in Requests, t \in Traces : User(a, t)' <=> User(a, t)
  BY <1>1 DEF User, Handling
<1>3. \A t \in Traces : ~Doomed(t)'
  BY <1>0, EmptyIn, NoTraceAssumption DEF Doomed
<1>4. \A r \in Requests : ~PutIn(queue', r) /\ ~CompleteIn(queue', r) /\ req'[r] \notin {"putting", "put"}
  BY <1>0, <1>1, EmptyIn DEF Handling
<1>5. PutInv'
  <2>1. {r \in Requests : req'[r] # "idle"} = {r \in Requests : req[r] # "idle"}
    BY <1>1 DEF Handling
  <2>2. \A i \in 1..Len(queue') : FALSE
    BY <1>0
  <2>. QED
    BY <1>0, <1>4, <2>1, <2>2 DEF PutInv
<1>6. RowInv'
  BY <1>0, <1>2, <1>3, <1>4 DEF RowInv
<1>7. FreshInv'
  BY <1>1, <1>2, <1>3, <1>4 DEF FreshInv
<1>. QED
  BY <1>5, <1>6, <1>7 DEF RowParts

\* The batcher's next write: of a trace id that was used once, a put is the
\* first write of its row, a completion finds the row with time left, and a
\* deletion finds it without.
LEMMA ApplyStep ==
  ASSUME ServeTypeOK, RowParts, ApplyWrite
  PROVE  RowParts'
<1>. DEFINE w == Head(queue)
<1>0. /\ UNCHANGED <<budget, poll>> /\ queue # <<>> /\ queue' = Tail(queue)
      /\ queue \in Seq(Writes)
      /\ PutInv /\ RowInv /\ FreshInv
  BY DEF ApplyWrite, RowParts, ServeTypeOK
<1>1. /\ w = queue[1] /\ w \in Writes /\ Len(queue) \in Nat /\ 1 \in 1..Len(queue)
      /\ Len(queue') = Len(queue) - 1
      /\ \A i \in 1..Len(queue') : queue'[i] = queue[i + 1] /\ i + 1 \in 1..Len(queue)
  BY <1>0, TailFacts
<1>2. PICK ok \in BOOLEAN : Signalled(w, ok) /\ rows' = IF ok THEN Applied(w) ELSE rows
  BY DEF ApplyWrite
<1>3. \A r \in Requests :
        /\ req'[r] = req[r] \/ (w.op = "put" /\ w.r = r /\ req[r] = "putting"
                                 /\ req'[r] = IF ok THEN "put" ELSE "refused")
        /\ w.op = "put" /\ w.r = r => req'[r] # "putting"
        /\ task'[r] = "running" => task[r] = "running"
  BY <1>2 DEF Signalled, ServeTypeOK
<1>4. /\ \A r : PutIn(queue', r) => PutIn(queue, r)
      /\ \A r : CompleteIn(queue', r) => CompleteIn(queue, r)
      /\ \A t : DeleteIn(queue', t) => DeleteIn(queue, t)
      /\ \A r : PutIn(queue, r) => PutIn(queue', r) \/ (w.op = "put" /\ w.r = r)
  BY <1>0, <1>1, TailIn
<1>5. ASSUME w.op = "put"
      PROVE  PutIn(queue, w.r) /\ ~PutIn(queue', w.r)
  <2>1. PutIn(queue, w.r)
    BY <1>1, <1>5 DEF PutIn
  <2>2. ASSUME NEW i \in 1..Len(queue'), queue'[i].op = "put", queue'[i].r = w.r
        PROVE  FALSE
    <3>1. i + 1 \in 1..Len(queue) /\ queue[i + 1].op = "put" /\ queue[i + 1].r = queue[1].r
      BY <1>1, <2>2
    <3>2. i + 1 = 1
      BY <1>0, <1>1, <1>5, <3>1 DEF PutInv
    <3>. QED
      BY <3>2
  <2>. QED
    BY <2>1, <2>2 DEF PutIn
<1>6. /\ \A a \in Requests, t \in Traces : User(a, t)' <=> User(a, t)
      /\ \A t \in Traces : Doomed(t)' => Doomed(t)
      /\ \A t \in Traces : Sole(t)' <=> Sole(t)
  <2>1. \A a \in Requests, t \in Traces : User(a, t)' <=> User(a, t)
    BY <1>3 DEF User
  <2>. QED
    BY <1>0, <1>4, <2>1 DEF Doomed, Sole
<1>7. PutInv'
  <2>1. {r \in Requests : req'[r] # "idle"} = {r \in Requests : req[r] # "idle"}
    BY <1>3
  <2>2. \A i, j \in 1..Len(queue') :
          queue'[i].op = "put" /\ queue'[j].op = "put" /\ queue'[i].r = queue'[j].r => i = j
    <3>1. \A i, j \in 1..Len(queue) :
            queue[i].op = "put" /\ queue[j].op = "put" /\ queue[i].r = queue[j].r => i = j
      BY <1>0 DEF PutInv
    <3>2. ASSUME NEW i \in 1..Len(queue'), NEW j \in 1..Len(queue'),
                 queue'[i].op = "put", queue'[j].op = "put", queue'[i].r = queue'[j].r
          PROVE  i = j
      <4>1. /\ i + 1 \in 1..Len(queue) /\ j + 1 \in 1..Len(queue)
            /\ queue'[i] = queue[i + 1] /\ queue'[j] = queue[j + 1]
        BY <1>1
      <4>2. i + 1 = j + 1
        BY <3>1, <3>2, <4>1
      <4>. QED
        BY <4>2
    <3>. QED
      BY <3>2
  <2>3. ASSUME NEW r \in Requests
        PROVE  /\ PutIn(queue', r) => req'[r] \in {"putting", "refused"}
               /\ req'[r] = "putting" => PutIn(queue', r)
               /\ CompleteIn(queue', r) => req'[r] = "acked"
    BY <1>0, <1>3, <1>4, <1>5 DEF PutInv
  <2>. QED
    BY <1>0, <2>1, <2>2, <2>3 DEF PutInv
<1>8. ASSUME NEW t \in Traces
      PROVE  /\ rows'[t].status = "none" => rows'[t].left = 0
             /\ rows'[t].status # "none" \/ Doomed(t)' =>
                   \E r \in Requests : User(r, t)' /\ ~PutIn(queue', r)
  <2>1. \A r \in Requests : User(r, t) /\ ~PutIn(queue, r) => User(r, t)' /\ ~PutIn(queue', r)
    BY <1>4, <1>6
  <2>2. CASE ok /\ w.op = "put" /\ TraceOf[w.r] = t
    <3>1. w.r \in Requests /\ req[w.r] # "idle"
      BY <1>0, <1>1, <1>5, <2>2, WriteFacts DEF PutInv
    <3>2. rows'[t].status # "none"
      BY <1>2, <2>2 DEF Applied, ServeTypeOK
    <3>. QED
      BY <1>5, <1>6, <2>2, <3>1, <3>2 DEF User
  <2>3. CASE ~(ok /\ w.op = "put" /\ TraceOf[w.r] = t)
    <3>1. /\ rows'[t].status # "none" => rows[t].status # "none"
          /\ rows'[t].status = "none" => rows'[t].left = 0 \/ rows'[t] = rows[t]
      BY <1>1, <1>2, <2>3, WriteFacts, RequestsAssumption DEF Applied, NoRow, ServeTypeOK
    <3>. QED
      BY <1>0, <1>6, <2>1, <3>1 DEF RowInv
  <2>. QED
    BY <2>2, <2>3
<1>9. ASSUME NEW t \in Traces, Sole(t)
      PROVE  /\ Doomed(t)' => rows'[t].left = 0
             /\ \A r \in Requests : User(r, t) =>
                   /\ req'[r] = "put" => rows'[t].left = TTL /\ ~Doomed(t)'
                   /\ task'[r] = "running" => budget[r] < rows'[t].left /\ ~Doomed(t)'
                   /\ CompleteIn(queue', r) => 0 < rows'[t].left /\ ~Doomed(t)'
  <2>1. /\ rows[t].left \in 0..TTL
        /\ \A r \in Requests : budget[r] \in 0..RunBound
    BY DEF ServeTypeOK
  <2>2. CASE w.op = "put" /\ TraceOf[w.r] = t
    <3>1. w.r \in Requests /\ PutIn(queue, w.r) /\ req[w.r] \in {"putting", "refused"}
      BY <1>0, <1>1, <1>5, <2>2, WriteFacts DEF PutInv
    <3>2. \A r \in Requests : User(r, t) => r = w.r
      BY <1>9, <2>2, <3>1 DEF Sole, User
    <3>3. rows[t].status = "none" /\ ~Doomed(t)
      BY <1>0, <3>1, <3>2 DEF RowInv
    <3>4. ok => rows'[t].left = TTL
      BY <1>2, <2>2 DEF Applied, ServeTypeOK
    <3>5. task'[w.r] # "running" /\ ~CompleteIn(queue', w.r) /\ (~ok => req'[w.r] # "put")
      BY <1>0, <1>3, <1>4, <3>1 DEF PutInv, ServeTypeOK
    <3>. QED
      BY <1>6, <3>2, <3>3, <3>4, <3>5
  <2>3. CASE ok /\ w.op = "complete" /\ TraceOf[w.r] = t
    <3>1. w.r \in Requests /\ CompleteIn(queue, w.r)
      BY <1>1, <2>3, WriteFacts DEF CompleteIn
    <3>2. User(w.r, t)
      BY <1>0, <2>3, <3>1 DEF PutInv, User
    <3>3. 0 < rows[t].left /\ ~Doomed(t)
      BY <1>0, <1>9, <3>1, <3>2 DEF FreshInv
    <3>4. rows[t].status # "none"
      BY <1>0, <3>3 DEF RowInv
    <3>5. rows'[t].left = TTL
      BY <1>2, <2>3, <3>4 DEF Applied, ServeTypeOK
    <3>. QED
      BY <1>6, <2>1, <3>3, <3>5, TimeAssumption
  <2>4. CASE ok /\ w.op = "delete" /\ w.t = t
    <3>1. Doomed(t)
      BY <1>1, <2>4 DEF Doomed, DeleteIn
    <3>2. rows'[t].left = 0
      BY <1>2, <2>4 DEF Applied, NoRow, ServeTypeOK
    <3>3. \A r \in Requests : User(r, t) =>
             req[r] # "put" /\ task[r] # "running" /\ ~CompleteIn(queue, r)
      BY <1>0, <1>9, <3>1 DEF FreshInv
    <3>4. \A r \in Requests : User(r, t) => req'[r] # "put"
      <4>1. ASSUME NEW r \in Requests, User(r, t), req'[r] = "put"
            PROVE  FALSE
        BY <1>3, <2>4, <3>3, <4>1
      <4>. QED
        BY <4>1
    <3>. QED
      BY <1>3, <1>4, <3>2, <3>3, <3>4
  <2>5. CASE /\ ~(w.op = "put" /\ TraceOf[w.r] = t)
             /\ ~(ok /\ w.op = "complete" /\ TraceOf[w.r] = t)
             /\ ~(ok /\ w.op = "delete" /\ w.t = t)
    <3>1. rows'[t].left = rows[t].left
      BY <1>1, <1>2, <2>1, <2>5, WriteFacts, RequestsAssumption DEF Applied, NoRow, ServeTypeOK
    <3>2. \A r \in Requests : User(r, t) => req'[r] = req[r]
      BY <1>3, <2>5 DEF User
    <3>. QED
      BY <1>0, <1>3, <1>4, <1>6, <1>9, <3>1, <3>2 DEF FreshInv
  <2>. QED
    BY <2>2, <2>3, <2>4, <2>5
<1>10. RowInv' /\ FreshInv'
  <2>1. RowInv'
    BY <1>8 DEF RowInv
  <2>2. FreshInv'
    BY <1>0, <1>6, <1>9 DEF FreshInv
  <2>. QED
    BY <2>1, <2>2
<1>. QED
  BY <1>7, <1>10 DEF RowParts

-----------------------------------------------------------------------------
(* The theorems.                                                           *)

\* The rows' invariant at the start.
LEMMA RowPartsInit == ServeInit => RowParts
<1>. SUFFICES ASSUME ServeInit
              PROVE  RowParts
  OBVIOUS
<1>1. {r \in Requests : req[r] # "idle"} = {}
  BY DEF ServeInit
<1>2. /\ queue = <<>> /\ \A i \in 1..Len(queue) : FALSE
      /\ \A x : ~PutIn(queue, x) /\ ~CompleteIn(queue, x) /\ ~DeleteIn(queue, x)
  BY EmptyIn DEF ServeInit
<1>3. PutInv
  BY <1>1, <1>2, FS_EmptySet DEF PutInv, ServeInit
<1>4. RowInv /\ FreshInv
  BY <1>2, NoTraceAssumption DEF ServeInit, RowInv, FreshInv, Doomed, NoRow
<1>. QED
  BY <1>3, <1>4 DEF RowParts

\* Every step keeps the rows' invariant.
LEMMA RowPartsStep == ServeTypeOK /\ RowParts /\ [ServeNext]_serveVars => RowParts'
<1>. SUFFICES ASSUME ServeTypeOK, RowParts, [ServeNext]_serveVars
              PROVE  RowParts'
  OBVIOUS
<1>1. CASE ApplyWrite
  BY <1>1, ApplyStep
<1>2. ASSUME NEW r \in Requests, Put(r) \/ PutAbandoned(r) \/ HandlerStep(r)
      PROVE  RowParts'
  BY <1>2, PutStep, AbandonStep, AcknowledgeStep, RunEndsStep DEF HandlerStep
<1>3. ASSUME NEW t \in Traces, PollRead(t)
      PROVE  RowParts'
  BY <1>3, PollReadStep
<1>4. CASE PollDelete \/ Sweep
  BY <1>4, QueueDeletionStep
<1>5. CASE Tick
  BY <1>5, TickStep
<1>6. CASE Cleanup \/ ServeCrash
  BY <1>6, EndStep
<1>7. CASE \/ \E s \in Streams : Subscribe(s) \/ Forward(s) \/ Disconnect(s)
           \/ Signal \/ ListenerFails \/ ShutdownHTTP \/ StopGRPC \/ JoinTasks \/ Boot
           \/ UNCHANGED serveVars
  <2>1. UNCHANGED <<rows, queue, req, task, budget, poll>>
    BY <1>7 DEF Subscribe, Forward, Disconnect, Signal, ListenerFails, ShutdownHTTP, StopGRPC,
                JoinTasks, Boot, serveVars, tableVars, runVars
  <2>. QED
    BY <2>1, ElsewhereStep
<1>. QED
  BY <1>1, <1>2, <1>3, <1>4, <1>5, <1>6, <1>7 DEF ServeNext, StopStep

\* The type invariant: among others, a run exists only for a request that was
\* told 202.
THEOREM ServeTypeCorrect == ServeSpec => []ServeTypeOK
<1>. QED
  BY ServeTypeInit, ServeTypeStep, PTL DEF ServeSpec

\* The rows' invariant holds in every state.
LEMMA RowsAlways == ServeSpec => [](ServeTypeOK /\ RowParts)
<1>. QED
  BY ServeTypeInit, ServeTypeStep, RowPartsInit, RowPartsStep, PTL DEF ServeSpec

\* A row with time left is not deleted, unless its trace id was used for more
\* than one request: neither by the sweep nor by what a poll decided when it
\* read the row (GetAnswer's DELETE names the trace id only).
THEOREM AnswersStay == ServeSpec => FreshAnswersStay
<1>1. ASSUME ServeTypeOK, RowParts, [ServeNext]_serveVars
      PROVE  [\A t \in Traces :
                rows[t].left > 0 /\ rows'[t].status = "none" => Reused(t)]_serveVars
  <2>. SUFFICES ASSUME serveVars' # serveVars, NEW t \in Traces,
                       rows[t].left > 0, rows'[t].status = "none", ~Reused(t)
                PROVE  FALSE
    OBVIOUS
  <2>1. Sole(t) /\ ~Doomed(t) /\ rows[t].status # "none"
    <3>1. Sole(t)
      BY <1>1, NotReused DEF RowParts, PutInv
    <3>2. rows[t].left \in 0..TTL
      BY <1>1 DEF ServeTypeOK
    <3>. QED
      BY <1>1, <3>1, <3>2 DEF RowParts, RowInv, FreshInv
  <2>2. CASE ApplyWrite
    <3>1. Head(queue) = queue[1] /\ Head(queue) \in Writes /\ 1 \in 1..Len(queue)
      BY <1>1, <2>2, TailFacts DEF ApplyWrite, ServeTypeOK
    <3>2. ~(Head(queue).op = "delete" /\ Head(queue).t = t)
      BY <2>1, <3>1 DEF Doomed, DeleteIn
    <3>3. rows' = Applied(Head(queue))
      BY <2>1, <2>2 DEF ApplyWrite
    <3>4. rows'[t].status # "none"
      <4>1. \A u \in Traces : rows[u] \in [status : {"none", "pending", "done", "error"}, left : 0..TTL]
        BY <1>1 DEF ServeTypeOK
      <4>. rows \in [Traces -> [status : {"none", "pending", "done", "error"}, left : 0..TTL]]
        BY <1>1 DEF ServeTypeOK
      <4>2. CASE Head(queue).op = "put"
        BY <2>1, <3>3, <4>2 DEF Applied
      <4>5. CASE Head(queue).op = "complete"
        <5>1. Head(queue).status # "none"
          BY <3>1, <4>5, WriteFacts
        <5>. QED
          BY <2>1, <3>3, <4>5, <5>1 DEF Applied
      <4>3. CASE Head(queue).op = "delete"
        BY <1>1, <2>1, <3>1, <3>2, <3>3, <4>3, WriteFacts DEF Applied, ServeTypeOK
      <4>4. CASE Head(queue).op = "sweep"
        BY <2>1, <3>3, <4>1, <4>4 DEF Applied
      <4>. QED
        BY <3>1, <4>2, <4>3, <4>4, <4>5, WriteFacts
    <3>. QED
      BY <3>4
  <2>3. CASE Tick
    BY <1>1, <2>1, <2>3 DEF Tick, ServeTypeOK
  <2>4. CASE ~ApplyWrite /\ ~Tick
    <3>1. UNCHANGED rows
      BY <1>1, <2>4 DEF ServeNext, HandlerStep, StopStep, Put, PutAbandoned, Acknowledge, RunEnds, PollRead,
           PollDelete, Sweep, Subscribe, Forward, Disconnect, Signal, ListenerFails, ShutdownHTTP, StopGRPC,
           JoinTasks, Cleanup, ServeCrash, Boot, serveVars, tableVars
    <3>. QED
      BY <2>1, <3>1
  <2>. QED
    BY <2>2, <2>3, <2>4
<1>. QED
  BY <1>1, RowsAlways, PTL DEF ServeSpec, FreshAnswersStay

\* A stop that nothing cut short abandons no run that was promised: the stages
\* of the stop are in the right order, whatever requests race them.  What cuts
\* a stop short is a Shutdown or a join that gave up and a listener that failed.
THEOREM StopsLoseNothing == ServeSpec => StopLosesNothing
<1>1. ServeInit => StopInv
  BY DEF ServeInit, StopInv
<1>2. ServeSpec => [](ServeTypeOK /\ StopInv)
  BY <1>1, ServeTypeInit, ServeTypeStep, StopStepInv, PTL DEF ServeSpec
<1>3. ASSUME StopInv
      PROVE  Cleanup /\ cutShort = {} => \A r \in Requests : task'[r] = "lost" => task[r] = "lost"
  BY <1>3 DEF StopInv, Joined, Cleanup, ProcessEnds
<1>. QED
  BY <1>2, <1>3, PTL DEF ServeSpec, StopLosesNothing
==============================================================================
