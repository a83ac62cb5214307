------------------------------ MODULE LogProofs ------------------------------
(***************************************************************************)
(* Proofs about the log and what is read from it.                          *)
(*                                                                         *)
(* The rotated log and its watchdog, for any sizes, numbers of files,      *)
(* records, watches, workers and faults: a record that was acknowledged is *)
(* kept until newer files push it out, and a watch counts no record twice  *)
(* unless a rotation overtook one of its polls.                            *)
(*                                                                         *)
(* The reports and the forecasts, for any lines and logs of any length:    *)
(* the fit of ops_forecast is the least-squares line and its advice what   *)
(* the trend says, and the reports of analyze_log are exact about the      *)
(* newest lines.                                                           *)
(***************************************************************************)
EXTENDS LogWatch, Forecast, FiniteSetTheorems, TLAPS

-----------------------------------------------------------------------------
(* The log: the inductive invariant.                                        *)

\* The last record whose Write is over.
LastWritten == IF writing = "no" THEN written ELSE written - 1

\* The newest stamp that a rotated file can have.
LastStamp == IF writing = "rename" THEN written - 1 ELSE written

\* The records of a file.
In(k, file) == \E i \in 1..Len(file) : file[i] = k

Stages == {"no", "rename", "reopen", "prune", "append"}

\* Records stand in the active file in the order of their writes.
DiskInv ==
    /\ active \in Seq(Records)
    /\ writing \in Stages
    /\ written \in 0..MaxRecords
    /\ writing # "no" => written # 0
    /\ acked \subseteq 1..LastWritten
    /\ \A k \in Records : In(k, active) => k <= LastWritten
    /\ \A i, j \in 1..Len(active) : i < j => active[i] < active[j]

\* The record is in some file.
Holds(k) == In(k, active) \/ \E f \in 1..Len(rotated) : In(k, rotated[f].recs)

\* The KeepFiles newest of the rotated files are newer than the record.
PushedOut(r) ==
    /\ Len(rotated) >= KeepFiles
    /\ \A i \in (Len(rotated) - KeepFiles + 1)..Len(rotated) : r < rotated[i].stamp

\* The rotated files stand in the order of their rotations, each after all of
\* its records, and a pruning leaves the newest ones alone.
KeptInv ==
    /\ rotated \in Seq(Files) /\ skip \in Nat
    /\ writing = "prune" => skip + KeepFiles < Len(rotated)
    /\ writing \in {"no", "rename", "reopen"} => skip = 0
    /\ \A f \in 1..Len(rotated) :
          /\ rotated[f].stamp <= LastStamp
          /\ \A k \in Records : In(k, rotated[f].recs) => k < rotated[f].stamp
    /\ \A f, g \in 1..Len(rotated) : f < g => rotated[f].stamp < rotated[g].stamp
    /\ \A r \in acked : Holds(r) \/ PushedOut(r)

\* An open writer knows the size of its file, and what it is about to append
\* fits, is alone in the file or follows a rename that failed.
SizeInv ==
    /\ handle \in {"nil", "open", "closed"} /\ size \in Nat /\ bytes \in Nat
    /\ stuck \in BOOLEAN /\ faults \in 0..MaxFaults
    /\ writing \in {"reopen", "prune"} => bytes = 0
    /\ writing = "rename" => handle # "nil"
    /\ bytes = 0 => active = <<>>
    /\ handle # "nil" /\ writing # "reopen" => size = bytes
    /\ writing = "append" /\ handle = "open" =>
          stuck \/ bytes = 0 \/ bytes + Length[written] <= MaxBytes
    /\ CapIsKept

-----------------------------------------------------------------------------
(* Facts about files and their sequence.                                   *)

\* What an appended sequence holds.
LEMMA AppendFacts ==
  ASSUME NEW T, NEW s \in Seq(T), NEW e \in T
  PROVE  /\ Append(s, e) \in Seq(T)
         /\ Len(s) \in Nat
         /\ Len(Append(s, e)) = Len(s) + 1
         /\ \A k \in 1..Len(s) : Append(s, e)[k] = s[k]
         /\ Append(s, e)[Len(s) + 1] = e
  OBVIOUS

\* What a concatenation holds.
LEMMA ConcatFacts ==
  ASSUME NEW T, NEW a \in Seq(T), NEW b \in Seq(T)
  PROVE  /\ a \o b \in Seq(T)
         /\ Len(a) \in Nat /\ Len(b) \in Nat /\ Len(a \o b) = Len(a) + Len(b)
         /\ \A k \in 1..(Len(a) + Len(b)) :
               (a \o b)[k] = IF k <= Len(a) THEN a[k] ELSE b[k - Len(a)]
  OBVIOUS

\* What is left when an element is taken out.
LEMMA RemoveFacts ==
  ASSUME NEW T, NEW s \in Seq(T), NEW i \in 1..Len(s)
  PROVE  /\ RemoveAt(s, i) \in Seq(T)
         /\ Len(s) \in Nat
         /\ Len(RemoveAt(s, i)) = Len(s) - 1
         /\ \A k \in 1..(Len(s) - 1) : RemoveAt(s, i)[k] = IF k < i THEN s[k] ELSE s[k + 1]
<1>. DEFINE n == Len(s)
            a == SubSeq(s, 1, i - 1)
            b == SubSeq(s, i + 1, n)
<1>1. n \in Nat /\ i \in Nat /\ i >= 1 /\ i <= n
  OBVIOUS
<1>2. /\ a \in Seq(T) /\ Len(a) = i - 1
      /\ \A k \in 1..(i - 1) : a[k] = s[k]
  BY <1>1
<1>3. /\ b \in Seq(T) /\ Len(b) = n - i
      /\ \A k \in 1..(n - i) : b[k] = s[i + k]
  BY <1>1
<1>4. RemoveAt(s, i) = a \o b
  BY DEF RemoveAt
<1>. HIDE DEF a, b
<1>5. /\ a \o b \in Seq(T) /\ Len(a \o b) = (i - 1) + (n - i)
      /\ \A k \in 1..((i - 1) + (n - i)) : (a \o b)[k] = IF k <= i - 1 THEN a[k] ELSE b[k - (i - 1)]
  <2>1. /\ a \o b \in Seq(T) /\ Len(a \o b) = Len(a) + Len(b)
        /\ \A k \in 1..(Len(a) + Len(b)) :
              (a \o b)[k] = IF k <= Len(a) THEN a[k] ELSE b[k - Len(a)]
    BY <1>2, <1>3, ConcatFacts
  <2>. QED
    BY <1>2, <1>3, <2>1
<1>6. ASSUME NEW k \in 1..(n - 1)
      PROVE  (a \o b)[k] = IF k < i THEN s[k] ELSE s[k + 1]
  <2>1. k \in 1..((i - 1) + (n - i))
    BY <1>1
  <2>2. CASE k < i
    <3>1. k <= i - 1 /\ k \in 1..(i - 1)
      BY <1>1, <2>2
    <3>. QED
      BY <1>2, <1>5, <2>1, <2>2, <3>1
  <2>3. CASE ~(k < i)
    <3>1. ~(k <= i - 1) /\ k - (i - 1) \in 1..(n - i) /\ i + (k - (i - 1)) = k + 1
      BY <1>1, <2>3
    <3>. QED
      BY <1>3, <1>5, <2>1, <2>3, <3>1
  <2>. QED
    BY <2>2, <2>3
<1>7. (i - 1) + (n - i) = n - 1
  BY <1>1
<1>. QED
  BY <1>1, <1>4, <1>5, <1>6, <1>7

\* The records of a file after a write.
LEMMA InAppend ==
  ASSUME NEW s \in Seq(Records), NEW e \in Records
  PROVE  \A k : In(k, Append(s, e)) <=> In(k, s) \/ k = e
<1>. DEFINE t == Append(s, e)
            n == Len(s)
<1>1. /\ n \in Nat /\ Len(t) = n + 1
      /\ \A k \in 1..n : t[k] = s[k]
      /\ t[n + 1] = e
  BY AppendFacts
<1>. HIDE DEF t
<1>2. ASSUME NEW k, In(k, t)
      PROVE  In(k, s) \/ k = e
  <2>1. PICK i \in 1..Len(t) : t[i] = k
    BY <1>2 DEF In
  <2>2. i \in 1..n \/ i = n + 1
    BY <1>1, <2>1
  <2>. QED
    BY <1>1, <2>1, <2>2 DEF In
<1>3. ASSUME NEW k, In(k, s)
      PROVE  In(k, t)
  <2>1. PICK i \in 1..n : s[i] = k
    BY <1>3 DEF In
  <2>2. i \in 1..Len(t) /\ t[i] = k
    BY <1>1, <2>1
  <2>. QED
    BY <2>2 DEF In
<1>4. In(e, t)
  <2>1. n + 1 \in 1..Len(t)
    BY <1>1
  <2>. QED
    BY <1>1, <2>1 DEF In
<1>. QED
  BY <1>2, <1>3, <1>4 DEF t

\* What is on disk, file by file.
LEMMA OnDiskFacts ==
  ASSUME active \in Seq(Records), rotated \in Seq(Files)
  PROVE  \A k : k \in OnDisk <=> Holds(k)
<1>1. ASSUME NEW s \in Seq(Records)
      PROVE  \A k : k \in ToSet(s) <=> In(k, s)
  <2>1. DOMAIN s = 1..Len(s)
    OBVIOUS
  <2>. QED
    BY <2>1 DEF ToSet, In
<1>2. \A k : k \in ToSet(active) <=> In(k, active)
  BY <1>1
<1>3. \A f \in 1..Len(rotated) : \A k : k \in ToSet(rotated[f].recs) <=> In(k, rotated[f].recs)
  <2>1. \A f \in 1..Len(rotated) : rotated[f] \in Files
    OBVIOUS
  <2>2. \A f \in 1..Len(rotated) : rotated[f].recs \in Seq(Records)
    BY <2>1 DEF Files
  <2>. QED
    BY <1>1, <2>2
<1>4. \A k : k \in OnDisk <=>
          k \in ToSet(active) \/ \E f \in 1..Len(rotated) : k \in ToSet(rotated[f].recs)
  BY DEF OnDisk
<1>. QED
  BY <1>2, <1>3, <1>4 DEF Holds

-----------------------------------------------------------------------------
(* The writer's steps keep the log.                                        *)

\* The last finished record is a number.
LEMMA LastWrittenFacts ==
  ASSUME DiskInv
  PROVE  /\ LastWritten \in 0..MaxRecords /\ MaxRecords \in Nat /\ written \in 0..MaxRecords
         /\ LastWritten \in Nat /\ written \in Nat /\ LastWritten <= written
         /\ writing = "no" => LastWritten = written
         /\ writing # "no" => LastWritten = written - 1 /\ written \in Records /\ LastWritten < written
BY SizesAssumption DEF DiskInv, LastWritten, Records, Stages

\* A step that leaves the active file alone.
LEMMA DiskStays ==
  ASSUME DiskInv, UNCHANGED <<active, acked>>,
         writing' \in Stages, written' \in 0..MaxRecords, writing' # "no" => written' # 0,
         LastWritten' \in Nat, LastWritten <= LastWritten'
  PROVE  DiskInv'
<1>1. LastWritten \in Nat
  BY LastWrittenFacts
<1>2. \A k \in Records : k \in Nat /\ (k <= LastWritten => k <= LastWritten')
  BY <1>1 DEF Records
<1>3. acked' \subseteq 1..LastWritten'
  <2>1. \A k \in 1..LastWritten : k \in 1..LastWritten'
    BY <1>1
  <2>. QED
    BY <2>1 DEF DiskInv
<1>. QED
  BY <1>2, <1>3 DEF DiskInv

\* The stamps are numbers.
LEMMA StampType ==
  ASSUME rotated \in Seq(Files)
  PROVE  /\ Len(rotated) \in Nat
         /\ \A f \in 1..Len(rotated) : /\ rotated[f] \in Files /\ rotated[f].stamp \in Nat
                                       /\ rotated[f].recs \in Seq(Records)
<1>1. Len(rotated) \in Nat /\ \A f \in 1..Len(rotated) : rotated[f] \in Files
  OBVIOUS
<1>. QED
  BY <1>1 DEF Files, Records

\* A step that leaves all files alone.
LEMMA KeptStays ==
  ASSUME KeptInv, UNCHANGED <<active, rotated, acked>>,
         skip' \in Nat, writing' \in {"no", "rename", "reopen"} => skip' = 0,
         writing' = "prune" => writing = "prune" /\ skip' = skip,
         LastStamp \in Int, LastStamp' \in Int, LastStamp <= LastStamp'
  PROVE  KeptInv'
<1>1. \A f \in 1..Len(rotated) : rotated[f].stamp <= LastStamp'
  BY StampType DEF KeptInv
<1>2. \A r \in acked : Holds(r)' \/ PushedOut(r)'
  BY DEF KeptInv, Holds, PushedOut
<1>. QED
  BY <1>1, <1>2 DEF KeptInv

\* Write, up to the rotation.
LEMMA BeginLog ==
  ASSUME DiskInv, KeptInv, SizeInv, WriteBegin
  PROVE  DiskInv' /\ KeptInv' /\ SizeInv' /\ UNCHANGED <<active, rotated>> /\ LastWritten <= LastWritten'
<1>. DEFINE opened == IF handle = "nil" THEN bytes ELSE size
<1>1. /\ UNCHANGED <<active, bytes, rotated, stuck, skip, acked>>
      /\ written' = written + 1 /\ written < MaxRecords /\ writing = "no"
      /\ \/ /\ size' = opened
            /\ writing' = IF TooLarge(opened) THEN "rename" ELSE "append"
            /\ handle' = IF TooLarge(opened) THEN "closed"
                         ELSE IF handle = "nil" THEN "open" ELSE handle
            /\ UNCHANGED faults
         \/ handle = "nil" /\ Fault /\ UNCHANGED <<handle, size, writing>>
  BY DEF WriteBegin
<1>2. /\ LastWritten = written /\ written \in Nat /\ written' \in 0..MaxRecords /\ written' # 0
      /\ written' \in Records
  BY <1>1, LastWrittenFacts DEF Records
<1>3. writing' \in {"no", "rename", "append"}
  BY <1>1
<1>4. LastWritten' \in Nat /\ LastWritten <= LastWritten'
  BY <1>1, <1>2 DEF LastWritten
<1>5. DiskInv'
  BY <1>1, <1>2, <1>3, <1>4, DiskStays DEF Stages
<1>6. KeptInv'
  <2>1. LastStamp = written /\ LastStamp' \in Int /\ LastStamp <= LastStamp'
    BY <1>1, <1>2 DEF LastStamp
  <2>2. skip' = 0
    BY <1>1 DEF KeptInv
  <2>. QED
    BY <1>1, <1>2, <1>3, <2>1, <2>2, KeptStays
<1>7. SizeInv'
  <2>1. opened = bytes /\ bytes \in Nat /\ Length[written'] \in Nat
    BY <1>1, <1>2, LengthAssumption DEF SizeInv
  <2>2. CapIsKept'
    BY <1>1 DEF SizeInv, CapIsKept
  <2>3. CASE /\ size' = opened
             /\ writing' = IF TooLarge(opened) THEN "rename" ELSE "append"
             /\ handle' = IF TooLarge(opened) THEN "closed"
                          ELSE IF handle = "nil" THEN "open" ELSE handle
             /\ UNCHANGED faults
    <3>. HIDE DEF opened
    <3>1. CASE TooLarge(opened)
      BY <1>1, <2>1, <2>2, <2>3, <3>1 DEF SizeInv
    <3>2. CASE ~TooLarge(opened)
      <4>1. bytes + Length[written'] <= MaxBytes
        BY <1>1, <2>1, <3>2, SizesAssumption DEF TooLarge
      <4>. QED
        BY <1>1, <2>1, <2>2, <2>3, <3>2, <4>1 DEF SizeInv
    <3>. QED
      BY <3>1, <3>2
  <2>4. CASE handle = "nil" /\ Fault /\ UNCHANGED <<handle, size, writing>>
    <3>1. faults' \in 0..MaxFaults
      BY <2>4, FaultsAssumption DEF Fault, SizeInv
    <3>. QED
      BY <1>1, <2>2, <2>4, <3>1 DEF SizeInv
  <2>. QED
    BY <1>1, <2>3, <2>4
<1>. QED
  BY <1>1, <1>4, <1>5, <1>6, <1>7

\* The rename: the active file is the newest of the rotated ones.
LEMMA RenameLog ==
  ASSUME DiskInv, KeptInv, SizeInv, Rename
  PROVE  /\ DiskInv' /\ KeptInv' /\ SizeInv' /\ LastWritten' = LastWritten
         /\ \/ UNCHANGED <<active, rotated>>
            \/ active' = <<>> /\ Len(rotated') = Len(rotated) + 1
<1>1. /\ writing = "rename" /\ UNCHANGED <<size, skip, written, acked>>
      /\ writing' \in {"reopen", "append"}
      /\ skip = 0
  BY DEF Rename, KeptInv
<1>2. /\ LastWritten' = LastWritten /\ LastWritten = written - 1 /\ LastWritten \in Nat
      /\ written \in Nat /\ written # 0 /\ written \in Records
      /\ LastStamp = written - 1 /\ LastStamp' = written
  BY <1>1, LastWrittenFacts DEF LastWritten, DiskInv, LastStamp
<1>3. CASE /\ rotated' = Append(rotated, [stamp |-> written, recs |-> active])
           /\ active' = <<>> /\ bytes' = 0 /\ stuck' = FALSE
           /\ writing' = "reopen"
           /\ UNCHANGED <<handle, faults>>
  <2>. DEFINE n == Len(rotated)
              e == [stamp |-> written, recs |-> active]
  <2>1. active \in Seq(Records) /\ rotated \in Seq(Files) /\ e \in Files
    BY <1>2 DEF DiskInv, KeptInv, Files
  <2>2. e.stamp = written /\ e.recs = active
    OBVIOUS
  <2>. HIDE DEF e
  <2>3. /\ rotated' \in Seq(Files) /\ n \in Nat /\ Len(rotated') = n + 1
        /\ \A f \in 1..n : rotated'[f] = rotated[f]
        /\ rotated'[n + 1] = e
    <3>1. rotated' = Append(rotated, e)
      BY <1>3 DEF e
    <3>. QED
      BY <2>1, <3>1, AppendFacts
  <2>4. active' \in Seq(Records) /\ Len(active') = 0 /\ \A k : ~In(k, active')
    <3>1. active' \in Seq(Records) /\ Len(active') = 0
      BY <1>3
    <3>. QED
      BY <3>1 DEF In
  <2>. HIDE DEF n
  <2>5. \A f \in 1..Len(rotated') : f \in 1..n \/ f = n + 1
    BY <2>3
  <2>6. \A k : Holds(k) => Holds(k)'
    <3>1. ASSUME NEW k, Holds(k)
          PROVE  Holds(k)'
      <4>1. CASE In(k, active)
        <5>1. n + 1 \in 1..Len(rotated') /\ In(k, rotated'[n + 1].recs)
          BY <2>2, <2>3, <4>1
        <5>. QED
          BY <5>1 DEF Holds
      <4>2. ASSUME NEW f \in 1..n, In(k, rotated[f].recs)
            PROVE  Holds(k)'
        <5>1. f \in 1..Len(rotated') /\ In(k, rotated'[f].recs)
          BY <2>3, <4>2
        <5>. QED
          BY <5>1 DEF Holds
      <4>. QED
        BY <3>1, <4>1, <4>2 DEF Holds, n
    <3>. QED
      BY <3>1
  <2>7. /\ \A f \in 1..n : rotated[f].stamp \in Nat /\ rotated[f].stamp <= written - 1
        /\ \A f \in 1..n : \A k \in Records : In(k, rotated[f].recs) => k < rotated[f].stamp
        /\ \A f, g \in 1..n : f < g => rotated[f].stamp < rotated[g].stamp
    BY <1>2, <2>1, StampType DEF KeptInv, n
  <2>8. DiskInv'
    <3>1. \A i, j \in 1..Len(active') : i < j => active'[i] < active'[j]
      BY <2>4
    <3>2. acked' \subseteq 1..LastWritten' /\ written' \in 0..MaxRecords /\ written' # 0
      BY <1>1, <1>2 DEF DiskInv
    <3>. QED
      BY <1>2, <1>3, <2>4, <3>1, <3>2 DEF DiskInv, Stages
  <2>9. KeptInv'
    <3>1. ASSUME NEW f \in 1..Len(rotated')
          PROVE  /\ rotated'[f].stamp <= LastStamp'
                 /\ \A k \in Records : In(k, rotated'[f].recs) => k < rotated'[f].stamp
      <4>1. CASE f \in 1..n
        <5>1. rotated'[f] = rotated[f] /\ rotated[f].stamp \in Nat /\ rotated[f].stamp <= written - 1
          BY <2>3, <2>7, <4>1
        <5>2. rotated[f].stamp <= LastStamp'
          BY <1>2, <5>1
        <5>3. \A k \in Records : In(k, rotated[f].recs) => k < rotated[f].stamp
          BY <2>7, <4>1
        <5>. QED
          BY <5>1, <5>2, <5>3
      <4>2. CASE f = n + 1
        <5>1. \A k \in Records : k \in Nat /\ (In(k, active) => k <= written - 1)
          BY <1>2 DEF DiskInv, Records
        <5>2. \A k \in Records : In(k, active) => k < written
          BY <1>2, <5>1
        <5>. QED
          BY <1>2, <2>2, <2>3, <4>2, <5>2
      <4>. QED
        BY <2>5, <4>1, <4>2
    <3>2. ASSUME NEW f \in 1..Len(rotated'), NEW g \in 1..Len(rotated'), f < g
          PROVE  rotated'[f].stamp < rotated'[g].stamp
      <4>1. f \in 1..n
        BY <2>3, <2>5, <3>2
      <4>2. CASE g \in 1..n
        BY <2>3, <2>7, <3>2, <4>1, <4>2
      <4>3. CASE g = n + 1
        <5>1. rotated'[g].stamp = written /\ rotated'[f].stamp = rotated[f].stamp
          BY <2>2, <2>3, <4>1, <4>3
        <5>. QED
          BY <1>2, <2>7, <4>1, <5>1
      <4>. QED
        BY <2>5, <4>2, <4>3
    <3>3. ASSUME NEW r \in acked, PushedOut(r)
          PROVE  PushedOut(r)'
      <4>1. KeepFiles \in Nat /\ n >= KeepFiles /\ r \in Nat /\ r < written
        <5>1. r \in 1..LastWritten
          BY DEF DiskInv
        <5>. QED
          BY <1>2, <3>3, <5>1, SizesAssumption DEF PushedOut, n
      <4>2. ASSUME NEW i \in (Len(rotated') - KeepFiles + 1)..Len(rotated')
            PROVE  r < rotated'[i].stamp
        <5>1. i = n + 1 \/ (i \in 1..n /\ i \in (n - KeepFiles + 1)..n)
          BY <2>3, <4>1, <4>2
        <5>2. CASE i = n + 1
          BY <2>2, <2>3, <4>1, <5>2
        <5>3. CASE i \in 1..n /\ i \in (n - KeepFiles + 1)..n
          BY <2>3, <3>3, <5>3 DEF PushedOut, n
        <5>. QED
          BY <5>1, <5>2, <5>3
      <4>. QED
        BY <2>3, <4>1, <4>2 DEF PushedOut
    <3>4. \A r \in acked' : Holds(r)' \/ PushedOut(r)'
      BY <1>1, <2>6, <3>3 DEF KeptInv
    <3>. QED
      BY <1>1, <1>3, <2>3, <3>1, <3>2, <3>4 DEF KeptInv
  <2>10. SizeInv'
    <3>1. CapIsKept'
      BY <1>3, SizesAssumption DEF CapIsKept
    <3>. QED
      BY <1>1, <1>3, <3>1 DEF SizeInv
  <2>. QED
    BY <1>2, <1>3, <2>3, <2>8, <2>9, <2>10 DEF n
<1>4. CASE /\ Fault
           /\ stuck' = TRUE
           /\ handle' \in {"open", "closed"}
           /\ writing' = "append"
           /\ UNCHANGED <<active, bytes, rotated>>
  <2>1. DiskInv'
    <3>1. written' \in 0..MaxRecords /\ LastWritten <= LastWritten'
      BY <1>1, <1>2 DEF DiskInv
    <3>. QED
      BY <1>1, <1>2, <1>4, <3>1, DiskStays DEF Stages
  <2>2. KeptInv'
    BY <1>1, <1>2, <1>4, KeptStays
  <2>3. faults' \in 0..MaxFaults
    BY <1>4, FaultsAssumption DEF Fault, SizeInv
  <2>4. SizeInv'
    BY <1>1, <1>4, <2>3 DEF SizeInv, CapIsKept
  <2>. QED
    BY <1>2, <1>4, <2>1, <2>2, <2>4
<1>. QED
  BY <1>3, <1>4 DEF Rename

\* The new file.
LEMMA ReopenLog ==
  ASSUME DiskInv, KeptInv, SizeInv, Reopen
  PROVE  DiskInv' /\ KeptInv' /\ SizeInv' /\ LastWritten' = LastWritten
         /\ UNCHANGED <<active, rotated>>
<1>1. /\ writing = "reopen" /\ writing' \in {"prune", "append"} /\ size' = 0
      /\ writing' = "prune" => Len(rotated) > KeepFiles
      /\ UNCHANGED <<active, bytes, rotated, stuck, skip, written, acked>>
      /\ skip = 0 /\ bytes = 0 /\ handle' \in {"open", "nil"}
      /\ UNCHANGED faults \/ Fault
  BY DEF Reopen, SizeInv, KeptInv
<1>2. /\ LastWritten' = LastWritten /\ LastWritten \in Nat /\ written # 0 /\ written \in Nat
      /\ LastStamp = written /\ LastStamp' = written
  BY <1>1, LastWrittenFacts DEF LastWritten, DiskInv, LastStamp
<1>3. DiskInv'
  <2>1. written' \in 0..MaxRecords /\ LastWritten <= LastWritten'
    BY <1>1, <1>2 DEF DiskInv
  <2>. QED
    BY <1>1, <1>2, <2>1, DiskStays DEF Stages
<1>4. KeptInv'
  <2>1. skip' + KeepFiles < Len(rotated') \/ writing' # "prune"
    BY <1>1, StampType, SizesAssumption DEF KeptInv
  <2>2. \A r \in acked : Holds(r)' \/ PushedOut(r)'
    BY <1>1 DEF KeptInv, Holds, PushedOut
  <2>. QED
    BY <1>1, <1>2, <2>1, <2>2 DEF KeptInv
<1>5. SizeInv'
  <2>1. faults' \in 0..MaxFaults
    BY <1>1, FaultsAssumption DEF Fault, SizeInv
  <2>2. CapIsKept'
    BY <1>1 DEF SizeInv, CapIsKept
  <2>. QED
    BY <1>1, <2>1, <2>2 DEF SizeInv
<1>. QED
  BY <1>1, <1>2, <1>3, <1>4, <1>5

\* The pruning: what goes is older than the newest KeepFiles, which stay.
LEMMA PruneLog ==
  ASSUME DiskInv, KeptInv, SizeInv, Prune
  PROVE  DiskInv' /\ KeptInv' /\ SizeInv' /\ LastWritten' = LastWritten
         /\ UNCHANGED active /\ Len(rotated') <= Len(rotated)
<1>. DEFINE n == Len(rotated)
            m == Len(rotated')
<1>1. /\ writing = "prune"
      /\ writing' = IF m > KeepFiles + skip' THEN "prune" ELSE "append"
      /\ UNCHANGED <<active, bytes, stuck, handle, size, written, acked>>
  BY DEF Prune
<1>2. /\ LastWritten' = LastWritten /\ LastWritten \in Nat /\ written # 0 /\ written \in Nat
      /\ LastStamp = written /\ LastStamp' = written
      /\ writing' \in {"prune", "append"}
  BY <1>1, LastWrittenFacts DEF LastWritten, DiskInv, LastStamp
<1>3. /\ rotated \in Seq(Files) /\ n \in Nat /\ skip \in Nat /\ KeepFiles \in Nat
      /\ skip + KeepFiles < n
      /\ \A f \in 1..n : rotated[f].stamp \in Nat
  BY <1>1, StampType, SizesAssumption DEF KeptInv
<1>4. DiskInv'
  <2>1. written' \in 0..MaxRecords /\ LastWritten <= LastWritten'
    BY <1>1, <1>2 DEF DiskInv
  <2>. QED
    BY <1>1, <1>2, <2>1, DiskStays DEF Stages
<1>5. SizeInv'
  <2>1. UNCHANGED faults \/ Fault
    BY DEF Prune
  <2>2. faults' \in 0..MaxFaults
    BY <2>1, FaultsAssumption DEF Fault, SizeInv
  <2>3. CapIsKept'
    BY <1>1 DEF SizeInv, CapIsKept
  <2>4. bytes = 0
    BY <1>1 DEF SizeInv
  <2>. QED
    BY <1>1, <1>2, <2>2, <2>3, <2>4 DEF SizeInv
<1>6. CASE Fault /\ skip' = skip + 1 /\ UNCHANGED rotated
  <2>1. skip' \in Nat /\ (writing' = "prune" => skip' + KeepFiles < m)
    BY <1>1, <1>3, <1>6
  <2>2. \A r \in acked : Holds(r)' \/ PushedOut(r)'
    BY <1>1, <1>6 DEF KeptInv, Holds, PushedOut
  <2>3. KeptInv'
    BY <1>1, <1>2, <1>6, <2>1, <2>2 DEF KeptInv
  <2>. QED
    BY <1>1, <1>2, <1>3, <1>4, <1>5, <1>6, <2>3
<1>7. CASE rotated' = RemoveAt(rotated, Victim) /\ UNCHANGED skip
  <2>. DEFINE v == skip + 1
              Old(f) == IF f < v THEN f ELSE f + 1
  <2>1. v \in 1..n /\ v \in Nat /\ v + KeepFiles <= n
    BY <1>3
  <2>2. /\ rotated' \in Seq(Files) /\ m = n - 1
        /\ \A f \in 1..(n - 1) : rotated'[f] = IF f < v THEN rotated[f] ELSE rotated[f + 1]
    <3>1. rotated' = RemoveAt(rotated, v)
      BY <1>7 DEF Victim
    <3>. HIDE DEF v
    <3>. QED
      BY <1>3, <2>1, <3>1, RemoveFacts
  <2>. HIDE DEF n, m, v
  <2>3. /\ \A f \in 1..m : Old(f) \in 1..n /\ rotated'[f] = rotated[Old(f)]
        /\ \A f, g \in 1..m : f < g => Old(f) < Old(g)
    BY <1>3, <2>1, <2>2
  <2>4. \A f \in 1..n : \/ f < v /\ f \in 1..m /\ Old(f) = f
                        \/ f = v
                        \/ f > v /\ f - 1 \in 1..m /\ Old(f - 1) = f
    BY <1>3, <2>1, <2>2
  <2>5. \A i \in (m - KeepFiles + 1)..m : i \in 1..m /\ Old(i) = i + 1 /\ i + 1 \in (n - KeepFiles + 1)..n
    BY <1>3, <2>1, <2>2
  <2>6. m >= KeepFiles /\ m \in Nat /\ m <= n
    BY <1>3, <2>1, <2>2
  <2>. HIDE DEF Old
  <2>7. writing' = "prune" => skip' + KeepFiles < m
    BY <1>1, <1>3, <1>7, <2>6 DEF m
  <2>8. ASSUME NEW f \in 1..m
        PROVE  /\ rotated'[f].stamp <= LastStamp'
               /\ \A k \in Records : In(k, rotated'[f].recs) => k < rotated'[f].stamp
    <3>1. Old(f) \in 1..n /\ rotated'[f] = rotated[Old(f)]
      BY <2>3
    <3>. QED
      BY <1>2, <3>1 DEF KeptInv, n
  <2>9. ASSUME NEW f \in 1..m, NEW g \in 1..m, f < g
        PROVE  rotated'[f].stamp < rotated'[g].stamp
    <3>1. /\ Old(f) \in 1..n /\ rotated'[f] = rotated[Old(f)]
          /\ Old(g) \in 1..n /\ rotated'[g] = rotated[Old(g)] /\ Old(f) < Old(g)
      BY <2>3, <2>9
    <3>. QED
      BY <3>1 DEF KeptInv, n
  <2>10. ASSUME NEW r \in acked, ~Holds(r)'
         PROVE  PushedOut(r)'
    <3>1. r \in Nat /\ r \in Records
      <4>1. r \in 1..LastWritten
        BY DEF DiskInv
      <4>2. \A k \in 1..LastWritten : k \in Nat /\ k \in 1..MaxRecords
        BY LastWrittenFacts
      <4>. QED
        BY <4>1, <4>2 DEF Records
    <3>2. CASE Holds(r)
      <4>1. ~In(r, active)
        BY <1>1, <2>10 DEF Holds
      <4>2. PICK f \in 1..n : In(r, rotated[f].recs)
        BY <3>2, <4>1 DEF Holds, n
      <4>3. f = v
        <5>1. \A g \in 1..m : Old(g) # f
          BY <2>3, <2>10, <4>2 DEF Holds, m
        <5>. QED
          BY <2>4, <5>1
      <4>4. r < rotated[v].stamp
        BY <3>1, <4>2, <4>3 DEF KeptInv, n
      <4>5. ASSUME NEW i \in (m - KeepFiles + 1)..m
            PROVE  r < rotated'[i].stamp
        <5>1. i \in 1..m /\ rotated'[i] = rotated[i + 1] /\ i + 1 \in 1..n /\ v < i + 1
          <6>1. i \in 1..m /\ Old(i) = i + 1
            BY <2>5
          <6>2. rotated'[i] = rotated[i + 1] /\ i + 1 \in 1..n
            BY <2>3, <6>1
          <6>3. v < i + 1
            BY <1>3, <2>1, <2>2, <4>5, <6>1
          <6>. QED
            BY <6>1, <6>2, <6>3
        <5>2. rotated[v].stamp < rotated[i + 1].stamp
          BY <2>1, <5>1 DEF KeptInv, n
        <5>3. rotated[v].stamp \in Nat /\ rotated[i + 1].stamp \in Nat
          BY <1>3, <2>1, <5>1
        <5>. QED
          BY <3>1, <4>4, <5>1, <5>2, <5>3
      <4>. QED
        BY <2>6, <4>5 DEF PushedOut, m
    <3>3. CASE ~Holds(r)
      <4>1. \A i \in (n - KeepFiles + 1)..n : r < rotated[i].stamp
        BY <3>3 DEF KeptInv, PushedOut, n
      <4>2. \A i \in (m - KeepFiles + 1)..m : r < rotated'[i].stamp
        BY <2>3, <2>5, <4>1
      <4>. QED
        BY <2>6, <4>2 DEF PushedOut, m
    <3>. QED
      BY <3>2, <3>3
  <2>11. KeptInv'
    <3>1. skip' \in Nat /\ writing' \notin {"no", "rename", "reopen"}
      BY <1>2, <1>3, <1>7
    <3>2. \A r \in acked' : Holds(r)' \/ PushedOut(r)'
      BY <1>1, <2>10
    <3>. QED
      BY <2>2, <2>7, <2>8, <2>9, <3>1, <3>2 DEF KeptInv, m
  <2>. QED
    BY <1>1, <1>2, <1>4, <1>5, <2>6, <2>11 DEF n, m
<1>. QED
  BY <1>6, <1>7 DEF Prune

\* The write itself: the record is larger than all that are on disk.
LEMMA AppendLog ==
  ASSUME DiskInv, KeptInv, SizeInv, AppendRecord
  PROVE  /\ DiskInv' /\ KeptInv' /\ SizeInv' /\ LastWritten <= LastWritten' /\ UNCHANGED rotated
         /\ \/ UNCHANGED active
            \/ active' = Append(active, written) /\ written \in Records /\ LastWritten < written
<1>1. /\ writing = "append" /\ writing' = "no" /\ skip' = 0
      /\ UNCHANGED <<rotated, stuck, handle, written>>
  BY DEF AppendRecord
<1>2. /\ LastWritten = written - 1 /\ LastWritten \in Nat /\ written \in Records /\ written \in Nat
      /\ LastStamp = written /\ LastStamp' = written
  BY <1>1, LastWrittenFacts DEF LastStamp
<1>3. LastWritten' = written /\ LastWritten' \in Nat /\ LastWritten <= LastWritten' /\ LastWritten < written
  BY <1>1, <1>2 DEF LastWritten
<1>4. Length[written] \in Nat /\ Length[written] > 0
  BY <1>2, LengthAssumption
<1>5. ASSUME UNCHANGED <<active, acked>>
      PROVE  DiskInv' /\ KeptInv'
  <2>1. DiskInv'
    <3>1. written' \in 0..MaxRecords
      BY <1>1 DEF DiskInv
    <3>. QED
      BY <1>1, <1>3, <1>5, <3>1, DiskStays DEF Stages
  <2>2. KeptInv'
    BY <1>1, <1>2, <1>5, KeptStays
  <2>. QED
    BY <2>1, <2>2
<1>6. CASE handle # "open" /\ UNCHANGED <<active, bytes, size, acked, faults>>
  <2>1. CapIsKept'
    BY <1>1, <1>6 DEF SizeInv, CapIsKept
  <2>2. SizeInv'
    BY <1>1, <1>6, <2>1 DEF SizeInv
  <2>. QED
    BY <1>1, <1>3, <1>5, <1>6, <2>2
<1>7. CASE /\ handle = "open" /\ Fault
           /\ \E n \in 0..(Length[written] - 1) : bytes' = bytes + n /\ size' = size + n
           /\ UNCHANGED <<active, acked>>
  <2>1. PICK n \in 0..(Length[written] - 1) : bytes' = bytes + n /\ size' = size + n
    BY <1>7
  <2>2. n \in Nat /\ n <= Length[written] /\ bytes \in Nat /\ size = bytes
    BY <1>1, <1>4, <1>7 DEF SizeInv
  <2>3. CapIsKept'
    <3>1. stuck \/ bytes = 0 \/ bytes + Length[written] <= MaxBytes
      BY <1>1, <1>7 DEF SizeInv
    <3>2. CASE stuck
      BY <1>1, <3>2 DEF CapIsKept
    <3>3. CASE bytes = 0
      <4>1. active' = <<>>
        BY <1>7, <3>3 DEF SizeInv
      <4>2. Len(active') = 0 /\ bytes' <= Length[written]
        BY <2>1, <2>2, <3>3, <4>1
      <4>. QED
        BY <1>2, <4>2 DEF CapIsKept
    <3>4. CASE bytes + Length[written] <= MaxBytes
      <4>1. bytes' <= MaxBytes
        BY <1>4, <2>1, <2>2, <3>4, SizesAssumption
      <4>. QED
        BY <4>1 DEF CapIsKept
    <3>. QED
      BY <3>1, <3>2, <3>3, <3>4
  <2>4. faults' \in 0..MaxFaults
    BY <1>7, FaultsAssumption DEF Fault, SizeInv
  <2>5. bytes' \in Nat /\ size' = bytes' /\ (bytes' = 0 => bytes = 0)
    BY <2>1, <2>2
  <2>6. SizeInv'
    BY <1>1, <1>7, <2>3, <2>4, <2>5 DEF SizeInv
  <2>. QED
    BY <1>1, <1>3, <1>5, <1>7, <2>6
<1>8. CASE /\ handle = "open"
           /\ active' = Append(active, written)
           /\ bytes' = bytes + Length[written]
           /\ size' = size + Length[written]
           /\ acked' = acked \cup {written}
           /\ UNCHANGED faults
  <2>. DEFINE n == Len(active)
  <2>1. active \in Seq(Records)
    BY DEF DiskInv
  <2>2. /\ active' \in Seq(Records) /\ n \in Nat /\ Len(active') = n + 1
        /\ \A i \in 1..n : active'[i] = active[i]
        /\ active'[n + 1] = written
    BY <1>2, <1>8, <2>1, AppendFacts
  <2>3. \A k : In(k, active') <=> In(k, active) \/ k = written
    BY <1>2, <1>8, <2>1, InAppend
  <2>4. \A i \in 1..n : active[i] \in Records /\ In(active[i], active)
    BY <2>1 DEF In
  <2>. HIDE DEF n
  <2>5. \A i \in 1..n : active[i] < written
    <3>1. \A k \in Records : k \in Nat
      BY DEF Records
    <3>2. \A i \in 1..n : active[i] <= LastWritten /\ active[i] \in Nat
      BY <2>4, <3>1 DEF DiskInv
    <3>. QED
      BY <1>2, <3>2
  <2>6. ASSUME NEW i \in 1..Len(active'), NEW j \in 1..Len(active'), i < j
        PROVE  active'[i] < active'[j]
    <3>1. i \in 1..n /\ (j \in 1..n \/ j = n + 1)
      BY <2>2, <2>6
    <3>2. CASE j \in 1..n
      BY <2>2, <2>6, <3>1, <3>2 DEF DiskInv, n
    <3>3. CASE j = n + 1
      BY <2>2, <2>5, <3>1, <3>3
    <3>. QED
      BY <3>1, <3>2, <3>3
  <2>7. \A k \in Records : k \in Nat /\ (k <= LastWritten => k < written /\ k <= LastWritten')
    BY <1>2, <1>3 DEF Records
  <2>8. DiskInv'
    <3>1. acked' \subseteq 1..LastWritten'
      <4>1. \A k \in 1..LastWritten : k \in 1..LastWritten'
        BY <1>2, <1>3
      <4>2. written \in 1..LastWritten'
        BY <1>2, <1>3
      <4>. QED
        BY <1>8, <4>1, <4>2 DEF DiskInv
    <3>2. \A k \in Records : In(k, active') => k <= LastWritten'
      BY <1>2, <1>3, <2>3, <2>7 DEF DiskInv
    <3>. QED
      BY <1>1, <2>2, <2>6, <3>1, <3>2 DEF DiskInv, Stages
  <2>9. KeptInv'
    <3>1. \A k : Holds(k)' <=> Holds(k) \/ k = written
      BY <1>1, <2>3 DEF Holds
    <3>2. ASSUME NEW r \in acked'
          PROVE  Holds(r)' \/ PushedOut(r)'
      <4>1. r = written \/ r \in acked
        BY <1>8
      <4>. QED
        BY <1>1, <3>1, <4>1 DEF KeptInv, PushedOut
    <3>. QED
      BY <1>1, <1>2, <3>2 DEF KeptInv
  <2>10. SizeInv'
    <3>1. size = bytes /\ bytes \in Nat /\ (stuck \/ bytes = 0 \/ bytes + Length[written] <= MaxBytes)
      BY <1>1, <1>8 DEF SizeInv
    <3>2. CapIsKept'
      <4>1. CASE stuck
        BY <1>1, <4>1 DEF CapIsKept
      <4>2. CASE bytes = 0
        <5>1. n = 0
          BY <4>2 DEF SizeInv, n
        <5>2. Len(active') <= 1 /\ bytes' <= Length[written]
          BY <1>4, <1>8, <2>2, <4>2, <5>1
        <5>. QED
          BY <1>2, <5>2 DEF CapIsKept
      <4>3. CASE bytes + Length[written] <= MaxBytes
        BY <1>8, <4>3 DEF CapIsKept
      <4>. QED
        BY <3>1, <4>1, <4>2, <4>3
    <3>3. bytes' \in Nat /\ bytes' # 0 /\ size' = bytes'
      BY <1>4, <1>8, <3>1
    <3>. QED
      BY <1>1, <1>8, <3>2, <3>3 DEF SizeInv
  <2>. QED
    BY <1>1, <1>2, <1>3, <1>8, <2>8, <2>9, <2>10
<1>. QED
  BY <1>6, <1>7, <1>8 DEF AppendRecord

\* A new process opens the log as it finds it.
LEMMA RestartLog ==
  ASSUME DiskInv, KeptInv, SizeInv, Fault, WriterRestarts, UNCHANGED <<diskVars, written, acked>>
  PROVE  DiskInv' /\ KeptInv' /\ SizeInv' /\ LastWritten <= LastWritten'
<1>1. /\ handle' = "nil" /\ size' = 0 /\ writing' = "no" /\ skip' = 0
      /\ UNCHANGED <<active, bytes, rotated, stuck, written, acked>>
  BY DEF WriterRestarts, diskVars
<1>2. LastWritten' = written /\ written \in Nat /\ LastWritten <= written
  BY <1>1, LastWrittenFacts DEF LastWritten
<1>3. DiskInv'
  <2>1. written' \in 0..MaxRecords
    BY <1>1 DEF DiskInv
  <2>. QED
    BY <1>1, <1>2, <2>1, DiskStays DEF Stages
<1>4. KeptInv'
  <2>1. LastStamp \in Int /\ LastStamp' = written /\ LastStamp <= written
    BY <1>1, <1>2 DEF LastStamp
  <2>. QED
    BY <1>1, <1>2, <2>1, KeptStays
<1>5. SizeInv'
  <2>1. faults' \in 0..MaxFaults
    BY FaultsAssumption DEF Fault, SizeInv
  <2>2. CapIsKept'
    BY <1>1 DEF SizeInv, CapIsKept
  <2>. QED
    BY <1>1, <2>1, <2>2 DEF SizeInv
<1>. QED
  BY <1>2, <1>3, <1>4, <1>5

\* A failed store call counts as a fault.
LEMMA FaultLog ==
  ASSUME DiskInv, KeptInv, SizeInv,
         UNCHANGED <<diskVars, writerVars, written, acked>>,
         UNCHANGED faults \/ Fault
  PROVE  DiskInv' /\ KeptInv' /\ SizeInv' /\ LastWritten' = LastWritten
<1>1. UNCHANGED <<active, bytes, rotated, stuck, handle, size, writing, skip, written, acked>>
  BY DEF diskVars, writerVars
<1>2. LastWritten' = LastWritten /\ LastStamp' = LastStamp
  BY <1>1 DEF LastWritten, LastStamp
<1>3. DiskInv'
  BY <1>1, <1>2 DEF DiskInv
<1>4. KeptInv'
  BY <1>1, <1>2 DEF KeptInv, Holds, PushedOut
<1>5. faults' \in 0..MaxFaults
  BY FaultsAssumption DEF Fault, SizeInv
<1>6. SizeInv'
  BY <1>1, <1>5 DEF SizeInv, CapIsKept
<1>. QED
  BY <1>2, <1>3, <1>4, <1>6

\* Close: the file is opened again by the next Write.
LEMMA CloseLog ==
  ASSUME DiskInv, KeptInv, SizeInv, Close
  PROVE  DiskInv' /\ KeptInv' /\ SizeInv'
<1>1. /\ writing = "no" /\ handle' = "nil"
      /\ UNCHANGED <<active, bytes, rotated, stuck, size, writing, skip, written, acked, faults>>
  BY DEF Close, diskVars
<1>2. LastWritten' = LastWritten /\ LastStamp' = LastStamp
  BY <1>1 DEF LastWritten, LastStamp
<1>3. DiskInv'
  BY <1>1, <1>2 DEF DiskInv
<1>4. KeptInv'
  BY <1>1, <1>2 DEF KeptInv, Holds, PushedOut
<1>5. SizeInv'
  BY <1>1 DEF SizeInv, CapIsKept
<1>. QED
  BY <1>3, <1>4, <1>5

\* Each step of a Write changes the files in one of three ways.
LEMMA WriterFacts ==
  ASSUME DiskInv, KeptInv, SizeInv, WriterStep
  PROVE  /\ DiskInv' /\ KeptInv' /\ SizeInv' /\ LastWritten <= LastWritten'
         /\ \/ UNCHANGED active /\ Len(rotated') <= Len(rotated)
            \/ active' = <<>> /\ Len(rotated') = Len(rotated) + 1
            \/ /\ active' = Append(active, written) /\ UNCHANGED rotated
               /\ written \in Records /\ LastWritten < written
<1>1. Len(rotated) \in Nat /\ LastWritten \in Nat
  BY LastWrittenFacts, StampType DEF KeptInv
<1>2. CASE WriteBegin
  BY <1>1, <1>2, BeginLog
<1>3. CASE Rename
  BY <1>1, <1>3, RenameLog
<1>4. CASE Reopen
  BY <1>1, <1>4, ReopenLog
<1>5. CASE Prune
  BY <1>1, <1>5, PruneLog
<1>6. CASE AppendRecord
  BY <1>1, <1>6, AppendLog
<1>. QED
  BY <1>2, <1>3, <1>4, <1>5, <1>6 DEF WriterStep

\* The first start finds no log.
LEMMA InitLog ==
  ASSUME LogInit
  PROVE  DiskInv /\ KeptInv /\ SizeInv
<1>1. /\ active = <<>> /\ bytes = 0 /\ rotated = <<>> /\ stuck = FALSE
      /\ handle = "nil" /\ size = 0 /\ writing = "no" /\ skip = 0
      /\ written = 0 /\ acked = {} /\ faults = 0
  BY DEF LogInit
<1>2. Len(active) = 0 /\ Len(rotated) = 0 /\ active \in Seq(Records) /\ rotated \in Seq(Files)
  BY <1>1
<1>3. DiskInv
  BY <1>1, <1>2, SizesAssumption DEF DiskInv, In, Stages
<1>4. KeptInv
  BY <1>1, <1>2 DEF KeptInv
<1>5. CapIsKept
  BY <1>1, SizesAssumption DEF CapIsKept
<1>6. SizeInv
  <2>1. stuck \in BOOLEAN
    BY Zenon DEF LogInit
  <2>2. faults \in 0..MaxFaults /\ size \in Nat /\ bytes \in Nat
    BY <1>1, FaultsAssumption
  <2>3. /\ writing = "no" /\ handle = "nil" /\ active = <<>>
    BY <1>1
  <2>. QED
    BY <1>5, <2>1, <2>2, <2>3 DEF SizeInv
<1>. QED
  BY <1>3, <1>4, <1>6

\* The inductive invariant of the log alone.
LEMMA LogInvariant == LogSpec => [](DiskInv /\ KeptInv /\ SizeInv)
<1>1. LogInit => DiskInv /\ KeptInv /\ SizeInv
  BY InitLog
<1>2. (DiskInv /\ KeptInv /\ SizeInv) /\ [LogNext]_logVars => (DiskInv /\ KeptInv /\ SizeInv)'
  <2>. SUFFICES ASSUME DiskInv, KeptInv, SizeInv, [LogNext]_logVars
                PROVE  DiskInv' /\ KeptInv' /\ SizeInv'
    OBVIOUS
  <2>1. CASE WriterStep
    BY <2>1, WriterFacts
  <2>2. CASE Close
    BY <2>2, CloseLog
  <2>3. CASE Dies
    BY <2>3, RestartLog DEF Dies
  <2>4. CASE UNCHANGED logVars
    <3>1. UNCHANGED <<diskVars, writerVars, written, acked, faults>>
      BY <2>4 DEF logVars
    <3>. QED
      BY <3>1, FaultLog
  <2>. QED
    BY <2>1, <2>2, <2>3, <2>4 DEF LogNext
<1>. QED
  BY <1>1, <1>2, PTL DEF LogSpec

\* "losing rotation is better than losing logs": whatever calls of a Write and
\* of its rotation fail, one by one, and wherever the process dies, a record
\* whose Write returned no error is on disk until the KeepFiles newest rotated
\* files have all been rotated after it, for records of any lengths.
THEOREM AckedRecordsStay == LogSpec => []LogIsKept
<1>1. DiskInv /\ KeptInv /\ SizeInv => LogIsKept
  <2>. SUFFICES ASSUME DiskInv, KeptInv
                PROVE  LogIsKept
    OBVIOUS
  <2>1. \A k : k \in OnDisk <=> Holds(k)
    BY OnDiskFacts DEF DiskInv, KeptInv
  <2>. QED
    BY <2>1 DEF KeptInv, PushedOut, LogIsKept
<1>. QED
  BY <1>1, LogInvariant, PTL

\* MaxBytes: but for what a single Write put alone into it, the file exceeds
\* its cap only after its rename failed, across restarts and torn writes, for
\* records of any lengths.
THEOREM FilesStaySmall == LogSpec => []CapIsKept
<1>1. DiskInv /\ KeptInv /\ SizeInv => CapIsKept
  BY DEF SizeInv
<1>. QED
  BY <1>1, LogInvariant, PTL

-----------------------------------------------------------------------------
(* The watches: the inductive invariant.                                    *)

WatchType == [pattern : Patterns \cup {NoPattern}, off : Nat, size : Nat, cool : Nat,
              poll : {"idle", "due", "read"}, stat : Nat]

\* The watch stands where it has read to: nothing beyond was counted.
Aligned(n) ==
    /\ live[n].off <= Len(active) /\ live[n].size <= Len(active)
    /\ \A i \in 1..Len(active) : i > live[n].off => counted[n][active[i]] = 0

\* The file is a new one: nothing of it was counted.
Ahead(n) == \A i \in 1..Len(active) : counted[n][active[i]] = 0

\* What a watch has counted that no rotation overtook in the middle of a poll.
CountInv(n) ==
    /\ \A r \in Records : counted[n][r] \in {0, 1} /\ (counted[n][r] = 1 => r <= LastWritten)
    /\ Aligned(n) \/ (history[n] = "rotated" /\ Ahead(n) /\ live[n].poll # "read")
    /\ live[n].poll = "read" => live[n].off + live[n].stat <= Len(active)
    /\ history[n] = "same" =>
          \A i \in 1..live[n].off :
             active[i] \in Matching[live[n].pattern] => counted[n][active[i]] = 1

WatchInv ==
    /\ live \in [Names -> WatchType]
    /\ history \in [Names -> {"same", "rotated", "raced"}]
    /\ counted = [n \in Names |-> counted[n]]
    /\ \A n \in Names : history[n] # "raced" => CountInv(n)

\* The commands and the table hold patterns.
CommandInv ==
    /\ table \in [Names -> Patterns \cup {NoPattern}]
    /\ command \in [Workers -> [pc : {"idle", "add", "first", "save", "remove", "delete"},
                                name : Names \cup {"none"}, pattern : Patterns \cup {NoPattern}]]

IInv == DiskInv /\ KeptInv /\ SizeInv /\ WatchInv /\ CommandInv

-----------------------------------------------------------------------------
(* The watches' steps keep the counts.                                     *)

\* What a watch's count depends on.
LEMMA CountStays ==
  ASSUME DiskInv, NEW n \in Names, CountInv(n), UNCHANGED active, LastWritten' \in Nat, LastWritten <= LastWritten',
         live'[n].off = live[n].off, live'[n].size = live[n].size,
         live'[n].stat = live[n].stat, live'[n].pattern = live[n].pattern,
         live'[n].poll = "read" => live[n].poll = "read",
         counted'[n] = counted[n], history'[n] = history[n]
  PROVE  CountInv(n)'
<1>1. LastWritten \in Nat /\ \A r \in Records : r \in Nat /\ (r <= LastWritten => r <= LastWritten')
  BY LastWrittenFacts DEF Records
<1>2. \A r \in Records : counted'[n][r] \in {0, 1} /\ (counted'[n][r] = 1 => r <= LastWritten')
  BY <1>1 DEF CountInv
<1>3. Aligned(n) => Aligned(n)'
  BY DEF Aligned
<1>4. Ahead(n) => Ahead(n)'
  BY DEF Ahead
<1>. QED
  BY <1>2, <1>3, <1>4 DEF CountInv

\* A watch that starts over has counted nothing.
LEMMA FreshCount ==
  ASSUME DiskInv, NEW n \in Names, UNCHANGED active,
         live'[n].off = 0, live'[n].size = 0, live'[n].poll # "read",
         counted'[n] = [r \in Records |-> 0]
  PROVE  CountInv(n)'
<1>1. /\ Len(active) \in Nat
      /\ \A i \in 1..Len(active) : active[i] \in Records
  BY DEF DiskInv
<1>2. Aligned(n)'
  BY <1>1 DEF Aligned
<1>. QED
  BY <1>2 DEF CountInv

\* A step that leaves the log and the watches alone.
LEMMA WatchStays ==
  ASSUME DiskInv, KeptInv, SizeInv, WatchInv,
         UNCHANGED <<diskVars, writerVars, written, acked>>,
         UNCHANGED faults \/ Fault,
         UNCHANGED <<live, counted, history>>
  PROVE  DiskInv' /\ KeptInv' /\ SizeInv' /\ WatchInv'
<1>1. DiskInv' /\ KeptInv' /\ SizeInv' /\ LastWritten' = LastWritten
  BY FaultLog
<1>2. LastWritten' \in Nat /\ LastWritten <= LastWritten'
  BY <1>1, LastWrittenFacts
<1>3. UNCHANGED active
  BY DEF diskVars
<1>4. \A n \in Names : CountInv(n) => CountInv(n)'
  BY <1>2, <1>3, CountStays
<1>. QED
  BY <1>1, <1>4 DEF WatchInv

\* The log goes on beside the watches: what is added to it was not counted,
\* and a rotation makes the file a new one.
LEMMA LogWatchStep ==
  ASSUME IInv, LogStep
  PROVE  IInv'
<1>1. DiskInv /\ KeptInv /\ SizeInv /\ WatchInv /\ CommandInv
  BY DEF IInv
<1>2. /\ WriterStep /\ UNCHANGED <<live, counted, table, command>>
      /\ history' = [n \in Names |->
                      IF Len(rotated') <= Len(rotated) THEN history[n]
                      ELSE IF live[n].poll = "read" \/ history[n] = "raced" THEN "raced"
                      ELSE "rotated"]
  BY DEF LogStep, gateVars
<1>3. /\ DiskInv' /\ KeptInv' /\ SizeInv' /\ LastWritten <= LastWritten'
      /\ \/ UNCHANGED active /\ Len(rotated') <= Len(rotated)
         \/ active' = <<>> /\ Len(rotated') = Len(rotated) + 1
         \/ /\ active' = Append(active, written) /\ UNCHANGED rotated
            /\ written \in Records /\ LastWritten < written
  BY <1>1, <1>2, WriterFacts
<1>4. /\ active \in Seq(Records) /\ Len(active) \in Nat /\ Len(rotated) \in Nat
      /\ LastWritten \in Nat /\ LastWritten' \in Nat
      /\ \A r \in Records : r \in Nat
      /\ \A i \in 1..Len(active) : active[i] \in Records
  <2>1. active \in Seq(Records) /\ rotated \in Seq(Files)
    BY <1>1 DEF DiskInv, KeptInv
  <2>2. LastWritten \in Nat
    BY <1>1, LastWrittenFacts
  <2>3. LastWritten' \in Nat
    <3>1. written' \in Nat /\ (writing' # "no" => written' # 0)
      BY <1>3, SizesAssumption DEF DiskInv
    <3>2. CASE writing' = "no"
      BY <3>1, <3>2 DEF LastWritten
    <3>3. CASE writing' # "no"
      <4>1. written' - 1 \in Nat
        <5>1. written' \in Nat /\ written' # 0
          BY <3>1, <3>3
        <5>2. \A x \in Nat : x # 0 => x - 1 \in Nat
          OBVIOUS
        <5>. QED
          BY <5>1, <5>2
      <4>2. LastWritten' = written' - 1
        BY <3>3 DEF LastWritten
      <4>. QED
        BY <4>1, <4>2
    <3>. QED
      BY <3>2, <3>3
  <2>4. \A r \in Records : r \in Nat
    BY DEF Records
  <2>5. Len(active) \in Nat /\ \A i \in 1..Len(active) : active[i] \in Records
    BY <2>1
  <2>6. Len(rotated) \in Nat
    BY <2>1
  <2>. QED
    BY <2>1, <2>2, <2>3, <2>4, <2>5, <2>6
<1>5. history' \in [Names -> {"same", "rotated", "raced"}]
  BY <1>1, <1>2 DEF WatchInv
<1>6. ASSUME NEW n \in Names, history'[n] # "raced"
      PROVE  CountInv(n)'
  <2>1. history[n] # "raced" /\ CountInv(n)
    BY <1>1, <1>2, <1>6 DEF WatchInv
  <2>2. CASE UNCHANGED active /\ Len(rotated') <= Len(rotated)
    <3>1. history'[n] = history[n]
      BY <1>2, <2>2
    <3>. QED
      BY <1>1, <1>2, <1>3, <1>4, <2>1, <2>2, <3>1, CountStays
  <2>3. CASE active' = <<>> /\ Len(rotated') = Len(rotated) + 1
    <3>1. history'[n] = "rotated" /\ live[n].poll # "read"
      BY <1>2, <1>4, <1>6, <2>3
    <3>2. Ahead(n)'
      BY <2>3 DEF Ahead
    <3>3. \A r \in Records : counted[n][r] \in {0, 1} /\ (counted[n][r] = 1 => r <= LastWritten')
      BY <1>3, <1>4, <2>1 DEF CountInv
    <3>. QED
      BY <1>2, <3>1, <3>2, <3>3 DEF CountInv
  <2>4. CASE /\ active' = Append(active, written) /\ UNCHANGED rotated
             /\ written \in Records /\ LastWritten < written
    <3>1. history'[n] = history[n]
      BY <1>2, <1>4, <2>4
    <3>2. /\ Len(active') = Len(active) + 1
          /\ \A i \in 1..Len(active) : active'[i] = active[i]
          /\ active'[Len(active) + 1] = written
          /\ \A i \in 1..Len(active') : i \in 1..Len(active) \/ i = Len(active) + 1
      BY <1>4, <2>4
    <3>3. \A r \in Records : counted[n][r] \in {0, 1} /\ (counted[n][r] = 1 => r <= LastWritten)
      BY <2>1 DEF CountInv
    <3>4. counted[n][written] = 0
      <4>1. ~(written <= LastWritten)
        BY <1>4, <2>4
      <4>. QED
        BY <2>4, <3>3, <4>1
    <3>5. \A r \in Records : counted[n][r] = 1 => r <= LastWritten'
      BY <1>3, <1>4, <3>3
    <3>6. live[n].off \in Nat /\ live[n].size \in Nat /\ live[n].stat \in Nat
      <4>1. live[n] \in WatchType
        BY <1>1 DEF WatchInv
      <4>. QED
        BY <4>1 DEF WatchType
    <3>7. Aligned(n) => Aligned(n)'
      <4>. SUFFICES ASSUME Aligned(n)
                    PROVE  Aligned(n)'
        OBVIOUS
      <4>1. live'[n].off <= Len(active') /\ live'[n].size <= Len(active')
        BY <1>2, <1>4, <3>2, <3>6 DEF Aligned
      <4>2. ASSUME NEW i \in 1..Len(active'), i > live'[n].off
            PROVE  counted'[n][active'[i]] = 0
        BY <1>2, <3>2, <3>4, <4>2 DEF Aligned
      <4>. QED
        BY <4>1, <4>2 DEF Aligned
    <3>8. Ahead(n) => Ahead(n)'
      BY <1>2, <3>2, <3>4 DEF Ahead
    <3>9. live[n].poll = "read" => live[n].off + live[n].stat <= Len(active')
      BY <1>4, <2>1, <3>2, <3>6 DEF CountInv
    <3>10. ASSUME history[n] = "same", NEW i \in 1..live[n].off,
                  active'[i] \in Matching[live[n].pattern]
           PROVE  counted[n][active'[i]] = 1
      <4>1. i \in 1..Len(active)
        BY <1>4, <2>1, <3>6, <3>10 DEF CountInv, Aligned
      <4>. QED
        BY <2>1, <3>2, <3>10, <4>1 DEF CountInv
    <3>. QED
      BY <1>2, <2>1, <3>1, <3>3, <3>5, <3>7, <3>8, <3>9, <3>10 DEF CountInv
  <2>. QED
    BY <1>3, <2>2, <2>3, <2>4
<1>7. WatchInv'
  BY <1>1, <1>2, <1>5, <1>6 DEF WatchInv
<1>8. CommandInv'
  BY <1>1, <1>2 DEF CommandInv
<1>. QED
  BY <1>3, <1>7, <1>8 DEF IInv

\* The log's part of the invariant in a step of the watches alone.
LEMMA LogStays ==
  ASSUME DiskInv, KeptInv, SizeInv, UNCHANGED logVars
  PROVE  /\ DiskInv' /\ KeptInv' /\ SizeInv'
         /\ UNCHANGED active /\ LastWritten' \in Nat /\ LastWritten <= LastWritten'
<1>1. UNCHANGED <<diskVars, writerVars, written, acked, faults>>
  BY DEF logVars, diskVars, writerVars
<1>2. DiskInv' /\ KeptInv' /\ SizeInv' /\ LastWritten' = LastWritten
  BY <1>1, FaultLog
<1>. QED
  BY <1>1, <1>2, LastWrittenFacts DEF diskVars

\* The timer of a poll, and its Stat: a file that is shorter than the watch
\* remembers is a new one, and one that is not is either the old one or has
\* nothing counted.
LEMMA StatStep ==
  ASSUME IInv, NEW n \in Names, Due(n) \/ Stat(n)
  PROVE  IInv'
<1>1. DiskInv /\ KeptInv /\ SizeInv /\ WatchInv /\ CommandInv
  BY DEF IInv
<1>2. UNCHANGED <<counted, table, command>> /\ UNCHANGED logVars
  BY DEF Due, Stat, gateVars
<1>3. /\ DiskInv' /\ KeptInv' /\ SizeInv'
      /\ UNCHANGED active /\ LastWritten' \in Nat /\ LastWritten <= LastWritten'
  BY <1>1, <1>2, LogStays
<1>4. /\ Len(active) \in Nat
      /\ live \in [Names -> WatchType] /\ live[n] \in WatchType
      /\ live[n].off \in Nat /\ live[n].size \in Nat /\ live[n].stat \in Nat
      /\ history \in [Names -> {"same", "rotated", "raced"}]
  <2>1. Len(active) \in Nat
    BY <1>1 DEF DiskInv
  <2>2. /\ live[n] \in WatchType /\ live \in [Names -> WatchType]
        /\ history \in [Names -> {"same", "rotated", "raced"}]
    BY <1>1 DEF WatchInv
  <2>. QED
    BY <2>1, <2>2 DEF WatchType
<1>5. ASSUME NEW w \in WatchType, live' = [live EXCEPT ![n] = w],
             NEW h \in {"same", "rotated", "raced"}, history' = [history EXCEPT ![n] = h],
             h # "raced" => CountInv(n)'
      PROVE  IInv'
  <2>1. /\ live' \in [Names -> WatchType]
        /\ history' \in [Names -> {"same", "rotated", "raced"}] /\ history'[n] = h
        /\ \A m \in Names : m # n => history'[m] = history[m]
    BY <1>4, <1>5
  <2>2. ASSUME NEW m \in Names, history'[m] # "raced"
        PROVE  CountInv(m)'
    <3>1. CASE m = n
      BY <1>5, <2>1, <2>2, <3>1
    <3>2. CASE m # n
      <4>1. live'[m] = live[m] /\ CountInv(m)
        BY <1>1, <1>2, <1>4, <1>5, <2>1, <2>2, <3>2 DEF WatchInv
      <4>. QED
        BY <1>1, <1>2, <1>3, <2>1, <3>2, <4>1, CountStays
    <3>. QED
      BY <3>1, <3>2
  <2>3. WatchInv'
    BY <1>1, <1>2, <2>1, <2>2 DEF WatchInv
  <2>4. CommandInv'
    BY <1>1, <1>2 DEF CommandInv
  <2>. QED
    BY <1>3, <2>3, <2>4 DEF IInv
<1>6. CASE Due(n)
  <2>. DEFINE w == [live[n] EXCEPT !.poll = "due"]
  <2>1. w \in WatchType /\ live' = [live EXCEPT ![n] = w]
    BY <1>4, <1>6 DEF Due, WatchType
  <2>2. /\ w.off = live[n].off /\ w.size = live[n].size /\ w.stat = live[n].stat
        /\ w.pattern = live[n].pattern /\ w.poll = "due"
    BY <1>4 DEF WatchType
  <2>. HIDE DEF w
  <2>3. live'[n] = w
    BY <1>4, <2>1
  <2>4. UNCHANGED history
    BY <1>6 DEF Due
  <2>5. history[n] # "raced" => CountInv(n)'
    <3>1. history[n] # "raced" => CountInv(n)
      BY <1>1 DEF WatchInv
    <3>. QED
      BY <1>1, <1>2, <1>3, <2>2, <2>3, <2>4, <3>1, CountStays
  <2>6. history[n] \in {"same", "rotated", "raced"} /\ history' = [history EXCEPT ![n] = history[n]]
    BY <1>4, <2>4
  <2>. QED
    BY <1>5, <2>1, <2>5, <2>6
<1>7. CASE Stat(n)
  <2>. DEFINE s == Len(active)
              off == IF Rotation(n, s) THEN 0 ELSE live[n].off
              w == IF ~there THEN [live[n] EXCEPT !.poll = "idle"]
                   ELSE IF s = off THEN [live[n] EXCEPT !.poll = "idle", !.off = off, !.size = s]
                   ELSE [live[n] EXCEPT !.poll = "read", !.off = off, !.size = s, !.stat = s - off]
              h == IF there /\ off = 0 /\ history[n] = "rotated" THEN "same" ELSE history[n]
  <2>1. /\ live' = [live EXCEPT ![n] = w]
        /\ history' = [history EXCEPT ![n] = h]
    BY <1>7 DEF Stat
  <2>2. s \in Nat /\ off \in Nat /\ off <= s
    BY <1>4 DEF Rotation
  <2>. HIDE DEF off, s
  <2>3. /\ w \in WatchType /\ w.pattern = live[n].pattern
        /\ \/ /\ ~there /\ w.off = live[n].off /\ w.size = live[n].size
              /\ w.stat = live[n].stat /\ w.poll = "idle"
           \/ /\ w.off = off /\ w.size = s
              /\ w.poll = "read" => w.stat = s - off
    <3>1. CASE ~there
      BY <1>4, <3>1 DEF WatchType
    <3>2. CASE there /\ s = off
      BY <1>4, <2>2, <3>2 DEF WatchType
    <3>3. CASE there /\ s # off
      <4>1. s - off \in Nat
        BY <2>2
      <4>. QED
        BY <1>4, <2>2, <3>3, <4>1 DEF WatchType
    <3>. QED
      BY <3>1, <3>2, <3>3
  <2>. HIDE DEF w
  <2>4. live'[n] = w /\ history'[n] = h
    BY <1>4, <2>1, <2>3
  <2>5. ASSUME h # "raced"
        PROVE  CountInv(n)'
    <3>1. CountInv(n) /\ history[n] \in {"same", "rotated"}
      BY <1>1, <1>4, <2>5 DEF WatchInv
    <3>2. CASE ~there
      <4>1. history'[n] = history[n]
        BY <2>4, <3>2
      <4>2. /\ w.off = live[n].off /\ w.size = live[n].size
            /\ w.stat = live[n].stat /\ w.poll = "idle"
        BY <1>4, <3>2 DEF w, WatchType
      <4>. QED
        BY <1>1, <1>2, <1>3, <2>3, <2>4, <3>1, <4>1, <4>2, CountStays
    <3>3. CASE there
      <4>1. /\ w.off = off /\ w.size = s
            /\ w.poll = "read" => w.stat = s - off
        BY <1>4, <3>3 DEF w, WatchType
      <4>2. w.poll = "read" => w.off + w.stat <= Len(active)
        BY <2>2, <4>1 DEF s
      <4>3. \A r \in Records : counted[n][r] \in {0, 1} /\ (counted[n][r] = 1 => r <= LastWritten')
        <5>1. LastWritten \in Nat /\ \A r \in Records : r \in Nat /\ (r <= LastWritten => r <= LastWritten')
          BY <1>1, <1>3, LastWrittenFacts DEF Records
        <5>. QED
          BY <3>1, <5>1 DEF CountInv
      <4>4. Aligned(n)' /\ (Aligned(n) => off = live[n].off)
        <5>1. CASE Aligned(n)
          <6>1. off = live[n].off
            BY <1>4, <5>1 DEF Aligned, Rotation, off, s
          <6>2. Aligned(n)'
            BY <1>2, <1>3, <2>2, <2>4, <4>1, <5>1, <6>1 DEF Aligned, s
          <6>. QED
            BY <6>1, <6>2
        <5>2. CASE ~Aligned(n)
          <6>1. Ahead(n)
            BY <3>1, <5>2 DEF CountInv
          <6>2. Aligned(n)'
            BY <1>2, <1>3, <2>2, <2>4, <4>1, <6>1 DEF Aligned, Ahead, s
          <6>. QED
            BY <5>2, <6>2
        <5>. QED
          BY <5>1, <5>2
      <4>5. ASSUME h = "same", NEW i \in 1..off, active[i] \in Matching[live[n].pattern]
            PROVE  counted[n][active[i]] = 1
        <5>1. off # 0
          BY <4>5
        <5>2. history[n] = "same"
          BY <4>5, <5>1
        <5>3. Aligned(n)
          BY <3>1, <5>2 DEF CountInv
        <5>. QED
          BY <3>1, <4>4, <4>5, <5>2, <5>3 DEF CountInv
      <4>. HIDE DEF h
      <4>. QED
        BY <1>2, <1>3, <2>3, <2>4, <4>1, <4>2, <4>3, <4>4, <4>5 DEF CountInv
    <3>. QED
      BY <3>2, <3>3
  <2>6. h \in {"same", "rotated", "raced"}
    BY <1>4
  <2>. HIDE DEF h
  <2>. QED
    BY <1>5, <2>1, <2>3, <2>5, <2>6
<1>. QED
  BY <1>6, <1>7

\* A part of the active file.
LEMMA PartFacts ==
  ASSUME NEW s \in Seq(Records), NEW a \in Nat, NEW b \in Nat, b <= Len(s)
  PROVE  /\ Len(SubSeq(s, a + 1, b)) \in Nat
         /\ a <= b => /\ Len(SubSeq(s, a + 1, b)) = b - a
                      /\ \A i \in 1..(b - a) : SubSeq(s, a + 1, b)[i] = s[a + i]
<1>1. Len(s) \in Nat
  OBVIOUS
<1>2. CASE a + 1 <= b
  <2>1. a + 1 \in 1..Len(s) /\ b \in 1..Len(s) /\ b - (a + 1) + 1 = b - a /\ b - a \in Nat
    BY <1>1, <1>2
  <2>2. /\ Len(SubSeq(s, a + 1, b)) = b - (a + 1) + 1
        /\ \A i \in 1..(b - (a + 1) + 1) : SubSeq(s, a + 1, b)[i] = s[(a + 1) + i - 1]
    BY <1>1, <1>2, <2>1
  <2>3. \A i \in 1..(b - a) : (a + 1) + i - 1 = a + i
    BY <2>1
  <2>. QED
    BY <2>1, <2>2, <2>3
<1>3. CASE ~(a + 1 <= b)
  <2>1. SubSeq(s, a + 1, b) = <<>>
    BY <1>1, <1>3
  <2>2. a <= b => b - a = 0
    BY <1>3
  <2>. QED
    BY <2>1, <2>2
<1>. QED
  BY <1>2, <1>3

\* Records stand once in the active file.
LEMMA ActiveOnce ==
  ASSUME DiskInv
  PROVE  /\ Len(active) \in Nat
         /\ \A i \in 1..Len(active) : active[i] \in Records /\ active[i] <= LastWritten
         /\ \A i, j \in 1..Len(active) : active[i] = active[j] => i = j
<1>1. /\ Len(active) \in Nat
      /\ \A i \in 1..Len(active) : active[i] \in Records
  BY DEF DiskInv
<1>2. \A i \in 1..Len(active) : active[i] \in Nat
  BY <1>1 DEF Records
<1>3. ASSUME NEW i \in 1..Len(active), NEW j \in 1..Len(active), active[i] = active[j]
      PROVE  i = j
  <2>1. ~(i < j) /\ ~(j < i)
    BY <1>2, <1>3 DEF DiskInv
  <2>. QED
    BY <1>1, <2>1
<1>4. \A i \in 1..Len(active) : active[i] <= LastWritten
  BY <1>1 DEF DiskInv, In
<1>. QED
  BY <1>1, <1>3, <1>4

\* The read of a poll: each match in the part that was announced is counted
\* once, and none of it had been.
LEMMA ReadStep ==
  ASSUME IInv, NEW n \in Names, Read(n)
  PROVE  IInv'
<1>. DEFINE off == live[n].off
            lines == IF there THEN ReadAt(n) ELSE <<>>
            c == Len(lines)
            hits == {i \in 1..Len(lines) : lines[i] \in Matching[live[n].pattern]}
            S(r) == {i \in hits : lines[i] = r}
            alert == hits # {} /\ live[n].cool = 0
            w == [live[n] EXCEPT !.poll = "idle", !.stat = 0, !.off = off + c,
                                 !.cool = IF alert THEN Cooldown ELSE @]
<1>1. DiskInv /\ KeptInv /\ SizeInv /\ WatchInv /\ CommandInv
  BY DEF IInv
<1>2. /\ UNCHANGED <<history, table, command>> /\ UNCHANGED logVars
      /\ live[n].poll = "read"
      /\ live' = [live EXCEPT ![n] = w]
      /\ counted' = [counted EXCEPT ![n] = [r \in Records |-> counted[n][r] + Cardinality(S(r))]]
  BY DEF Read, gateVars
<1>3. /\ DiskInv' /\ KeptInv' /\ SizeInv'
      /\ UNCHANGED active /\ LastWritten' \in Nat /\ LastWritten <= LastWritten'
  BY <1>1, <1>2, LogStays
<1>4. /\ Len(active) \in Nat /\ active \in Seq(Records)
      /\ live \in [Names -> WatchType] /\ live[n] \in WatchType
      /\ off \in Nat /\ live[n].size \in Nat /\ live[n].stat \in Nat
  <2>1. active \in Seq(Records) /\ Len(active) \in Nat
    BY <1>1 DEF DiskInv
  <2>2. live[n] \in WatchType /\ live \in [Names -> WatchType]
    BY <1>1 DEF WatchInv
  <2>. QED
    BY <2>1, <2>2 DEF WatchType
<1>5. c \in Nat
  <2>1. CASE ~there
    BY <2>1
  <2>2. CASE there
    <3>. DEFINE e == IF off + live[n].stat <= Len(active) THEN off + live[n].stat ELSE Len(active)
    <3>1. e \in Nat /\ e <= Len(active)
      BY <1>4
    <3>. HIDE DEF e
    <3>2. Len(SubSeq(active, off + 1, e)) \in Nat
      BY <1>4, <3>1, PartFacts
    <3>. QED
      BY <2>2, <3>2 DEF ReadAt, e
  <2>. QED
    BY <2>1, <2>2
<1>6. ASSUME history[n] # "raced"
      PROVE  /\ off + c <= Len(active)
             /\ \A i \in 1..c : lines[i] = active[off + i]
  <2>1. Aligned(n) /\ off + live[n].stat <= Len(active) /\ off <= Len(active)
    BY <1>1, <1>2, <1>6 DEF WatchInv, CountInv, Aligned
  <2>2. CASE ~there
    <3>1. c = 0
      BY <2>2
    <3>. QED
      BY <1>4, <2>1, <3>1
  <2>3. CASE there
    <3>. DEFINE e == off + live[n].stat
    <3>1. e \in Nat /\ off <= e /\ e - off = live[n].stat /\ e <= Len(active)
      BY <1>4, <2>1
    <3>2. lines = SubSeq(active, off + 1, e)
      BY <2>1, <2>3 DEF ReadAt
    <3>. HIDE DEF e, lines
    <3>3. /\ Len(SubSeq(active, off + 1, e)) = e - off
          /\ \A i \in 1..(e - off) : SubSeq(active, off + 1, e)[i] = active[off + i]
      BY <1>4, <3>1, PartFacts
    <3>4. Len(lines) = e - off
      BY <3>2, <3>3
    <3>5. off + (e - off) = e
      BY <1>4, <3>1
    <3>6. \A i \in 1..(e - off) : lines[i] = active[off + i]
      BY <3>2, <3>3
    <3>. HIDE DEF off
    <3>. QED
      BY <3>1, <3>4, <3>5, <3>6
  <2>. QED
    BY <2>2, <2>3
<1>7. \A i : i \in hits <=> i \in 1..c /\ lines[i] \in Matching[live[n].pattern]
  OBVIOUS
<1>8. \A r : \A i : i \in S(r) <=> i \in hits /\ lines[i] = r
  OBVIOUS
<1>9. w \in WatchType /\ w.off = off + c /\ w.size = live[n].size /\ w.poll = "idle"
      /\ w.pattern = live[n].pattern
  <2>1. off + c \in Nat /\ Cooldown \in Nat
    BY <1>4, <1>5, WatchAssumption
  <2>. HIDE DEF off, c, alert
  <2>. QED
    BY <1>4, <2>1 DEF WatchType
<1>. HIDE DEF off, lines, c, hits, S, w
<1>10. ASSUME history[n] # "raced", NEW r \in Records
       PROVE  /\ S(r) = {} => Cardinality(S(r)) = 0
              /\ \A i \in S(r) : /\ i \in 1..c /\ off + i \in 1..Len(active)
                                 /\ active[off + i] = r /\ off + i > off
                                 /\ Cardinality(S(r)) = 1 /\ counted[n][r] = 0
  <2>1. Aligned(n)
    BY <1>1, <1>2, <1>10 DEF WatchInv, CountInv
  <2>2. ASSUME NEW i \in S(r)
        PROVE  /\ i \in 1..c /\ off + i \in 1..Len(active)
               /\ active[off + i] = r /\ off + i > off /\ counted[n][r] = 0
    <3>1. i \in 1..c /\ lines[i] = r
      BY <1>7, <1>8, <2>2
    <3>2. off + i \in 1..Len(active) /\ off + i > off
      BY <1>4, <1>5, <1>6, <1>10, <3>1
    <3>3. active[off + i] = r
      BY <1>6, <1>10, <3>1
    <3>4. counted[n][r] = 0
      BY <2>1, <3>2, <3>3 DEF Aligned, off
    <3>. QED
      BY <3>1, <3>2, <3>3, <3>4
  <2>3. ASSUME NEW i \in S(r), NEW j \in S(r)
        PROVE  i = j
    <3>1. off + i = off + j
      BY <1>1, <2>2, <2>3, ActiveOnce
    <3>2. i \in Nat /\ j \in Nat
      BY <1>5, <2>2, <2>3
    <3>. QED
      BY <1>4, <3>1, <3>2
  <2>4. ASSUME NEW i \in S(r)
        PROVE  Cardinality(S(r)) = 1
    <3>1. S(r) = {i}
      BY <2>3, <2>4
    <3>. QED
      BY <3>1, FS_Singleton
  <2>. QED
    BY <2>2, <2>4, FS_EmptySet
<1>11. /\ counted'[n] = [r \in Records |-> counted[n][r] + Cardinality(S(r))]
       /\ \A m \in Names : m # n => counted'[m] = counted[m]
       /\ counted' = [m \in Names |-> counted'[m]]
  <2>1. counted = [m \in Names |-> counted[m]]
    BY <1>1 DEF WatchInv
  <2>. DEFINE new == [r \in Records |-> counted[n][r] + Cardinality(S(r))]
  <2>2. counted' = [counted EXCEPT ![n] = new]
    BY <1>2
  <2>. HIDE DEF new
  <2>3. /\ counted'[n] = new
        /\ \A m \in Names : m # n => counted'[m] = counted[m]
        /\ counted' = [m \in Names |-> counted'[m]]
    BY <2>1, <2>2
  <2>. QED
    BY <2>3 DEF new
<1>12. live'[n] = w /\ live' \in [Names -> WatchType]
       /\ \A m \in Names : m # n => live'[m] = live[m]
  BY <1>2, <1>4, <1>9
<1>13. ASSUME history[n] # "raced"
       PROVE  CountInv(n)'
  <2>1. CountInv(n) /\ Aligned(n)
    BY <1>1, <1>2, <1>13 DEF WatchInv, CountInv
  <2>2. ASSUME NEW r \in Records
        PROVE  /\ counted'[n][r] \in {0, 1} /\ (counted'[n][r] = 1 => r <= LastWritten')
               /\ S(r) = {} => counted'[n][r] = counted[n][r]
               /\ S(r) # {} => counted'[n][r] = 1
    <3>1. counted'[n][r] = counted[n][r] + Cardinality(S(r))
      BY <1>11
    <3>2. counted[n][r] \in {0, 1} /\ (counted[n][r] = 1 => r <= LastWritten)
      BY <2>1 DEF CountInv
    <3>3. r \in Nat /\ LastWritten \in Nat /\ (r <= LastWritten => r <= LastWritten')
      BY <1>1, <1>3, LastWrittenFacts DEF Records
    <3>4. CASE S(r) = {}
      <4>1. Cardinality(S(r)) = 0
        BY <1>10, <1>13, <3>4
      <4>2. counted'[n][r] = counted[n][r] + 0
        BY <3>1, <4>1
      <4>3. counted'[n][r] = counted[n][r]
        BY <3>2, <4>2
      <4>. QED
        BY <3>2, <3>3, <3>4, <4>3
    <3>5. CASE S(r) # {}
      <4>1. PICK i \in S(r) : TRUE
        BY <3>5
      <4>2. /\ off + i \in 1..Len(active) /\ active[off + i] = r
            /\ Cardinality(S(r)) = 1 /\ counted[n][r] = 0
        BY <1>10, <1>13
      <4>3. r <= LastWritten
        BY <1>1, <4>2, ActiveOnce
      <4>4. counted'[n][r] = 1
        BY <3>1, <4>2
      <4>. QED
        BY <3>3, <3>5, <4>3, <4>4
    <3>. QED
      BY <3>4, <3>5
  <2>3. off + c <= Len(active) /\ live[n].size <= Len(active)
    BY <1>6, <1>13, <2>1 DEF Aligned
  <2>4. ASSUME NEW i \in 1..Len(active), i > off + c
        PROVE  counted'[n][active[i]] = 0
    <3>1. active[i] \in Records
      BY <1>1, ActiveOnce
    <3>2. counted[n][active[i]] = 0
      <4>1. i > off
        BY <1>4, <1>5, <2>4
      <4>. QED
        BY <2>1, <4>1 DEF Aligned, off
    <3>3. S(active[i]) = {}
      <4>. SUFFICES ASSUME NEW j \in S(active[i])
                    PROVE  FALSE
        OBVIOUS
      <4>1. j \in 1..c /\ off + j \in 1..Len(active) /\ active[off + j] = active[i]
        BY <1>10, <1>13, <3>1
      <4>2. off + j = i
        BY <1>1, <4>1, ActiveOnce
      <4>. QED
        BY <1>4, <1>5, <2>4, <4>1, <4>2
    <3>. QED
      BY <2>2, <3>1, <3>2, <3>3
  <2>5. Aligned(n)'
    BY <1>3, <1>9, <1>12, <2>3, <2>4 DEF Aligned
  <2>6. ASSUME history[n] = "same", NEW i \in 1..(off + c),
               active[i] \in Matching[live[n].pattern]
        PROVE  counted'[n][active[i]] = 1
    <3>1. i \in 1..Len(active) /\ active[i] \in Records
      <4>1. i \in 1..Len(active)
        BY <1>4, <1>5, <2>3, <2>6
      <4>. QED
        BY <1>1, <4>1, ActiveOnce
    <3>2. CASE i \in 1..off
      <4>1. counted[n][active[i]] = 1
        BY <2>1, <2>6, <3>2 DEF CountInv, off
      <4>. QED
        BY <2>2, <3>1, <4>1
    <3>3. CASE i \notin 1..off
      <4>1. i - off \in 1..c /\ off + (i - off) = i
        BY <1>4, <1>5, <2>6, <3>3
      <4>2. lines[i - off] = active[i]
        BY <1>6, <1>13, <4>1
      <4>3. i - off \in S(active[i])
        BY <1>7, <1>8, <2>6, <4>1, <4>2
      <4>. QED
        BY <2>2, <3>1, <4>3
    <3>. QED
      BY <3>2, <3>3
  <2>. QED
    BY <1>2, <1>3, <1>9, <1>12, <2>2, <2>5, <2>6 DEF CountInv
<1>14. ASSUME NEW m \in Names, history'[m] # "raced"
       PROVE  CountInv(m)'
  <2>1. CASE m = n
    BY <1>2, <1>13, <1>14, <2>1
  <2>2. CASE m # n
    <3>1. CountInv(m) /\ live'[m] = live[m] /\ counted'[m] = counted[m]
      BY <1>1, <1>2, <1>11, <1>12, <1>14, <2>2 DEF WatchInv
    <3>. QED
      BY <1>1, <1>2, <1>3, <3>1, CountStays
  <2>. QED
    BY <2>1, <2>2
<1>15. WatchInv'
  BY <1>1, <1>2, <1>11, <1>12, <1>14 DEF WatchInv
<1>16. CommandInv'
  BY <1>1, <1>2 DEF CommandInv
<1>. QED
  BY <1>3, <1>15, <1>16 DEF IInv

\* A tick of the cooldowns: no count depends on them.
LEMMA TickStep ==
  ASSUME IInv, Tick
  PROVE  IInv'
<1>1. DiskInv /\ KeptInv /\ SizeInv /\ WatchInv /\ CommandInv
  BY DEF IInv
<1>2. /\ UNCHANGED <<counted, history, table, command>> /\ UNCHANGED logVars
      /\ live' = [n \in Names |-> [live[n] EXCEPT !.cool = IF @ > 0 THEN @ - 1 ELSE 0]]
  BY DEF Tick, gateVars
<1>3. /\ DiskInv' /\ KeptInv' /\ SizeInv'
      /\ UNCHANGED active /\ LastWritten' \in Nat /\ LastWritten <= LastWritten'
  BY <1>1, <1>2, LogStays
<1>4. ASSUME NEW n \in Names
      PROVE  /\ live'[n] \in WatchType
             /\ live'[n].off = live[n].off /\ live'[n].size = live[n].size
             /\ live'[n].stat = live[n].stat /\ live'[n].pattern = live[n].pattern
             /\ live'[n].poll = live[n].poll
  <2>. DEFINE c == IF live[n].cool > 0 THEN live[n].cool - 1 ELSE 0
  <2>1. live[n] \in WatchType
    BY <1>1 DEF WatchInv
  <2>2. c \in Nat
    BY <2>1 DEF WatchType
  <2>3. live'[n] = [live[n] EXCEPT !.cool = c]
    BY <1>2
  <2>. HIDE DEF c
  <2>. QED
    BY <2>1, <2>2, <2>3 DEF WatchType
<1>5. live' \in [Names -> WatchType]
  <2>1. live' = [n \in Names |-> live'[n]]
    BY <1>2
  <2>. QED
    BY <1>4, <2>1
<1>6. ASSUME NEW n \in Names, history'[n] # "raced"
      PROVE  CountInv(n)'
  <2>1. CountInv(n)
    BY <1>1, <1>2, <1>6 DEF WatchInv
  <2>. QED
    BY <1>1, <1>2, <1>3, <1>4, <2>1, CountStays
<1>7. WatchInv'
  BY <1>1, <1>2, <1>5, <1>6 DEF WatchInv
<1>8. CommandInv'
  BY <1>1, <1>2 DEF CommandInv
<1>. QED
  BY <1>3, <1>7, <1>8 DEF IInv

\* The commands' and the boot's steps that leave log and watches alone; their
\* store calls may fail.
LEMMA GateStep ==
  ASSUME IInv,
         UNCHANGED <<diskVars, writerVars, written, acked>>,
         UNCHANGED faults \/ Fault,
         UNCHANGED <<live, counted, history>>, CommandInv'
  PROVE  IInv'
<1>1. DiskInv /\ KeptInv /\ SizeInv /\ WatchInv
  BY DEF IInv
<1>2. DiskInv' /\ KeptInv' /\ SizeInv' /\ WatchInv'
  BY <1>1, WatchStays
<1>. QED
  BY <1>2 DEF IInv

\* The watch of a name is replaced: it starts over.
LEMMA ReplaceStep ==
  ASSUME IInv, NEW n, NEW w \in WatchType, w.off = 0, w.size = 0, w.poll # "read",
         Replace(n, w), UNCHANGED logVars, CommandInv'
  PROVE  IInv'
<1>1. DiskInv /\ KeptInv /\ SizeInv /\ WatchInv
  BY DEF IInv
<1>2. /\ live' = [live EXCEPT ![n] = w]
      /\ counted' = [counted EXCEPT ![n] = [r \in Records |-> 0]]
      /\ history' = [history EXCEPT ![n] = "same"]
  BY DEF Replace
<1>3. /\ DiskInv' /\ KeptInv' /\ SizeInv'
      /\ UNCHANGED active /\ LastWritten' \in Nat /\ LastWritten <= LastWritten'
  BY <1>1, LogStays
<1>4. /\ live \in [Names -> WatchType] /\ history \in [Names -> {"same", "rotated", "raced"}]
      /\ counted = [m \in Names |-> counted[m]]
  BY <1>1 DEF WatchInv
<1>5. live' \in [Names -> WatchType] /\ history' \in [Names -> {"same", "rotated", "raced"}]
  BY <1>2, <1>4
<1>6. counted' = [m \in Names |-> counted'[m]]
  BY <1>2, <1>4
<1>7. ASSUME NEW m \in Names, history'[m] # "raced"
      PROVE  CountInv(m)'
  <2>1. CASE m = n
    <3>1. live'[m] = w /\ counted'[m] = [r \in Records |-> 0]
      BY <1>2, <1>4, <2>1
    <3>. QED
      BY <1>1, <1>3, <3>1, FreshCount
  <2>2. CASE m # n
    <3>1. live'[m] = live[m] /\ counted'[m] = counted[m] /\ history'[m] = history[m]
      BY <1>2, <1>4, <2>2
    <3>2. CountInv(m)
      BY <1>1, <1>7, <3>1 DEF WatchInv
    <3>. QED
      BY <1>1, <1>3, <3>1, <3>2, CountStays
  <2>. QED
    BY <2>1, <2>2
<1>8. WatchInv'
  BY <1>5, <1>6, <1>7 DEF WatchInv
<1>. QED
  BY <1>3, <1>8 DEF IInv

\* A new watch, and none, have read nothing.
LEMMA FreshFacts ==
  ASSUME NEW p \in Patterns \cup {NoPattern}
  PROVE  /\ Fresh(p) \in WatchType /\ NoWatch \in WatchType
         /\ Fresh(p).off = 0 /\ Fresh(p).size = 0 /\ Fresh(p).poll = "due"
         /\ NoWatch.off = 0 /\ NoWatch.size = 0 /\ NoWatch.poll = "idle"
BY DEF Fresh, NoWatch, WatchType

\* The steps of a command.
LEMMA CommandStep ==
  ASSUME IInv, NEW w \in Workers,
         \/ \E n \in Names, p \in Patterns \cup {NoPattern} : Take(w, n, p)
         \/ Add(w) \/ AddReturns(w) \/ RemoveWatch(w) \/ Persist(w)
  PROVE  IInv'
<1>. DEFINE Pcs == {"idle", "add", "first", "save", "remove", "delete"}
            Command == [pc : Pcs, name : Names \cup {"none"}, pattern : Patterns \cup {NoPattern}]
            c == command[w]
<1>1. /\ table \in [Names -> Patterns \cup {NoPattern}]
      /\ command \in [Workers -> Command]
  BY DEF IInv, CommandInv
<1>2. c \in Command
  BY <1>1
<1>3. ASSUME NEW x \in Command, command' = [command EXCEPT ![w] = x],
             table' \in [Names -> Patterns \cup {NoPattern}]
      PROVE  CommandInv'
  <2>. HIDE DEF Command
  <2>1. command' \in [Workers -> Command]
    BY <1>1, <1>3
  <2>. QED
    BY <1>3, <2>1 DEF CommandInv, Command
<1>4. ASSUME NEW pc \in Pcs, command' = [command EXCEPT ![w].pc = pc], UNCHANGED table
      PROVE  CommandInv'
  <2>. DEFINE x == [c EXCEPT !.pc = pc]
  <2>1. x \in Command
    BY <1>2
  <2>2. command' = [command EXCEPT ![w] = x]
    BY <1>4
  <2>. HIDE DEF x, Command
  <2>. QED
    BY <1>1, <1>3, <1>4, <2>1, <2>2
<1>5. ASSUME UNCHANGED logVars
      PROVE  UNCHANGED <<diskVars, writerVars, written, acked, faults>>
  BY <1>5 DEF logVars, diskVars, writerVars
<1>6. CASE \E n \in Names, p \in Patterns \cup {NoPattern} : Take(w, n, p)
  <2>1. PICK n \in Names, p \in Patterns \cup {NoPattern} : Take(w, n, p)
    BY <1>6
  <2>. DEFINE x == [pc |-> IF p = NoPattern THEN "remove" ELSE "add", name |-> n, pattern |-> p]
  <2>2. x \in Command
    OBVIOUS
  <2>3. /\ command' = [command EXCEPT ![w] = x] /\ UNCHANGED table
        /\ UNCHANGED logVars /\ UNCHANGED <<live, counted, history>>
    BY <2>1 DEF Take, watchVars
  <2>. HIDE DEF x, Command
  <2>4. CommandInv'
    BY <1>1, <1>3, <2>2, <2>3
  <2>. QED
    BY <1>5, <2>3, <2>4, GateStep
<1>7. CASE Add(w)
  <2>1. /\ Replace(c.name, Fresh(c.pattern)) /\ command' = [command EXCEPT ![w].pc = "first"]
        /\ UNCHANGED logVars /\ UNCHANGED table
    BY <1>7 DEF Add
  <2>2. CommandInv'
    BY <1>4, <2>1
  <2>3. c.pattern \in Patterns \cup {NoPattern}
    BY <1>2
  <2>. QED
    BY <2>1, <2>2, <2>3, FreshFacts, ReplaceStep
<1>8. CASE AddReturns(w)
  <2>1. /\ command' = [command EXCEPT ![w].pc = "save"]
        /\ UNCHANGED logVars /\ UNCHANGED table /\ UNCHANGED <<live, counted, history>>
    BY <1>8 DEF AddReturns, watchVars
  <2>2. CommandInv'
    BY <1>4, <2>1
  <2>. QED
    BY <1>5, <2>1, <2>2, GateStep
<1>9. CASE RemoveWatch(w)
  <2>1. /\ Replace(c.name, NoWatch) /\ command' = [command EXCEPT ![w].pc = "delete"]
        /\ UNCHANGED logVars /\ UNCHANGED table
    BY <1>9 DEF RemoveWatch
  <2>2. CommandInv'
    BY <1>4, <2>1
  <2>. QED
    BY <1>2, <2>1, <2>2, FreshFacts, ReplaceStep
<1>10. CASE Persist(w)
  <2>1. /\ command' = [command EXCEPT ![w] = Idle]
        /\ \/ table' = [table EXCEPT ![c.name] = c.pattern] /\ UNCHANGED faults
           \/ Fault /\ UNCHANGED table
        /\ UNCHANGED <<diskVars, writerVars, written, acked>>
        /\ UNCHANGED <<live, counted, history>>
    BY <1>10 DEF Persist, Stored, watchVars
  <2>2. UNCHANGED <<diskVars, writerVars, written, acked>>
    BY <2>1 DEF diskVars, writerVars
  <2>3. Idle \in Command
    BY DEF Idle
  <2>4. table' \in [Names -> Patterns \cup {NoPattern}]
    <3>1. c.pattern \in Patterns \cup {NoPattern}
      BY <1>2
    <3>. HIDE DEF c
    <3>. QED
      BY <1>1, <2>1, <3>1
  <2>. HIDE DEF Command
  <2>5. CommandInv'
    BY <1>3, <2>1, <2>3, <2>4
  <2>. QED
    BY <2>1, <2>2, <2>5, GateStep
<1>. QED
  BY <1>6, <1>7, <1>8, <1>9, <1>10

\* The boot adds the stored watches: they start over, the others go on.
LEMMA BootStep ==
  ASSUME IInv, BootList \/ BootAdd
  PROVE  IInv'
<1>1. DiskInv /\ KeptInv /\ SizeInv /\ WatchInv /\ CommandInv
  BY DEF IInv
<1>2. CASE BootList
  <2>1. /\ UNCHANGED <<diskVars, writerVars, written, acked>>
        /\ UNCHANGED faults \/ Fault
        /\ UNCHANGED <<live, counted, history, table, command>>
    BY <1>2 DEF BootList, diskVars, writerVars, watchVars
  <2>2. CommandInv'
    BY <1>1, <2>1 DEF CommandInv
  <2>. QED
    BY <2>1, <2>2, GateStep
<1>3. CASE BootAdd
  <2>1. /\ UNCHANGED logVars /\ UNCHANGED <<table, command>>
        /\ live' = [n \in Names |-> IF table[n] = NoPattern THEN live[n] ELSE Fresh(table[n])]
        /\ counted' = [n \in Names |-> IF table[n] = NoPattern THEN counted[n]
                                       ELSE [r \in Records |-> 0]]
        /\ history' = [n \in Names |-> IF table[n] = NoPattern THEN history[n] ELSE "same"]
    BY <1>3 DEF BootAdd
  <2>2. /\ DiskInv' /\ KeptInv' /\ SizeInv'
        /\ UNCHANGED active /\ LastWritten' \in Nat /\ LastWritten <= LastWritten'
    BY <1>1, <2>1, LogStays
  <2>3. /\ live \in [Names -> WatchType] /\ history \in [Names -> {"same", "rotated", "raced"}]
        /\ \A n \in Names : table[n] \in Patterns \cup {NoPattern}
    BY <1>1 DEF WatchInv, CommandInv
  <2>4. \A n \in Names : Fresh(table[n]) \in WatchType
    BY <2>3, FreshFacts
  <2>5. live' \in [Names -> WatchType] /\ history' \in [Names -> {"same", "rotated", "raced"}]
    BY <2>1, <2>3, <2>4
  <2>6. counted' = [n \in Names |-> counted'[n]]
    BY <2>1
  <2>7. ASSUME NEW n \in Names, history'[n] # "raced"
        PROVE  CountInv(n)'
    <3>1. CASE table[n] = NoPattern
      <4>1. live'[n] = live[n] /\ counted'[n] = counted[n] /\ history'[n] = history[n]
        BY <2>1, <3>1
      <4>2. CountInv(n)
        BY <1>1, <2>7, <4>1 DEF WatchInv
      <4>. QED
        BY <1>1, <2>2, <4>1, <4>2, CountStays
    <3>2. CASE table[n] # NoPattern
      <4>1. live'[n] = Fresh(table[n]) /\ counted'[n] = [r \in Records |-> 0]
        BY <2>1, <3>2
      <4>2. live'[n].off = 0 /\ live'[n].size = 0 /\ live'[n].poll # "read"
        BY <2>3, <4>1, FreshFacts
      <4>. QED
        BY <1>1, <2>2, <4>1, <4>2, FreshCount
    <3>. QED
      BY <3>1, <3>2
  <2>8. WatchInv'
    BY <2>5, <2>6, <2>7 DEF WatchInv
  <2>9. CommandInv'
    BY <1>1, <2>1 DEF CommandInv
  <2>. QED
    BY <2>2, <2>8, <2>9 DEF IInv
<1>. QED
  BY <1>2, <1>3

\* A restart: the log stays, the watches are gone.
LEMMA RestartStep ==
  ASSUME IInv, Restart
  PROVE  IInv'
<1>1. DiskInv /\ KeptInv /\ SizeInv /\ WatchInv /\ CommandInv
  BY DEF IInv
<1>2. /\ Fault /\ WriterRestarts /\ UNCHANGED <<diskVars, written, acked, table>> /\ UNCHANGED active
      /\ live' = [n \in Names |-> NoWatch]
      /\ counted' = [n \in Names |-> [r \in Records |-> 0]]
      /\ history' = [n \in Names |-> "same"]
      /\ command' = [w \in Workers |-> Idle]
  BY DEF Restart, diskVars
<1>3. DiskInv' /\ KeptInv' /\ SizeInv'
  BY <1>1, <1>2, RestartLog
<1>4. NoWatch \in WatchType /\ NoWatch.off = 0 /\ NoWatch.size = 0 /\ NoWatch.poll = "idle"
  <2>1. NoPattern \in Patterns \cup {NoPattern}
    OBVIOUS
  <2>. QED
    BY <2>1, FreshFacts
<1>5. WatchInv'
  <2>1. live' \in [Names -> WatchType] /\ history' \in [Names -> {"same", "rotated", "raced"}]
    BY <1>2, <1>4
  <2>2. counted' = [n \in Names |-> counted'[n]]
    BY <1>2
  <2>3. ASSUME NEW n \in Names
        PROVE  CountInv(n)'
    <3>1. live'[n] = NoWatch /\ counted'[n] = [r \in Records |-> 0]
      BY <1>2
    <3>. QED
      BY <1>1, <1>2, <1>4, <3>1, FreshCount
  <2>. QED
    BY <2>1, <2>2, <2>3 DEF WatchInv
<1>6. CommandInv'
  BY <1>1, <1>2 DEF CommandInv, Idle
<1>. QED
  BY <1>3, <1>5, <1>6 DEF IInv

-----------------------------------------------------------------------------
(* The invariant holds, and what follows from it.                          *)

\* The first start: no log, no watches.
LEMMA InitInvariant == Init => IInv
<1>. SUFFICES ASSUME Init
              PROVE  IInv
  OBVIOUS
<1>1. DiskInv /\ KeptInv /\ SizeInv
  BY InitLog DEF Init
<1>2. Len(active) = 0
  BY DEF Init, LogInit
<1>7. WatchInv
  <2>1. /\ live = [n \in Names |-> NoWatch]
        /\ counted = [n \in Names |-> [r \in Records |-> 0]]
        /\ history = [n \in Names |-> "same"]
    BY DEF Init
  <2>2. NoWatch \in WatchType /\ NoWatch.off = 0 /\ NoWatch.size = 0 /\ NoWatch.poll = "idle"
    <3>1. NoPattern \in Patterns \cup {NoPattern}
      OBVIOUS
    <3>. QED
      BY <3>1, FreshFacts
  <2>3. ASSUME NEW n \in Names
        PROVE  CountInv(n)
    <3>1. live[n] = NoWatch /\ \A r \in Records : counted[n][r] = 0
      BY <2>1
    <3>2. Aligned(n)
      BY <1>2, <2>2, <3>1 DEF Aligned
    <3>. QED
      BY <2>2, <3>1, <3>2 DEF CountInv
  <2>. QED
    BY <2>1, <2>2, <2>3 DEF WatchInv
<1>8. CommandInv
  BY DEF Init, CommandInv, Idle
<1>. QED
  BY <1>1, <1>7, <1>8 DEF IInv

\* Every step keeps the invariant.
LEMMA NextInvariant == IInv /\ [Next]_vars => IInv'
<1>. SUFFICES ASSUME IInv, [Next]_vars
              PROVE  IInv'
  OBVIOUS
<1>1. CASE LogStep
  BY <1>1, LogWatchStep
<1>2. ASSUME NEW n \in Names, Due(n) \/ PollStep(n)
      PROVE  IInv'
  BY <1>2, StatStep, ReadStep DEF PollStep
<1>3. CASE Tick
  BY <1>3, TickStep
<1>4. CASE PumpSend
  <2>1. /\ UNCHANGED <<diskVars, writerVars, written, acked, faults>>
        /\ UNCHANGED <<live, counted, history, table, command>>
    BY <1>4 DEF PumpSend, logVars, diskVars, writerVars, watchVars, gateVars
  <2>2. CommandInv'
    BY <2>1 DEF IInv, CommandInv
  <2>. QED
    BY <2>1, <2>2, GateStep
<1>5. ASSUME NEW w \in Workers,
             \/ \E n \in Names, p \in Patterns \cup {NoPattern} : Take(w, n, p)
             \/ Add(w) \/ AddReturns(w) \/ RemoveWatch(w) \/ Persist(w)
      PROVE  IInv'
  BY <1>5, CommandStep
<1>6. CASE BootList \/ BootAdd
  BY <1>6, BootStep
<1>7. CASE Restart
  BY <1>7, RestartStep
<1>8. CASE UNCHANGED vars
  <2>1. /\ UNCHANGED <<diskVars, writerVars, written, acked, faults>>
        /\ UNCHANGED <<live, counted, history, table, command>>
    BY <1>8 DEF vars, logVars, diskVars, writerVars, watchVars, gateVars
  <2>2. CommandInv'
    BY <2>1 DEF IInv, CommandInv
  <2>. QED
    BY <2>1, <2>2, GateStep
<1>. QED
  BY <1>1, <1>2, <1>3, <1>4, <1>5, <1>6, <1>7, <1>8 DEF Next

\* The inductive invariant of the log and its watches holds in every state.
THEOREM Invariant == Spec => []IInv
<1>1. Init => IInv
  BY InitInvariant
<1>2. IInv /\ [Next]_vars => IInv'
  BY NextInvariant
<1>. QED
  BY <1>1, <1>2, PTL DEF Spec

\* A watch counts each record at most once unless a rotation fell between the
\* Stat and the read of one of its polls; and as long as it has noticed every
\* rotation, it has counted each match of the part of the file that it has
\* passed.  A rotation that it does not notice costs it the records it skips
\* in the new file (RotationsShow): nothing is claimed of those.
THEOREM RecordsReadOnce == UnitRecords => (Spec => []ReadsOnce)
<1>1. IInv => ReadsOnce
  <2>. SUFFICES ASSUME IInv, NEW n \in Names
                PROVE  /\ history[n] # "raced" => \A r \in Records : counted[n][r] <= 1
                       /\ history[n] = "same" =>
                            \A i \in 1..live[n].off :
                              active[i] \in Matching[live[n].pattern] =>
                                counted[n][active[i]] = 1
    BY DEF ReadsOnce
  <2>1. history[n] # "raced" => CountInv(n)
    BY DEF IInv, WatchInv
  <2>2. history[n] # "raced" => \A r \in Records : counted[n][r] <= 1
    BY <2>1 DEF CountInv
  <2>3. history[n] = "same" => history[n] # "raced"
    OBVIOUS
  <2>. QED
    BY <2>1, <2>2, <2>3 DEF CountInv
<1>. QED
  BY <1>1, Invariant, PTL

-----------------------------------------------------------------------------
(* The table and the manager.                                              *)

\* The command has changed the manager and not the table.
Between(w) == command[w].pc \in {"first", "save", "delete"}

\* As long as commands ran one after the other and not beside the boot, and no
\* store call failed: a boot finds an empty manager, and a name on which the
\* manager differs from the table is that of the command under way, which is
\* about to write what the manager has.
GateInv ==
    ~overlap /\ ~degraded =>
        /\ \A v, w \in Workers : v # w => command[v].pc = "idle" \/ command[w].pc = "idle"
        /\ boot # "up" => /\ \A w \in Workers : command[w].pc = "idle"
                          /\ \A n \in Names : live[n].pattern = NoPattern
        /\ \A w \in Workers :
              /\ command[w].pc # "idle" => command[w].name \in Names
              /\ command[w].pc \in {"remove", "delete"} => command[w].pattern = NoPattern
              /\ Between(w) => live[command[w].name].pattern = command[w].pattern
        /\ boot = "up" =>
              \A n \in Names : \/ live[n].pattern = table[n]
                               \/ \E w \in Workers : Between(w) /\ command[w].name = n

\* A step that changes neither commands nor table, nor which pattern is watched.
LEMMA GateStays ==
  ASSUME GateInv, UNCHANGED <<table, command, boot, overlap, degraded>>,
         \A n \in Names : live'[n].pattern = live[n].pattern
  PROVE  GateInv'
BY DEF GateInv, Between

\* The log and the polls leave the patterns alone.
LEMMA PollGate ==
  ASSUME IInv, GateInv,
         \/ LogStep \/ Tick \/ PumpSend
         \/ \E n \in Names : Due(n) \/ PollStep(n)
  PROVE  GateInv'
<1>1. live \in [Names -> WatchType]
  BY DEF IInv, WatchInv
<1>2. \A n \in Names : live[n] \in WatchType
  BY <1>1
<1>3. CASE LogStep \/ PumpSend
  BY <1>3, GateStays DEF LogStep, PumpSend, gateVars, watchVars
<1>4. CASE Tick
  <2>1. live' = [n \in Names |-> [live[n] EXCEPT !.cool = IF @ > 0 THEN @ - 1 ELSE 0]]
    BY <1>4 DEF Tick
  <2>2. \A n \in Names : live'[n].pattern = live[n].pattern
    BY <1>2, <2>1 DEF WatchType
  <2>. QED
    BY <1>4, <2>2, GateStays DEF Tick, gateVars
<1>5. ASSUME NEW n \in Names, Due(n) \/ PollStep(n)
      PROVE  GateInv'
  <2>1. UNCHANGED <<table, command, boot, overlap, degraded>>
    BY <1>5 DEF Due, PollStep, Stat, Read, gateVars
  <2>2. \A m \in Names : m # n => live'[m] = live[m]
    BY <1>1, <1>5 DEF Due, PollStep, Stat, Read
  <2>3. CASE Due(n)
    <3>1. live'[n] = [live[n] EXCEPT !.poll = "due"]
      BY <1>1, <2>3 DEF Due
    <3>2. live'[n].pattern = live[n].pattern
      BY <1>2, <3>1 DEF WatchType
    <3>. QED
      BY <2>1, <2>2, <3>2, GateStays
  <2>4. CASE Stat(n)
    <3>. DEFINE s == Len(active)
                off == IF Rotation(n, s) THEN 0 ELSE live[n].off
    <3>1. live'[n] = IF ~there THEN [live[n] EXCEPT !.poll = "idle"]
                     ELSE IF s = off THEN [live[n] EXCEPT !.poll = "idle", !.off = off, !.size = s]
                     ELSE [live[n] EXCEPT !.poll = "read", !.off = off, !.size = s,
                                          !.stat = s - off]
      BY <1>1, <2>4 DEF Stat
    <3>. HIDE DEF off, s
    <3>2. live'[n].pattern = live[n].pattern
      BY <1>2, <3>1 DEF WatchType
    <3>. QED
      BY <2>1, <2>2, <3>2, GateStays
  <2>5. CASE Read(n)
    <3>. DEFINE lines == IF there THEN ReadAt(n) ELSE <<>>
                hits == {i \in 1..Len(lines) : lines[i] \in Matching[live[n].pattern]}
                cool == IF hits # {} /\ live[n].cool = 0 THEN Cooldown ELSE live[n].cool
                off == live[n].off + Len(lines)
    <3>1. live' = [live EXCEPT ![n] = [live[n] EXCEPT !.poll = "idle", !.stat = 0, !.off = off,
                                                      !.cool = cool]]
      BY <2>5 DEF Read
    <3>. HIDE DEF lines, hits, cool, off
    <3>2. live'[n] = [live[n] EXCEPT !.poll = "idle", !.stat = 0, !.off = off, !.cool = cool]
      BY <1>1, <3>1
    <3>3. live'[n].pattern = live[n].pattern
      BY <1>2, <3>2 DEF WatchType
    <3>. QED
      BY <2>1, <2>2, <3>3, GateStays
  <2>. QED
    BY <1>5, <2>3, <2>4, <2>5 DEF PollStep
<1>. QED
  BY <1>3, <1>4, <1>5

\* A command changes the manager first and the table second.
LEMMA CommandGate ==
  ASSUME IInv, GateInv, NEW w \in Workers,
         \/ \E n \in Names, p \in Patterns \cup {NoPattern} : Take(w, n, p)
         \/ Add(w) \/ AddReturns(w) \/ RemoveWatch(w) \/ Persist(w)
  PROVE  GateInv'
<1>. DEFINE c == command[w]
            Command == [pc : {"idle", "add", "first", "save", "remove", "delete"},
                        name : Names \cup {"none"}, pattern : Patterns \cup {NoPattern}]
<1>1. /\ table \in [Names -> Patterns \cup {NoPattern}]
      /\ command \in [Workers -> Command] /\ c \in Command
      /\ live \in [Names -> WatchType]
  BY DEF IInv, CommandInv, WatchInv
<1>2. ASSUME NEW pc \in {"first", "save", "delete"}, command' = [command EXCEPT ![w].pc = pc]
      PROVE  /\ command'[w] = [c EXCEPT !.pc = pc]
             /\ command'[w].pc = pc /\ command'[w].name = c.name /\ command'[w].pattern = c.pattern
             /\ \A v \in Workers : v # w => command'[v] = command[v]
  <2>1. /\ command'[w] = [c EXCEPT !.pc = pc]
        /\ \A v \in Workers : v # w => command'[v] = command[v]
    BY <1>1, <1>2
  <2>. QED
    BY <1>1, <2>1
<1>3. CASE \E n \in Names, p \in Patterns \cup {NoPattern} : Take(w, n, p)
  <2>1. PICK n \in Names, p \in Patterns \cup {NoPattern} : Take(w, n, p)
    BY <1>3
  <2>. DEFINE x == [pc |-> IF p = NoPattern THEN "remove" ELSE "add", name |-> n, pattern |-> p]
  <2>2. /\ c.pc = "idle" /\ command' = [command EXCEPT ![w] = x]
        /\ overlap' = (overlap \/ Busy)
        /\ UNCHANGED <<live, table, boot, degraded>>
    BY <2>1 DEF Take, watchVars
  <2>3. /\ x.pc \in {"remove", "add"} /\ x.name = n /\ x.pattern = p
        /\ (x.pc = "remove" => p = NoPattern)
    OBVIOUS
  <2>. HIDE DEF x
  <2>4. command'[w] = x /\ \A v \in Workers : v # w => command'[v] = command[v]
    BY <1>1, <2>2
  <2>. SUFFICES ASSUME ~overlap', ~degraded'
                PROVE  GateInv'
    BY DEF GateInv
  <2>5. ~overlap /\ ~degraded /\ boot = "up" /\ \A v \in Workers : command[v].pc = "idle"
    BY <2>2 DEF Busy
  <2>6. \A v \in Workers : ~Between(v) /\ ~Between(v)'
    BY <2>3, <2>4, <2>5 DEF Between
  <2>. QED
    BY <2>2, <2>3, <2>4, <2>5, <2>6 DEF GateInv
<1>4. ASSUME NEW pc \in {"first", "delete"}, NEW watch \in WatchType,
             watch.pattern = c.pattern, c.pc \in {"add", "remove"},
             pc = "delete" => c.pc = "remove",
             live' = [live EXCEPT ![c.name] = watch], command' = [command EXCEPT ![w].pc = pc],
             UNCHANGED <<table, boot, overlap, degraded>>
      PROVE  GateInv'
  <2>. SUFFICES ASSUME ~overlap, ~degraded
                PROVE  GateInv'
    BY <1>4 DEF GateInv
  <2>1. /\ command'[w].pc = pc /\ command'[w].name = c.name /\ command'[w].pattern = c.pattern
        /\ \A v \in Workers : v # w => command'[v] = command[v]
    BY <1>2, <1>4
  <2>2. /\ \A v \in Workers : v # w => command[v].pc = "idle"
        /\ boot = "up" /\ c.name \in Names
        /\ pc = "delete" => c.pattern = NoPattern
    BY <1>4 DEF GateInv
  <2>3. /\ live'[c.name].pattern = c.pattern
        /\ \A n \in Names : n # c.name => live'[n] = live[n]
    BY <1>1, <1>4, <2>2
  <2>4. /\ \A v \in Workers : ~Between(v)
        /\ \A v \in Workers : Between(v)' <=> v = w
    BY <1>4, <2>1, <2>2 DEF Between
  <2>5. \A n \in Names : live[n].pattern = table[n]
    BY <2>2, <2>4 DEF GateInv
  <2>. HIDE DEF c
  <2>6. \A n \in Names : \/ live'[n].pattern = table'[n]
                         \/ \E v \in Workers : Between(v)' /\ command'[v].name = n
    BY <1>4, <2>1, <2>3, <2>4, <2>5
  <2>7. \A v \in Workers :
           /\ command'[v].pc # "idle" => command'[v].name \in Names
           /\ command'[v].pc \in {"remove", "delete"} => command'[v].pattern = NoPattern
           /\ Between(v)' => live'[command'[v].name].pattern = command'[v].pattern
    <3>. TAKE v \in Workers
    <3>1. CASE v = w
      BY <1>4, <2>1, <2>2, <2>3, <3>1
    <3>2. CASE v # w
      BY <2>1, <2>2, <2>4, <3>2
    <3>. QED
      BY <3>1, <3>2
  <2>8. \A u, v \in Workers : u # v => command'[u].pc = "idle" \/ command'[v].pc = "idle"
    BY <2>1, <2>2
  <2>. QED
    BY <1>4, <2>2, <2>6, <2>7, <2>8 DEF GateInv
<1>5. CASE Add(w)
  <2>1. /\ c.pc = "add" /\ live' = [live EXCEPT ![c.name] = Fresh(c.pattern)]
        /\ command' = [command EXCEPT ![w].pc = "first"]
        /\ UNCHANGED <<table, boot, overlap, degraded>>
    BY <1>5 DEF Add, Replace
  <2>2. c.pattern \in Patterns \cup {NoPattern}
    BY <1>1
  <2>. HIDE DEF c
  <2>3. Fresh(c.pattern) \in WatchType /\ Fresh(c.pattern).pattern = c.pattern
    BY <2>2, FreshFacts DEF Fresh, NoWatch
  <2>. QED
    BY <1>4, <2>1, <2>3
<1>6. CASE RemoveWatch(w)
  <2>1. /\ c.pc = "remove" /\ live' = [live EXCEPT ![c.name] = NoWatch]
        /\ command' = [command EXCEPT ![w].pc = "delete"]
        /\ UNCHANGED <<table, boot, overlap, degraded>>
    BY <1>6 DEF RemoveWatch, Replace
  <2>2. NoWatch \in WatchType /\ NoWatch.pattern = NoPattern
    <3>1. NoPattern \in Patterns \cup {NoPattern}
      OBVIOUS
    <3>. QED
      BY <3>1, FreshFacts DEF NoWatch
  <2>3. ~overlap /\ ~degraded => c.pattern = NoPattern
    BY <2>1 DEF GateInv
  <2>4. CASE ~overlap /\ ~degraded
    BY <1>4, <2>1, <2>2, <2>3, <2>4
  <2>5. CASE ~(~overlap /\ ~degraded)
    BY <2>1, <2>5 DEF GateInv
  <2>. QED
    BY <2>4, <2>5
<1>7. CASE AddReturns(w)
  <2>1. /\ c.pc = "first" /\ command' = [command EXCEPT ![w].pc = "save"]
        /\ UNCHANGED <<live, table, boot, overlap, degraded>>
    BY <1>7 DEF AddReturns, watchVars
  <2>2. /\ command'[w].pc = "save" /\ command'[w].name = c.name /\ command'[w].pattern = c.pattern
        /\ \A v \in Workers : v # w => command'[v] = command[v]
    BY <1>2, <2>1
  <2>3. \A v \in Workers : /\ Between(v)' <=> Between(v)
                           /\ command'[v].name = command[v].name
                           /\ command'[v].pattern = command[v].pattern
                           /\ command'[v].pc = "idle" <=> command[v].pc = "idle"
                           /\ command'[v].pc \in {"remove", "delete"} =>
                                 command[v].pc \in {"remove", "delete"}
    BY <2>1, <2>2 DEF Between
  <2>. HIDE DEF c
  <2>. QED
    BY <2>1, <2>3 DEF GateInv
<1>8. CASE Persist(w)
  <2>1. /\ c.pc \in {"save", "delete"} /\ command' = [command EXCEPT ![w] = Idle]
        /\ UNCHANGED <<live, boot, overlap>>
        /\ \/ table' = [table EXCEPT ![c.name] = c.pattern] /\ UNCHANGED degraded
           \/ degraded' = TRUE
    BY <1>8 DEF Persist, Stored, watchVars
  <2>. SUFFICES ASSUME ~overlap', ~degraded'
                PROVE  GateInv'
    BY DEF GateInv
  <2>2. ~overlap /\ ~degraded /\ table' = [table EXCEPT ![c.name] = c.pattern]
    BY <2>1
  <2>3. /\ \A v \in Workers : v # w => command[v].pc = "idle"
        /\ boot = "up" /\ c.name \in Names /\ live[c.name].pattern = c.pattern
    BY <2>1, <2>2 DEF GateInv, Between
  <2>4. command'[w] = Idle /\ \A v \in Workers : v # w => command'[v] = command[v]
    BY <1>1, <2>1
  <2>5. \A v \in Workers : command'[v].pc = "idle" /\ ~Between(v)'
    BY <2>3, <2>4 DEF Idle, Between
  <2>6. \A n \in Names : n # c.name => live[n].pattern = table[n]
    BY <2>2, <2>3 DEF GateInv, Between
  <2>. HIDE DEF c
  <2>7. \A n \in Names : live[n].pattern = table'[n]
    BY <1>1, <2>2, <2>3, <2>6
  <2>. QED
    BY <2>1, <2>3, <2>5, <2>7 DEF GateInv
<1>. QED
  BY <1>3, <1>5, <1>6, <1>7, <1>8

\* The boot fills an empty manager from the table, and a restart empties it.
LEMMA BootGate ==
  ASSUME IInv, GateInv, BootList \/ BootAdd \/ Restart
  PROVE  GateInv'
<1>1. CASE BootList
  <2>1. /\ boot = "list" /\ UNCHANGED <<live, table, command, overlap>>
        /\ \/ boot' = "add" /\ UNCHANGED degraded
           \/ boot' = "up" /\ degraded' = TRUE
    BY <1>1 DEF BootList, watchVars
  <2>. QED
    BY <2>1 DEF GateInv, Between
<1>2. CASE BootAdd
  <2>1. /\ boot = "add" /\ boot' = "up" /\ UNCHANGED <<table, command, overlap, degraded>>
        /\ live' = [n \in Names |-> IF table[n] = NoPattern THEN live[n] ELSE Fresh(table[n])]
    BY <1>2 DEF BootAdd
  <2>. SUFFICES ASSUME ~overlap, ~degraded
                PROVE  GateInv'
    BY <2>1 DEF GateInv
  <2>2. /\ \A w \in Workers : command[w].pc = "idle"
        /\ \A n \in Names : live[n].pattern = NoPattern
    BY <2>1 DEF GateInv
  <2>3. \A n \in Names : Fresh(table[n]).pattern = table[n]
    BY DEF Fresh, NoWatch
  <2>4. \A n \in Names : live'[n].pattern = table[n]
    BY <2>1, <2>2, <2>3
  <2>. QED
    BY <2>1, <2>2, <2>4 DEF GateInv, Between
<1>3. CASE Restart
  <2>1. /\ live' = [n \in Names |-> NoWatch] /\ command' = [w \in Workers |-> Idle]
        /\ boot' = "list"
    BY <1>3 DEF Restart
  <2>2. \A w \in Workers : command'[w].pc = "idle"
    BY <2>1 DEF Idle
  <2>3. \A n \in Names : live'[n].pattern = NoPattern
    BY <2>1 DEF NoWatch
  <2>. QED
    BY <2>1, <2>2, <2>3 DEF GateInv, Between
<1>. QED
  BY <1>1, <1>2, <1>3

\* Every step keeps manager and table together.
LEMMA NextGate == IInv /\ GateInv /\ [Next]_vars => GateInv'
<1>. SUFFICES ASSUME IInv, GateInv, [Next]_vars
              PROVE  GateInv'
  OBVIOUS
<1>1. CASE UNCHANGED vars
  BY <1>1, GateStays DEF vars, watchVars, gateVars
<1>. QED
  BY <1>1, PollGate, CommandGate, BootGate DEF Next

\* When nothing is under way, what the manager watches is what the table will
\* restore after the next restart: through replaced and removed watches and
\* restarts at any moment, as long as no store call failed and no command ran
\* beside another one or the boot.
THEOREM TableIsLive == Spec => []TableMatchesLive
<1>1. Init => GateInv
  <2>. SUFFICES ASSUME Init PROVE GateInv
    OBVIOUS
  <2>1. /\ \A w \in Workers : command[w].pc = "idle"
        /\ \A n \in Names : live[n].pattern = NoPattern /\ table[n] = NoPattern
        /\ boot = "up"
    BY DEF Init, Idle, NoWatch
  <2>. QED
    BY <2>1 DEF GateInv, Between
<1>2. GateInv => TableMatchesLive
  BY DEF GateInv, Between, TableMatchesLive, Busy
<1>. QED
  BY <1>1, <1>2, NextGate, Invariant, PTL DEF Spec

-----------------------------------------------------------------------------
(* Forecasts: numbers, and functions defined by recursion over them.       *)

\* Every non-empty set of naturals has a least element.
LEMMA LeastNumber ==
  ASSUME NEW T, T \subseteq Nat, T # {}
  PROVE  \E m \in T : \A y \in T : m <= y
<1>. DEFINE R == {ss \in Nat \X Nat : ss[1] < ss[2]}
<1>1. IsWellFoundedOn(R, Nat)
  BY NatLessThanWellFounded DEF OpToRel
<1>. HIDE DEF R
<1>2. PICK x \in T : \A y \in T : ~ (<<y, x>> \in R)
  BY <1>1, WFMin
<1>3. \A y \in T : ~(y < x)
  BY <1>2 DEF R
<1>. QED
  BY <1>3

\* An element of a sequence is in the set the sequence is over.
LEMMA ElementType ==
  ASSUME NEW S, NEW z \in Seq(S), NEW i \in 1..Len(z)
  PROVE  z[i] \in S
OBVIOUS

\* A function of numbers may be given by its first value and by a step from
\* each value to the next.
LEMMA RecursionExists ==
  ASSUME NEW n \in Nat, NEW a \in Int, NEW step \in [1..n -> [Int -> Int]]
  PROVE  \E f \in [0..n -> Int] :
            f[0] = a /\ \A i \in 1..n : f[i] = step[i][f[i - 1]]
<1>. DEFINE Upto(m) == \E f \in [0..m -> Int] :
                          f[0] = a /\ \A i \in 1..m : f[i] = step[i][f[i - 1]]
            T == {m \in 0..n : ~Upto(m)}
<1>1. Upto(0)
  <2>. DEFINE f == [i \in 0..0 |-> a]
  <2>1. f \in [0..0 -> Int] /\ f[0] = a
    OBVIOUS
  <2>2. 1..0 = {}
    OBVIOUS
  <2>. QED
    BY <2>1, <2>2
<1>2. ASSUME NEW m \in 1..n, Upto(m - 1)
      PROVE  Upto(m)
  <2>1. PICK f \in [0..(m - 1) -> Int] :
           f[0] = a /\ \A i \in 1..(m - 1) : f[i] = step[i][f[i - 1]]
    BY <1>2
  <2>. DEFINE g == [i \in 0..m |-> IF i = m THEN step[m][f[m - 1]] ELSE f[i]]
  <2>2. step[m][f[m - 1]] \in Int
    OBVIOUS
  <2>3. g \in [0..m -> Int]
    BY <2>2
  <2>4. g[0] = a
    BY <2>1
  <2>5. ASSUME NEW i \in 1..m
        PROVE  g[i] = step[i][g[i - 1]]
    <3>1. i - 1 \in 0..(m - 1) /\ g[i - 1] = f[i - 1]
      OBVIOUS
    <3>2. CASE i = m
      BY <3>1, <3>2
    <3>3. CASE i # m
      BY <2>1, <3>1, <3>3
    <3>. QED
      BY <3>2, <3>3
  <2>. QED
    BY <2>3, <2>4, <2>5
<1>3. T = {}
  <2>. SUFFICES ASSUME T # {}
                PROVE  FALSE
    OBVIOUS
  <2>. HIDE DEF Upto
  <2>1. T \subseteq Nat
    OBVIOUS
  <2>2. PICK m \in T : \A y \in T : m <= y
    <3>. HIDE DEF T
    <3>. QED
      BY <2>1, LeastNumber
  <2>3. m # 0 /\ m \in 0..n /\ ~Upto(m)
    BY <1>1
  <2>4. m - 1 \in 0..n /\ m - 1 \notin T
    BY <2>2, <2>3
  <2>. QED
    BY <2>3, <2>4, <1>2
<1>4. n \in 0..n
  OBVIOUS
<1>5. Upto(n)
  <2>. HIDE DEF Upto
  <2>. QED
    BY <1>3, <1>4
<1>. QED
  BY <1>5

\* Total adds up, from the first element to the last.
LEMMA TotalFacts ==
  ASSUME NEW z \in Seq(Int)
  PROVE  \E sum \in [0..Len(z) -> Int] :
            /\ sum[0] = 0
            /\ \A i \in 1..Len(z) : sum[i] = sum[i - 1] + z[i]
            /\ Total(z) = sum[Len(z)]
<1>. DEFINE n == Len(z)
            step == [i \in 1..n |-> [v \in Int |-> v + z[i]]]
            Rec(f) == f = [i \in 0..n |-> IF i = 0 THEN 0 ELSE f[i - 1] + z[i]]
            sum == CHOOSE f : Rec(f)
<1>1. step \in [1..n -> [Int -> Int]] /\ n \in Nat
  OBVIOUS
<1>2. PICK f \in [0..n -> Int] : f[0] = 0 /\ \A i \in 1..n : f[i] = step[i][f[i - 1]]
  <2>. HIDE DEF step, n
  <2>1. 0 \in Int
    OBVIOUS
  <2>. QED
    BY <1>1, <2>1, RecursionExists
<1>3. Rec(f)
  <2>1. ASSUME NEW i \in 0..n
        PROVE  f[i] = IF i = 0 THEN 0 ELSE f[i - 1] + z[i]
    <3>1. CASE i = 0
      BY <3>1, <1>2
    <3>2. CASE i # 0
      <4>1. i \in 1..n /\ i - 1 \in 0..n
        BY <3>2
      <4>2. f[i] = step[i][f[i - 1]] /\ f[i - 1] \in Int
        BY <4>1, <1>2
      <4>. QED
        BY <4>1, <4>2, <3>2
    <3>. QED
      BY <3>1, <3>2
  <2>. QED
    BY <2>1
<1>4. Rec(sum)
  BY <1>3
<1>5. Total(z) = sum[n]
  BY Zenon DEF Total
<1>6. f[0] = 0 /\ \A i \in 1..n : f[i] = f[i - 1] + z[i]
  BY <1>3
<1>7. sum[0] = 0 /\ \A i \in 1..n : sum[i] = sum[i - 1] + z[i]
  BY <1>4
<1>. DEFINE T == {i \in 0..n : sum[i] # f[i]}
<1>8. T = {}
  <2>. SUFFICES ASSUME T # {}
                PROVE  FALSE
    OBVIOUS
  <2>. HIDE DEF sum, Rec, step
  <2>1. T \subseteq Nat
    OBVIOUS
  <2>2. PICK m \in T : \A y \in T : m <= y
    <3>. HIDE DEF T
    <3>. QED
      BY <2>1, LeastNumber
  <2>3. m \in 1..n
    BY <1>6, <1>7
  <2>4. m - 1 \in 0..n /\ m - 1 \notin T
    BY <2>2, <2>3
  <2>. QED
    BY <1>6, <1>7, <2>3, <2>4
<1>9. n \in 0..n
  BY <1>1
<1>10. Total(z) = f[n]
  BY <1>5, <1>8, <1>9
<1>. HIDE DEF step, Rec, sum
<1>. QED
  BY <1>6, <1>10

\* A total of integers is an integer.
LEMMA TotalType ==
  ASSUME NEW z \in Seq(Int)
  PROVE  Total(z) \in Int
BY TotalFacts

\* Each element of w is a linear form in those of u and v.
Combines(w, u, v, a, b, c) ==
    \A i \in 1..Len(w) : w[i] = a * u[i] + b * v[i] + c

\* Totals are linear.
LEMMA TotalLinear ==
  ASSUME NEW u \in Seq(Int), NEW v \in Seq(Int), NEW w \in Seq(Int),
         Len(u) = Len(w), Len(v) = Len(w),
         NEW a \in Int, NEW b \in Int, NEW c \in Int,
         Combines(w, u, v, a, b, c)
  PROVE  Total(w) = a * Total(u) + b * Total(v) + c * Len(w)
<1>. DEFINE n == Len(w)
<1>1. PICK su \in [0..n -> Int] :
         su[0] = 0 /\ (\A i \in 1..n : su[i] = su[i - 1] + u[i]) /\ Total(u) = su[n]
  BY TotalFacts
<1>2. PICK sv \in [0..n -> Int] :
         sv[0] = 0 /\ (\A i \in 1..n : sv[i] = sv[i - 1] + v[i]) /\ Total(v) = sv[n]
  BY TotalFacts
<1>3. PICK sw \in [0..n -> Int] :
         sw[0] = 0 /\ (\A i \in 1..n : sw[i] = sw[i - 1] + w[i]) /\ Total(w) = sw[n]
  BY TotalFacts
<1>. DEFINE Adds(i) == sw[i] = a * su[i] + b * sv[i] + c * i
            T == {i \in 0..n : ~Adds(i)}
<1>4. Adds(0)
  BY <1>1, <1>2, <1>3
<1>5. ASSUME NEW i \in 1..n, Adds(i - 1)
      PROVE  Adds(i)
  <2>1. i - 1 \in 0..n /\ i \in 0..n
    OBVIOUS
  <2>2. /\ su[i] = su[i - 1] + u[i] /\ sv[i] = sv[i - 1] + v[i]
        /\ sw[i] = sw[i - 1] + (a * u[i] + b * v[i] + c)
        /\ sw[i - 1] = a * su[i - 1] + b * sv[i - 1] + c * (i - 1)
    BY <1>1, <1>2, <1>3, <1>5 DEF Combines
  <2>3. u[i] \in Int /\ v[i] \in Int /\ su[i - 1] \in Int /\ sv[i - 1] \in Int
    <3>1. i \in 1..Len(u) /\ i \in 1..Len(v) /\ n = Len(u) /\ n = Len(v)
      OBVIOUS
    <3>2. u[i] \in Int /\ v[i] \in Int
      BY <3>1, ElementType
    <3>. QED
      BY <2>1, <3>1, <3>2
  <2>. DEFINE p == su[i - 1]  q == sv[i - 1]  x == u[i]  y == v[i]
  <2>4. (a * p + b * q + c * (i - 1)) + (a * x + b * y + c)
          = a * (p + x) + b * (q + y) + c * i
    <3>. HIDE DEF p, q, x, y
    <3>1. p \in Int /\ q \in Int /\ x \in Int /\ y \in Int
      BY <2>3 DEF p, q, x, y
    <3>. QED
      BY <3>1
  <2>. QED
    BY <2>2, <2>4
<1>6. T = {}
  <2>. SUFFICES ASSUME T # {}
                PROVE  FALSE
    OBVIOUS
  <2>. HIDE DEF Adds
  <2>1. T \subseteq Nat
    OBVIOUS
  <2>2. PICK m \in T : \A y \in T : m <= y
    <3>. HIDE DEF T
    <3>. QED
      BY <2>1, LeastNumber
  <2>3. m # 0 /\ m \in 0..n /\ ~Adds(m)
    BY <1>4
  <2>4. m - 1 \in 0..n /\ m - 1 \notin T
    <3>1. m - 1 \in 0..n /\ ~(m <= m - 1)
      BY <2>3
    <3>. HIDE DEF T
    <3>. QED
      BY <2>2, <3>1
  <2>. QED
    BY <2>3, <2>4, <1>5
<1>7. n \in 0..n
  OBVIOUS
<1>8. Adds(n)
  <2>. HIDE DEF Adds
  <2>. QED
    BY <1>6, <1>7
<1>. QED
  BY <1>1, <1>2, <1>3, <1>8

\* A total of naturals is a natural.
LEMMA TotalNonneg ==
  ASSUME NEW z \in Seq(Nat)
  PROVE  Total(z) \in Nat
<1>. DEFINE n == Len(z)
<1>1. PICK s \in [0..n -> Int] :
         s[0] = 0 /\ (\A i \in 1..n : s[i] = s[i - 1] + z[i]) /\ Total(z) = s[n]
  BY TotalFacts
<1>. DEFINE T == {i \in 0..n : s[i] < 0}
<1>2. T = {}
  <2>. SUFFICES ASSUME T # {}
                PROVE  FALSE
    OBVIOUS
  <2>1. T \subseteq Nat
    OBVIOUS
  <2>2. PICK m \in T : \A y \in T : m <= y
    <3>. HIDE DEF T
    <3>. QED
      BY <2>1, LeastNumber
  <2>3. m \in 1..n /\ s[m] < 0
    BY <1>1
  <2>4. m - 1 \in 0..n /\ m - 1 \notin T
    BY <2>2, <2>3
  <2>5. s[m - 1] \in Int /\ s[m - 1] >= 0 /\ s[m] = s[m - 1] + z[m]
    <3>1. s[m] = s[m - 1] + z[m]
      BY <1>1, <2>3
    <3>2. s[m - 1] \in Int /\ ~(s[m - 1] < 0)
      BY <2>4
    <3>. QED
      BY <3>1, <3>2
  <2>6. z[m] \in Nat
    BY <2>3, ElementType
  <2>7. s[m] >= 0
    BY <2>5, <2>6
  <2>. QED
    BY <2>3, <2>5, <2>7
<1>3. n \in 0..n
  OBVIOUS
<1>. QED
  BY <1>1, <1>2, <1>3

-----------------------------------------------------------------------------
(* The fit.                                                                *)

\* The terms of the sums of leastSquares: the places, their squares, their products
\* with the values, the values and the residuals.
Places(y) == [i \in DOMAIN y |-> i - 1]
Squares(y) == [i \in DOMAIN y |-> (i - 1) * (i - 1)]
Products(y) == [i \in DOMAIN y |-> (i - 1) * y[i]]
Values(y) == [i \in DOMAIN y |-> y[i]]
Residuals(y) == [i \in DOMAIN y |-> Residual(y, i)]

\* A function over 1..n into S is a sequence over S.
LEMMA FunctionIsSeq ==
  ASSUME NEW S, NEW n \in Nat, NEW f, f = [i \in 1..n |-> f[i]], \A i \in 1..n : f[i] \in S
  PROVE  f \in Seq(S) /\ Len(f) = n /\ DOMAIN f = 1..n
<1>1. f \in [1..n -> S]
  OBVIOUS
<1>. QED
  BY <1>1

\* The sums of leastSquares are over sequences of integers.
LEMMA TermsType ==
  ASSUME NEW y \in Seq(Int)
  PROVE  /\ Places(y) \in Seq(Int) /\ Len(Places(y)) = Len(y)
         /\ Squares(y) \in Seq(Int) /\ Len(Squares(y)) = Len(y)
         /\ Products(y) \in Seq(Int) /\ Len(Products(y)) = Len(y)
         /\ Values(y) \in Seq(Int) /\ Len(Values(y)) = Len(y)
         /\ \A i \in 1..Len(y) :
              /\ y[i] \in Int
              /\ Places(y)[i] = i - 1 /\ Squares(y)[i] = (i - 1) * (i - 1)
              /\ Products(y)[i] = (i - 1) * y[i] /\ Values(y)[i] = y[i]
              /\ Places(y)[i] \in Int /\ Squares(y)[i] \in Int
              /\ Products(y)[i] \in Int /\ Values(y)[i] \in Int
<1>. DEFINE n == Len(y)
<1>1. n \in Nat /\ DOMAIN y = 1..n
  OBVIOUS
<1>2. \A i \in 1..n : y[i] \in Int
  BY ElementType
<1>3. \A i \in 1..n : i - 1 \in Int
  BY <1>1
<1>4. \A p, q \in Int : p * q \in Int
  OBVIOUS
<1>. HIDE DEF n
<1>5. Places(y) = [i \in 1..n |-> Places(y)[i]] /\ \A i \in 1..n : Places(y)[i] = i - 1
  BY <1>1 DEF Places
<1>6. Squares(y) = [i \in 1..n |-> Squares(y)[i]] /\ \A i \in 1..n : Squares(y)[i] = (i - 1) * (i - 1)
  BY <1>1, Zenon DEF Squares
<1>7. Products(y) = [i \in 1..n |-> Products(y)[i]] /\ \A i \in 1..n : Products(y)[i] = (i - 1) * y[i]
  BY <1>1, Zenon DEF Products
<1>8. Values(y) = [i \in 1..n |-> Values(y)[i]] /\ \A i \in 1..n : Values(y)[i] = y[i]
  BY <1>1 DEF Values
<1>9. \A i \in 1..n : Squares(y)[i] \in Int /\ Products(y)[i] \in Int
  BY <1>2, <1>3, <1>4, <1>6, <1>7, Zenon
<1>10. Places(y) \in Seq(Int) /\ Len(Places(y)) = n
  BY <1>1, <1>3, <1>5, FunctionIsSeq
<1>11. Squares(y) \in Seq(Int) /\ Len(Squares(y)) = n
  BY <1>1, <1>9, <1>6, FunctionIsSeq, Zenon
<1>12. Products(y) \in Seq(Int) /\ Len(Products(y)) = n
  BY <1>1, <1>9, <1>7, FunctionIsSeq, Zenon
<1>13. Values(y) \in Seq(Int) /\ Len(Values(y)) = n
  BY <1>1, <1>2, <1>8, FunctionIsSeq
<1>. QED
  BY <1>2, <1>3, <1>5, <1>6, <1>7, <1>8, <1>9, <1>10, <1>11, <1>12, <1>13, Zenon DEF n

\* The sums of leastSquares are integers.
LEMMA SumsType ==
  ASSUME NEW y \in Seq(Int)
  PROVE  /\ SumX(y) = Total(Places(y)) /\ SumX(y) \in Int
         /\ SumXX(y) = Total(Squares(y)) /\ SumXX(y) \in Int
         /\ SumXY(y) = Total(Products(y)) /\ SumXY(y) \in Int
         /\ SumY(y) = Total(Values(y)) /\ SumY(y) \in Int
         /\ SlopeDen(y) \in Int /\ SlopeNum(y) \in Int /\ Len(y) \in Nat
<1>1. /\ SumX(y) = Total(Places(y)) /\ SumXX(y) = Total(Squares(y))
      /\ SumXY(y) = Total(Products(y)) /\ SumY(y) = Total(Values(y))
  BY DEF SumX, SumXX, SumXY, SumY, SumOver, Places, Squares, Products, Values
<1>2. /\ SumX(y) \in Int /\ SumXX(y) \in Int /\ SumXY(y) \in Int /\ SumY(y) \in Int
  BY <1>1, TermsType, TotalType
<1>3. SlopeDen(y) \in Int /\ SlopeNum(y) \in Int
  BY <1>2 DEF SlopeDen, SlopeNum
<1>. QED
  BY <1>1, <1>2, <1>3

\* The residual at i is a linear form in y[i] and the place, and so are its
\* products with the place.
Coefficients(y, a, b, c) ==
    /\ a \in Int /\ b \in Int /\ c \in Int
    /\ a = SlopeDen(y) * Len(y)
    /\ b = -(SlopeNum(y) * Len(y))
    /\ c = SlopeNum(y) * SumX(y) - SumY(y) * SlopeDen(y)

\* Every residual has such coefficients.
LEMMA CoefficientsExist ==
  ASSUME NEW y \in Seq(Int)
  PROVE  \E a, b, c \in Int : Coefficients(y, a, b, c)
<1>1. \A n, num, den, sx, sy \in Int :
         den * n \in Int /\ -(num * n) \in Int /\ num * sx - sy * den \in Int
  OBVIOUS
<1>. QED
  BY <1>1, SumsType DEF Coefficients

\* The residual, with its coefficients.
LEMMA ResidualForm ==
  ASSUME NEW y \in Seq(Int), NEW i \in 1..Len(y), NEW a, NEW b, NEW c, Coefficients(y, a, b, c)
  PROVE  /\ Residual(y, i) \in Int
         /\ Residual(y, i) = a * y[i] + b * (i - 1) + c
         /\ (i - 1) * Residual(y, i) \in Int
         /\ (i - 1) * Residual(y, i) =
               1 * (a * ((i - 1) * y[i]) + b * ((i - 1) * (i - 1)) + 0) + c * (i - 1) + 0
<1>. DEFINE n == Len(y)  num == SlopeNum(y)  den == SlopeDen(y)  sx == SumX(y)  sy == SumY(y)
            v == y[i]  x == i - 1  r == v * den * n - (num * x * n + sy * den - num * sx)
<1>1. /\ n \in Int /\ num \in Int /\ den \in Int /\ sx \in Int /\ sy \in Int
      /\ v \in Int /\ x \in Int
  BY SumsType, ElementType
<1>2. Residual(y, i) = r
  BY DEF Residual
<1>3. a = den * n /\ b = -(num * n) /\ c = num * sx - sy * den
  BY DEF Coefficients
<1>. HIDE DEF n, num, den, sx, sy, v, x
<1>4. r = a * v + b * x + c
  BY <1>1, <1>3
<1>5. x * r = 1 * (a * (x * v) + b * (x * x) + 0) + c * x + 0
  BY <1>1, <1>3
<1>6. r \in Int /\ x * r \in Int
  BY <1>1
<1>. QED
  BY <1>2, <1>4, <1>5, <1>6, Zenon DEF v, x

\* The residuals add up to nothing.
LEMMA ResidualsVanish ==
  ASSUME NEW y \in Seq(Int)
  PROVE  /\ Residuals(y) \in Seq(Int) /\ Len(Residuals(y)) = Len(y)
         /\ \A i \in 1..Len(y) : Residuals(y)[i] = Residual(y, i) /\ Residual(y, i) \in Int
         /\ Total(Residuals(y)) = 0
<1>1. PICK a, b, c \in Int : Coefficients(y, a, b, c)
  BY CoefficientsExist
<1>2. Len(y) \in Nat /\ DOMAIN y = 1..Len(y)
  OBVIOUS
<1>3. \A i \in 1..Len(y) : Residuals(y)[i] = Residual(y, i) /\ Residual(y, i) \in Int
  BY <1>1, <1>2, ResidualForm, Zenon DEF Residuals
<1>4. Residuals(y) = [i \in 1..Len(y) |-> Residuals(y)[i]]
  BY <1>2, <1>3 DEF Residuals
<1>5. Residuals(y) \in Seq(Int) /\ Len(Residuals(y)) = Len(y)
  BY <1>2, <1>3, <1>4, FunctionIsSeq
<1>6. Combines(Residuals(y), Values(y), Places(y), a, b, c)
  <2>1. ASSUME NEW i \in 1..Len(y)
        PROVE  Residuals(y)[i] = a * Values(y)[i] + b * Places(y)[i] + c
    <3>1. Residuals(y)[i] = Residual(y, i) /\ Values(y)[i] = y[i] /\ Places(y)[i] = i - 1
      BY <1>3, TermsType
    <3>2. Residual(y, i) = a * y[i] + b * (i - 1) + c
      BY <1>1, ResidualForm
    <3>. QED
      BY <3>1, <3>2, Zenon
  <2>. QED
    BY <1>5, <2>1, Zenon DEF Combines
<1>7. Total(Residuals(y)) = a * Total(Values(y)) + b * Total(Places(y)) + c * Len(Residuals(y))
  <2>1. /\ Values(y) \in Seq(Int) /\ Places(y) \in Seq(Int)
        /\ Len(Values(y)) = Len(Residuals(y)) /\ Len(Places(y)) = Len(Residuals(y))
    BY <1>5, TermsType
  <2>. DEFINE u == Values(y)  v == Places(y)  w == Residuals(y)
  <2>2. /\ u \in Seq(Int) /\ v \in Seq(Int) /\ w \in Seq(Int)
        /\ Len(u) = Len(w) /\ Len(v) = Len(w) /\ Combines(w, u, v, a, b, c)
    BY <1>5, <1>6, <2>1
  <2>. HIDE DEF u, v, w
  <2>3. Total(w) = a * Total(u) + b * Total(v) + c * Len(w)
    BY <1>1, <2>2, TotalLinear
  <2>. QED
    BY <2>3 DEF u, v, w
<1>8. Total(Residuals(y)) = a * SumY(y) + b * SumX(y) + c * Len(y)
  BY <1>5, <1>7, SumsType, Zenon
<1>9. a * SumY(y) + b * SumX(y) + c * Len(y) = 0
  <2>. DEFINE n == Len(y)  num == SlopeNum(y)  den == SlopeDen(y)  sx == SumX(y)  sy == SumY(y)
  <2>1. n \in Int /\ num \in Int /\ den \in Int /\ sx \in Int /\ sy \in Int
    BY SumsType
  <2>2. a = den * n /\ b = -(num * n) /\ c = num * sx - sy * den
    BY <1>1 DEF Coefficients
  <2>. HIDE DEF n, num, den, sx, sy
  <2>3. (den * n) * sy + (-(num * n)) * sx + (num * sx - sy * den) * n = 0
    BY <2>1
  <2>4. a * sy + b * sx + c * n = 0
    BY <2>2, <2>3, Zenon
  <2>. QED
    BY <2>4 DEF n, sx, sy
<1>. QED
  BY <1>3, <1>5, <1>8, <1>9

\* The products of the residuals with time.
Moments(y) == [i \in DOMAIN y |-> (i - 1) * Residual(y, i)]

\* The residuals are orthogonal to time.
LEMMA MomentsVanish ==
  ASSUME NEW y \in Seq(Int)
  PROVE  /\ Moments(y) \in Seq(Int) /\ Len(Moments(y)) = Len(y)
         /\ \A i \in 1..Len(y) : Moments(y)[i] = (i - 1) * Residual(y, i)
         /\ Total(Moments(y)) = 0
<1>1. PICK a, b, c \in Int : Coefficients(y, a, b, c)
  BY CoefficientsExist
<1>2. Len(y) \in Nat /\ DOMAIN y = 1..Len(y) /\ 0 \in Int /\ 1 \in Int
  OBVIOUS
<1>. DEFINE half == [i \in 1..Len(y) |-> a * Products(y)[i] + b * Squares(y)[i] + 0]
<1>3. \A i \in 1..Len(y) : Moments(y)[i] = (i - 1) * Residual(y, i) /\ Moments(y)[i] \in Int
  BY <1>1, <1>2, ResidualForm, Zenon DEF Moments
<1>4. Moments(y) = [i \in 1..Len(y) |-> Moments(y)[i]]
  BY <1>2, <1>3 DEF Moments
<1>5. Moments(y) \in Seq(Int) /\ Len(Moments(y)) = Len(y)
  BY <1>2, <1>3, <1>4, FunctionIsSeq
<1>6. \A i \in 1..Len(y) : half[i] = a * Products(y)[i] + b * Squares(y)[i] + 0
  OBVIOUS
<1>7. half \in Seq(Int) /\ Len(half) = Len(y)
  <2>1. \A p, q \in Int : a * p + b * q + 0 \in Int
    BY <1>1
  <2>2. \A i \in 1..Len(y) : half[i] \in Int
    BY <1>6, <2>1, TermsType, Zenon
  <2>. QED
    BY <1>2, <2>2, FunctionIsSeq
<1>. HIDE DEF half
<1>8. Total(half) = a * SumXY(y) + b * SumXX(y) + 0 * Len(y)
  <2>1. Combines(half, Products(y), Squares(y), a, b, 0)
    BY <1>6, <1>7, Zenon DEF Combines
  <2>. DEFINE u == Products(y)  v == Squares(y)
  <2>3. u \in Seq(Int) /\ v \in Seq(Int) /\ Len(u) = Len(half) /\ Len(v) = Len(half)
    BY <1>7, TermsType
  <2>2. Total(half) = a * Total(Products(y)) + b * Total(Squares(y)) + 0 * Len(half)
    BY <1>2, <1>7, <2>1, <2>3, TotalLinear
  <2>. QED
    BY <1>7, <2>2, SumsType, Zenon
<1>9. Combines(Moments(y), half, Places(y), 1, c, 0)
  <2>1. ASSUME NEW i \in 1..Len(y)
        PROVE  Moments(y)[i] = 1 * half[i] + c * Places(y)[i] + 0
    <3>1. /\ Moments(y)[i] = (i - 1) * Residual(y, i)
          /\ half[i] = a * Products(y)[i] + b * Squares(y)[i] + 0
      BY <1>3, <1>6, Zenon
    <3>2. /\ Products(y)[i] = (i - 1) * y[i] /\ Squares(y)[i] = (i - 1) * (i - 1)
          /\ Places(y)[i] = i - 1
      BY TermsType, Zenon
    <3>3. (i - 1) * Residual(y, i) =
             1 * (a * ((i - 1) * y[i]) + b * ((i - 1) * (i - 1)) + 0) + c * (i - 1) + 0
      BY <1>1, ResidualForm
    <3>. QED
      BY <3>1, <3>2, <3>3, Zenon
  <2>. QED
    BY <1>5, <2>1, Zenon DEF Combines
<1>10. Total(Moments(y)) = 1 * Total(half) + c * SumX(y) + 0 * Len(y)
  <2>1. Total(Moments(y)) = 1 * Total(half) + c * Total(Places(y)) + 0 * Len(Moments(y))
    <3>1. Places(y) \in Seq(Int) /\ Len(Places(y)) = Len(Moments(y)) /\ Len(half) = Len(Moments(y))
      BY <1>5, <1>7, TermsType
    <3>. QED
      BY <1>2, <1>5, <1>7, <1>9, <3>1, TotalLinear
  <2>. QED
    BY <1>5, <2>1, SumsType, Zenon
<1>11. 1 * (a * SumXY(y) + b * SumXX(y) + 0 * Len(y)) + c * SumX(y) + 0 * Len(y) = 0
  <2>. DEFINE n == Len(y)  num == SlopeNum(y)  den == SlopeDen(y)  sx == SumX(y)  sy == SumY(y)
              sxx == SumXX(y)  sxy == SumXY(y)
  <2>1. /\ n \in Int /\ num \in Int /\ den \in Int /\ sx \in Int /\ sy \in Int
        /\ sxx \in Int /\ sxy \in Int
    BY SumsType
  <2>2. a = den * n /\ b = -(num * n) /\ c = num * sx - sy * den
    BY <1>1 DEF Coefficients
  <2>3. num = n * sxy - sx * sy /\ den = n * sxx - sx * sx
    BY DEF SlopeNum, SlopeDen
  <2>. HIDE DEF n, num, den, sx, sy, sxx, sxy
  <2>4. 1 * ((den * n) * sxy + (-(num * n)) * sxx + 0 * n) + (num * sx - sy * den) * sx + 0 * n
          = den * (n * sxy - sx * sy) - num * (n * sxx - sx * sx)
    BY <2>1
  <2>5. den * num - num * den = 0
    BY <2>1
  <2>6. 1 * (a * sxy + b * sxx + 0 * n) + c * sx + 0 * n = 0
    BY <2>2, <2>3, <2>4, <2>5, Zenon
  <2>. QED
    BY <2>6 DEF n, sx, sxx, sxy
<1>. QED
  BY <1>3, <1>5, <1>8, <1>10, <1>11, Zenon

\* The squares of the residuals, of the deviations from the mean and of those
\* of the line, and the products of the last with the residuals.
ResidualSquares(y) == [i \in DOMAIN y |-> Residual(y, i) * Residual(y, i)]
DeviationSquares(y) ==
    [i \in DOMAIN y |-> (y[i] * Len(y) - SumY(y)) * (y[i] * Len(y) - SumY(y))]
LineDeviation(y, i) == SlopeNum(y) * ((i - 1) * Len(y) - SumX(y))
LineSquares(y) == [i \in DOMAIN y |-> LineDeviation(y, i) * LineDeviation(y, i)]
Crosses(y) == [i \in DOMAIN y |-> LineDeviation(y, i) * Residual(y, i)]

\* Their elements.
LEMMA SquaresType ==
  ASSUME NEW y \in Seq(Int)
  PROVE  /\ ResidualSquares(y) \in Seq(Nat) /\ Len(ResidualSquares(y)) = Len(y)
         /\ DeviationSquares(y) \in Seq(Nat) /\ Len(DeviationSquares(y)) = Len(y)
         /\ LineSquares(y) \in Seq(Nat) /\ Len(LineSquares(y)) = Len(y)
         /\ Crosses(y) \in Seq(Int) /\ Len(Crosses(y)) = Len(y)
         /\ \A i \in 1..Len(y) :
              /\ ResidualSquares(y)[i] = Residual(y, i) * Residual(y, i)
              /\ DeviationSquares(y)[i] = (y[i] * Len(y) - SumY(y)) * (y[i] * Len(y) - SumY(y))
              /\ LineSquares(y)[i] = LineDeviation(y, i) * LineDeviation(y, i)
              /\ Crosses(y)[i] = LineDeviation(y, i) * Residual(y, i)
              /\ LineDeviation(y, i) \in Int /\ y[i] * Len(y) - SumY(y) \in Int
<1>1. Len(y) \in Nat /\ DOMAIN y = 1..Len(y)
  OBVIOUS
<1>2. \A r \in Int : r * r \in Nat
  OBVIOUS
<1>3. \A p, q \in Int : p * q \in Int
  OBVIOUS
<1>4. \A i \in 1..Len(y) : Residual(y, i) \in Int
  BY ResidualsVanish
<1>5. \A i \in 1..Len(y) : LineDeviation(y, i) \in Int /\ y[i] * Len(y) - SumY(y) \in Int
  <2>. SUFFICES ASSUME NEW i \in 1..Len(y)
                PROVE  LineDeviation(y, i) \in Int /\ y[i] * Len(y) - SumY(y) \in Int
    OBVIOUS
  <2>. DEFINE n == Len(y)  num == SlopeNum(y)  sx == SumX(y)  sy == SumY(y)  v == y[i]  x == i - 1
  <2>1. /\ n \in Int /\ num \in Int /\ sx \in Int /\ sy \in Int /\ v \in Int /\ x \in Int
    BY SumsType, ElementType
  <2>2. LineDeviation(y, i) = num * (x * n - sx)
    BY DEF LineDeviation
  <2>. HIDE DEF n, num, sx, sy, v, x
  <2>3. num * (x * n - sx) \in Int /\ v * n - sy \in Int
    BY <2>1
  <2>. QED
    BY <2>2, <2>3, Zenon DEF v, n, sy
<1>6. \A i \in 1..Len(y) :
         /\ ResidualSquares(y)[i] = Residual(y, i) * Residual(y, i)
         /\ DeviationSquares(y)[i] = (y[i] * Len(y) - SumY(y)) * (y[i] * Len(y) - SumY(y))
         /\ LineSquares(y)[i] = LineDeviation(y, i) * LineDeviation(y, i)
         /\ Crosses(y)[i] = LineDeviation(y, i) * Residual(y, i)
  BY <1>1, Zenon DEF ResidualSquares, DeviationSquares, LineSquares, Crosses
<1>7. /\ ResidualSquares(y) = [i \in 1..Len(y) |-> ResidualSquares(y)[i]]
      /\ DeviationSquares(y) = [i \in 1..Len(y) |-> DeviationSquares(y)[i]]
      /\ LineSquares(y) = [i \in 1..Len(y) |-> LineSquares(y)[i]]
      /\ Crosses(y) = [i \in 1..Len(y) |-> Crosses(y)[i]]
  BY <1>1, Zenon DEF ResidualSquares, DeviationSquares, LineSquares, Crosses
<1>8. \A i \in 1..Len(y) :
         /\ ResidualSquares(y)[i] \in Nat /\ DeviationSquares(y)[i] \in Nat
         /\ LineSquares(y)[i] \in Nat /\ Crosses(y)[i] \in Int
  BY <1>2, <1>3, <1>4, <1>5, <1>6, Zenon
<1>9. ResidualSquares(y) \in Seq(Nat) /\ Len(ResidualSquares(y)) = Len(y)
  BY <1>1, <1>7, <1>8, FunctionIsSeq
<1>10. DeviationSquares(y) \in Seq(Nat) /\ Len(DeviationSquares(y)) = Len(y)
  BY <1>1, <1>7, <1>8, FunctionIsSeq
<1>11. LineSquares(y) \in Seq(Nat) /\ Len(LineSquares(y)) = Len(y)
  BY <1>1, <1>7, <1>8, FunctionIsSeq
<1>12. Crosses(y) \in Seq(Int) /\ Len(Crosses(y)) = Len(y)
  BY <1>1, <1>7, <1>8, FunctionIsSeq
<1>. QED
  BY <1>5, <1>6, <1>9, <1>10, <1>11, <1>12

\* The residuals are orthogonal to the line.
LEMMA CrossesVanish ==
  ASSUME NEW y \in Seq(Int)
  PROVE  Total(Crosses(y)) = 0
<1>. DEFINE n == Len(y)  num == SlopeNum(y)  sx == SumX(y)  a == num * n  b == -(num * sx)
            u == Moments(y)  v == Residuals(y)  w == Crosses(y)
<1>1. n \in Int /\ num \in Int /\ sx \in Int
  BY SumsType
<1>2. a \in Int /\ b \in Int /\ 0 \in Int
  <2>. HIDE DEF n, num, sx
  <2>. QED
    BY <1>1
<1>3. /\ u \in Seq(Int) /\ v \in Seq(Int) /\ w \in Seq(Int) /\ Len(u) = Len(w) /\ Len(v) = Len(w)
      /\ Total(u) = 0 /\ Total(v) = 0
  BY SquaresType, ResidualsVanish, MomentsVanish
<1>4. Combines(w, u, v, a, b, 0)
  <2>1. ASSUME NEW i \in 1..Len(y)
        PROVE  w[i] = a * u[i] + b * v[i] + 0
    <3>. DEFINE r == Residual(y, i)  x == i - 1
    <3>1. r \in Int /\ x \in Int
      BY ResidualsVanish
    <3>2. w[i] = (num * (x * n - sx)) * r
      BY SquaresType, Zenon DEF LineDeviation
    <3>3. u[i] = x * r /\ v[i] = r
      BY MomentsVanish, ResidualsVanish, Zenon
    <3>. HIDE DEF n, num, sx, r, x, u, v, w
    <3>4. (num * (x * n - sx)) * r = a * (x * r) + b * r + 0
      BY <1>1, <3>1
    <3>. QED
      BY <3>2, <3>3, <3>4, Zenon
  <2>2. Len(w) = Len(y)
    BY SquaresType
  <2>. QED
    BY <2>1, <2>2, Zenon DEF Combines
<1>5. Total(w) = a * 0 + b * 0 + 0 * Len(w) /\ Len(w) \in Int
  <2>1. Len(w) \in Int
    BY <1>3
  <2>. HIDE DEF a, b, u, v, w
  <2>2. Total(w) = a * Total(u) + b * Total(v) + 0 * Len(w)
    BY <1>2, <1>3, <1>4, TotalLinear
  <2>. QED
    BY <1>3, <2>1, <2>2, Zenon
<1>6. a * 0 + b * 0 + 0 * Len(w) = 0
  <2>. HIDE DEF a, b, w
  <2>. QED
    BY <1>2, <1>5
<1>. QED
  BY <1>5, <1>6, Zenon

\* What the values deviate from their mean is what the line does and what the
\* residuals leave.
LEMMA DeviationsSplit ==
  ASSUME NEW y \in Seq(Int)
  PROVE  Total(DeviationSquares(y)) * SlopeDen(y) * SlopeDen(y)
           = Total(ResidualSquares(y)) + Total(LineSquares(y))
<1>. DEFINE n == Len(y)  den == SlopeDen(y)  sq == den * den
            rr == ResidualSquares(y)  dd == DeviationSquares(y)  bb == LineSquares(y)  rb == Crosses(y)
            half == [i \in 1..Len(y) |-> rr[i] + 2 * rb[i]]
            full == [i \in 1..Len(y) |-> half[i] + bb[i]]
<1>1. den \in Int /\ n \in Nat /\ sq \in Int /\ 0 \in Int /\ 1 \in Int /\ 2 \in Int
  <2>1. den \in Int /\ n \in Nat
    BY SumsType
  <2>. HIDE DEF den
  <2>. QED
    BY <2>1
<1>2. /\ rr \in Seq(Int) /\ dd \in Seq(Int) /\ bb \in Seq(Int) /\ rb \in Seq(Int)
      /\ Len(rr) = n /\ Len(dd) = n /\ Len(bb) = n /\ Len(rb) = n
      /\ \A i \in 1..n : rr[i] \in Int /\ dd[i] \in Int /\ bb[i] \in Int /\ rb[i] \in Int
  <2>1. \A s \in Seq(Nat) : s \in Seq(Int)
    OBVIOUS
  <2>2. /\ rr \in Seq(Int) /\ dd \in Seq(Int) /\ bb \in Seq(Int) /\ rb \in Seq(Int)
        /\ Len(rr) = n /\ Len(dd) = n /\ Len(bb) = n /\ Len(rb) = n
    BY <2>1, SquaresType
  <2>. HIDE DEF rr, dd, bb, rb, n
  <2>. QED
    BY <2>2, ElementType
<1>. HIDE DEF rr, dd, bb, rb
<1>3. half \in Seq(Int) /\ Len(half) = n /\ \A i \in 1..n : half[i] = rr[i] + 2 * rb[i] /\ half[i] \in Int
  <2>1. ASSUME NEW i \in 1..n
        PROVE  half[i] = rr[i] + 2 * rb[i] /\ half[i] \in Int
    <3>1. half[i] = rr[i] + 2 * rb[i]
      OBVIOUS
    <3>2. rr[i] \in Int /\ rb[i] \in Int
      BY <1>2
    <3>. HIDE DEF half
    <3>. QED
      BY <3>1, <3>2
  <2>. QED
    BY <1>1, <2>1, FunctionIsSeq
<1>. HIDE DEF half
<1>4. full \in Seq(Int) /\ Len(full) = n /\ \A i \in 1..n : full[i] = half[i] + bb[i] /\ full[i] \in Int
  <2>1. ASSUME NEW i \in 1..n
        PROVE  full[i] = half[i] + bb[i] /\ full[i] \in Int
    <3>1. full[i] = half[i] + bb[i]
      OBVIOUS
    <3>2. half[i] \in Int /\ bb[i] \in Int
      BY <1>2, <1>3
    <3>. HIDE DEF full
    <3>. QED
      BY <3>1, <3>2
  <2>. QED
    BY <1>1, <2>1, FunctionIsSeq
<1>. HIDE DEF full
<1>5. Total(half) = 1 * Total(rr) + 2 * Total(rb) + 0 * Len(half)
  <2>1. Combines(half, rr, rb, 1, 2, 0)
    <3>. HIDE DEF n
    <3>. QED
      BY <1>2, <1>3 DEF Combines
  <2>. QED
    BY <1>1, <1>2, <1>3, <2>1, TotalLinear
<1>6. Total(full) = 1 * Total(half) + 1 * Total(bb) + 0 * Len(full)
  <2>1. Combines(full, half, bb, 1, 1, 0)
    <3>. HIDE DEF n
    <3>. QED
      BY <1>2, <1>3, <1>4 DEF Combines
  <2>. QED
    BY <1>1, <1>2, <1>3, <1>4, <2>1, TotalLinear
<1>7. ASSUME NEW i \in 1..n
      PROVE  full[i] = sq * dd[i] + 0 * dd[i] + 0
  <2>. DEFINE num == SlopeNum(y)  sx == SumX(y)  sy == SumY(y)  v == y[i]  x == i - 1
              d == v * n - sy  b == num * (x * n - sx)  r == Residual(y, i)
  <2>1. /\ num \in Int /\ sx \in Int /\ sy \in Int /\ v \in Int /\ x \in Int /\ r \in Int
    <3>1. num \in Int /\ sx \in Int /\ sy \in Int
      BY SumsType
    <3>2. v \in Int /\ x \in Int
      BY ElementType
    <3>3. r \in Int
      BY ResidualsVanish
    <3>. QED
      BY <3>1, <3>2, <3>3
  <2>2. rr[i] = r * r /\ dd[i] = d * d /\ bb[i] = b * b /\ rb[i] = b * r
    BY SquaresType, Zenon DEF rr, dd, bb, rb, LineDeviation
  <2>3. r = v * den * n - (num * x * n + sy * den - num * sx)
    BY DEF Residual
  <2>4. full[i] = (rr[i] + 2 * rb[i]) + bb[i]
    BY <1>3, <1>4
  <2>. HIDE DEF n, den, num, sx, sy, v, x
  <2>5. v * den * n - (num * x * n + sy * den - num * sx) = den * d - b
    BY <1>1, <2>1
  <2>6. d \in Int /\ b \in Int
    BY <1>1, <2>1
  <2>7. r = den * d - b
    BY <2>3, <2>5, Zenon
  <2>. HIDE DEF d, b, r
  <2>8. ((den * d - b) * (den * d - b) + 2 * (b * (den * d - b))) + b * b
          = (den * den) * (d * d) + 0 * (d * d) + 0
    BY <1>1, <2>6
  <2>. QED
    BY <2>2, <2>4, <2>7, <2>8, Zenon
<1>8. Total(full) = sq * Total(dd) + 0 * Total(dd) + 0 * Len(full)
  <2>1. Combines(full, dd, dd, sq, 0, 0)
    <3>. HIDE DEF n, sq
    <3>. QED
      BY <1>4, <1>7, Zenon DEF Combines
  <2>. HIDE DEF n, sq
  <2>. QED
    BY <1>1, <1>2, <1>4, <2>1, TotalLinear
<1>9. Total(rb) = 0
  BY CrossesVanish DEF rb
<1>10. /\ Total(rr) \in Int /\ Total(bb) \in Int /\ Total(dd) \in Int
       /\ Total(half) \in Int /\ Total(full) \in Int
  BY <1>2, <1>3, <1>4, TotalType
<1>11. Total(full) = Total(rr) + Total(bb)
  BY <1>5, <1>6, <1>9, <1>10, <1>1, <1>3, <1>4
<1>12. Total(full) = Total(dd) * den * den
  <2>. DEFINE t == Total(dd)
  <2>1. t \in Int /\ Len(full) \in Int
    BY <1>4, <1>10
  <2>. HIDE DEF t, den
  <2>2. (den * den) * t + 0 * t + 0 * Len(full) = t * den * den
    BY <1>1, <2>1
  <2>. QED
    BY <1>8, <2>2, Zenon DEF t
<1>. QED
  BY <1>11, <1>12, Zenon DEF rr, dd, bb

\* How far y is from the line (a + b * time) / d at the place i, and the sum of
\* the squares, in the unit of the residuals of the fit times d.
Miss(y, a, b, d, i) == SlopeDen(y) * Len(y) * (d * y[i] - (a + b * (i - 1)))
MissSquares(y, a, b, d) == [i \in DOMAIN y |-> Miss(y, a, b, d, i) * Miss(y, a, b, d, i)]

\* leastSquares finds the line of least squares: no line with rational
\* coefficients is nearer to the series than the one it fits.
THEOREM LeastSquares ==
  ASSUME NEW y \in Seq(Int), NEW a \in Int, NEW b \in Int, NEW d \in Nat \ {0}
  PROVE  d * d * Total(ResidualSquares(y)) <= Total(MissSquares(y, a, b, d))
<1>. DEFINE n == Len(y)  num == SlopeNum(y)  den == SlopeDen(y)  sx == SumX(y)  sy == SumY(y)
            p == d * (sy * den - num * sx) - den * n * a
            q == d * (num * n) - den * n * b
            Gap(i) == p + q * (i - 1)
            rr == ResidualSquares(y)
            ww == MissSquares(y, a, b, d)
            cross == [i \in 1..Len(y) |-> Gap(i) * Residual(y, i)]
            gaps == [i \in 1..Len(y) |-> Gap(i) * Gap(i)]
            half == [i \in 1..Len(y) |-> (d * d) * rr[i] + (2 * d) * cross[i] + 0]
<1>1. /\ n \in Nat /\ num \in Int /\ den \in Int /\ sx \in Int /\ sy \in Int /\ DOMAIN y = 1..Len(y)
      /\ d * d \in Int /\ 2 * d \in Int /\ 0 \in Int /\ 1 \in Int
  <2>1. n \in Nat /\ num \in Int /\ den \in Int /\ sx \in Int /\ sy \in Int /\ DOMAIN y = 1..Len(y)
    BY SumsType
  <2>2. d * d \in Int /\ 2 * d \in Int
    OBVIOUS
  <2>. QED
    BY <2>1, <2>2
<1>2. p \in Int /\ q \in Int
  <2>. HIDE DEF n, num, den, sx, sy
  <2>1. sy * den - num * sx \in Int /\ den * n \in Int /\ num * n \in Int
    BY <1>1
  <2>2. \A u, v, w, x \in Int : u * v - w * x \in Int
    OBVIOUS
  <2>. QED
    BY <2>1, <2>2
<1>3. ASSUME NEW i \in 1..Len(y)
      PROVE  /\ y[i] \in Int /\ i - 1 \in Int /\ Residual(y, i) \in Int /\ Gap(i) \in Int
             /\ Miss(y, a, b, d, i) = d * Residual(y, i) + Gap(i)
  <2>. DEFINE v == y[i]  x == i - 1  r == Residual(y, i)
  <2>1. v \in Int /\ x \in Int /\ r \in Int
    <3>1. v \in Int
      BY ElementType
    <3>2. r \in Int
      BY ResidualsVanish
    <3>3. x \in Int
      BY <1>1
    <3>. QED
      BY <3>1, <3>2, <3>3
  <2>2. r = v * den * n - (num * x * n + sy * den - num * sx)
    BY DEF Residual
  <2>3. Miss(y, a, b, d, i) = den * n * (d * v - (a + b * x))
    BY DEF Miss
  <2>4. Gap(i) = p + q * x
    OBVIOUS
  <2>. HIDE DEF n, num, den, sx, sy, v, x, r, Gap
  <2>5. den * n * (d * v - (a + b * x))
          = d * (v * den * n - (num * x * n + sy * den - num * sx)) + (p + q * x)
    BY <1>1, <2>1
  <2>6. p + q * x \in Int
    <3>. HIDE DEF p, q
    <3>. QED
      BY <1>2, <2>1
  <2>. HIDE DEF p, q
  <2>7. Miss(y, a, b, d, i) = d * r + Gap(i)
    BY <2>2, <2>3, <2>4, <2>5, Zenon
  <2>. QED
    BY <2>1, <2>4, <2>6, <2>7, Zenon DEF v, x, r
<1>. HIDE DEF n, num, den, sx, sy, p, q
<1>4. /\ rr \in Seq(Int) /\ Len(rr) = Len(y)
      /\ \A i \in 1..Len(y) : rr[i] = Residual(y, i) * Residual(y, i) /\ rr[i] \in Int
  <2>1. \A s \in Seq(Nat) : s \in Seq(Int)
    OBVIOUS
  <2>2. rr \in Seq(Int) /\ Len(rr) = Len(y)
    BY <2>1, SquaresType
  <2>3. \A i \in 1..Len(y) : rr[i] = Residual(y, i) * Residual(y, i)
    BY SquaresType, Zenon
  <2>. HIDE DEF rr
  <2>. QED
    BY <2>2, <2>3, ElementType
<1>5. /\ cross \in Seq(Int) /\ Len(cross) = Len(y)
      /\ \A i \in 1..Len(y) : cross[i] = Gap(i) * Residual(y, i) /\ cross[i] \in Int
  <2>1. \A i \in 1..Len(y) : cross[i] = Gap(i) * Residual(y, i)
    OBVIOUS
  <2>2. \A u, v \in Int : u * v \in Int
    OBVIOUS
  <2>3. \A i \in 1..Len(y) : cross[i] \in Int
    <3>. HIDE DEF Gap, cross
    <3>. QED
      BY <1>3, <2>1, <2>2, Zenon
  <2>4. cross = [i \in 1..Len(y) |-> cross[i]] /\ Len(y) \in Nat
    OBVIOUS
  <2>. HIDE DEF cross
  <2>. QED
    BY <2>1, <2>3, <2>4, FunctionIsSeq
<1>6. /\ gaps \in Seq(Nat) /\ Len(gaps) = Len(y)
      /\ \A i \in 1..Len(y) : gaps[i] = Gap(i) * Gap(i) /\ gaps[i] \in Int
  <2>1. \A i \in 1..Len(y) : gaps[i] = Gap(i) * Gap(i)
    OBVIOUS
  <2>2. \A u \in Int : u * u \in Nat
    OBVIOUS
  <2>3. \A i \in 1..Len(y) : gaps[i] \in Nat
    <3>. HIDE DEF Gap, gaps
    <3>. QED
      BY <1>3, <2>1, <2>2, Zenon
  <2>4. gaps = [i \in 1..Len(y) |-> gaps[i]] /\ Len(y) \in Nat
    OBVIOUS
  <2>. HIDE DEF gaps
  <2>. QED
    BY <2>1, <2>3, <2>4, FunctionIsSeq
<1>7. /\ half \in Seq(Int) /\ Len(half) = Len(y)
      /\ \A i \in 1..Len(y) : half[i] = (d * d) * rr[i] + (2 * d) * cross[i] + 0 /\ half[i] \in Int
  <2>1. \A i \in 1..Len(y) : half[i] = (d * d) * rr[i] + (2 * d) * cross[i] + 0
    OBVIOUS
  <2>2. \A u, v \in Int : (d * d) * u + (2 * d) * v + 0 \in Int
    OBVIOUS
  <2>3. \A i \in 1..Len(y) : half[i] \in Int
    <3>. HIDE DEF rr, cross, half
    <3>. QED
      BY <1>4, <1>5, <2>1, <2>2, Zenon
  <2>4. half = [i \in 1..Len(y) |-> half[i]] /\ Len(y) \in Nat
    OBVIOUS
  <2>. HIDE DEF half, rr, cross
  <2>. QED
    BY <2>1, <2>3, <2>4, FunctionIsSeq
<1>8. /\ ww \in Seq(Int) /\ Len(ww) = Len(y)
      /\ \A i \in 1..Len(y) : ww[i] = 1 * half[i] + 1 * gaps[i] + 0
  <2>. HIDE DEF Gap, rr, cross, half, gaps
  <2>1. \A i \in 1..Len(y) : ww[i] = Miss(y, a, b, d, i) * Miss(y, a, b, d, i)
    BY <1>1, Zenon DEF MissSquares
  <2>2. \A r, g \in Int :
           (d * r + g) * (d * r + g) = 1 * ((d * d) * (r * r) + (2 * d) * (g * r) + 0) + 1 * (g * g) + 0
    OBVIOUS
  <2>3. ASSUME NEW i \in 1..Len(y)
        PROVE  ww[i] = 1 * half[i] + 1 * gaps[i] + 0
    <3>. DEFINE r == Residual(y, i)  g == Gap(i)
    <3>1. r \in Int /\ g \in Int /\ Miss(y, a, b, d, i) = d * r + g
      BY <1>3
    <3>2. /\ rr[i] = r * r /\ cross[i] = g * r /\ gaps[i] = g * g
          /\ half[i] = (d * d) * rr[i] + (2 * d) * cross[i] + 0
      BY <1>4, <1>5, <1>6, <1>7, Zenon
    <3>. HIDE DEF r, g, ww
    <3>3. (d * r + g) * (d * r + g) = 1 * ((d * d) * (r * r) + (2 * d) * (g * r) + 0) + 1 * (g * g) + 0
      BY <2>2, <3>1, Zenon
    <3>4. ww[i] = (d * r + g) * (d * r + g)
      BY <2>1, <3>1, Zenon
    <3>5. half[i] = (d * d) * (r * r) + (2 * d) * (g * r) + 0
      BY <3>2, Zenon
    <3>. QED
      BY <3>2, <3>3, <3>4, <3>5, Zenon
  <2>4. \A u, v \in Int : 1 * u + 1 * v + 0 \in Int
    OBVIOUS
  <2>5. \A i \in 1..Len(y) : ww[i] \in Int
    BY <1>6, <1>7, <2>3, <2>4, Zenon
  <2>6. ww = [i \in 1..Len(y) |-> ww[i]]
    BY <1>1 DEF MissSquares
  <2>7. Len(y) \in Nat
    OBVIOUS
  <2>. HIDE DEF ww
  <2>. QED
    BY <2>3, <2>5, <2>6, <2>7, FunctionIsSeq
<1>9. Total(cross) = 0
  <2>. DEFINE u == Residuals(y)  v == Moments(y)
  <2>1. /\ u \in Seq(Int) /\ v \in Seq(Int) /\ Len(u) = Len(y) /\ Len(v) = Len(y)
        /\ Total(u) = 0 /\ Total(v) = 0
    BY ResidualsVanish, MomentsVanish
  <2>2. ASSUME NEW i \in 1..Len(y)
        PROVE  cross[i] = p * u[i] + q * v[i] + 0
    <3>. DEFINE r == Residual(y, i)  x == i - 1
    <3>1. r \in Int /\ x \in Int
      BY <1>3
    <3>2. u[i] = r /\ v[i] = x * r
      BY ResidualsVanish, MomentsVanish, Zenon
    <3>3. cross[i] = (p + q * x) * r
      BY <1>5
    <3>. HIDE DEF r, x, u, v, cross
    <3>4. (p + q * x) * r = p * r + q * (x * r) + 0
      BY <1>2, <3>1
    <3>. QED
      BY <3>2, <3>3, <3>4, Zenon
  <2>. HIDE DEF u, v, cross
  <2>3. Combines(cross, u, v, p, q, 0)
    BY <1>5, <2>2 DEF Combines
  <2>4. Total(cross) = p * Total(u) + q * Total(v) + 0 * Len(cross)
    BY <1>1, <1>2, <1>5, <2>1, <2>3, TotalLinear
  <2>5. p * 0 + q * 0 + 0 * Len(cross) = 0
    BY <1>2, <1>5
  <2>. QED
    BY <2>1, <2>4, <2>5, Zenon
<1>. HIDE DEF Gap, rr, cross, half, gaps, ww
<1>10. Total(half) = (d * d) * Total(rr) + (2 * d) * Total(cross) + 0 * Len(half)
  <2>1. Combines(half, rr, cross, d * d, 2 * d, 0)
    BY <1>7, Zenon DEF Combines
  <2>2. Len(rr) = Len(half) /\ Len(cross) = Len(half)
    BY <1>4, <1>5, <1>7
  <2>. QED
    BY <1>1, <1>4, <1>5, <1>7, <2>1, <2>2, TotalLinear
<1>11. Total(ww) = 1 * Total(half) + 1 * Total(gaps) + 0 * Len(ww)
  <2>1. Combines(ww, half, gaps, 1, 1, 0)
    BY <1>8, Zenon DEF Combines
  <2>2. gaps \in Seq(Int)
    BY <1>6
  <2>3. Len(half) = Len(ww) /\ Len(gaps) = Len(ww)
    BY <1>6, <1>7, <1>8
  <2>. QED
    BY <1>1, <1>7, <1>8, <2>1, <2>2, <2>3, TotalLinear
<1>12. Total(gaps) \in Nat /\ Total(rr) \in Int /\ Len(half) \in Int /\ Len(ww) \in Int
  BY <1>4, <1>6, <1>7, <1>8, TotalNonneg, TotalType
<1>13. (d * d) * Total(rr) <= Total(ww)
  <2>. DEFINE t == (d * d) * Total(rr)
  <2>1. t \in Int
    BY <1>12
  <2>2. Total(half) = t
    <3>1. (2 * d) * 0 + 0 * Len(half) = 0
      BY <1>12
    <3>. HIDE DEF t
    <3>2. Total(half) = t + (2 * d) * 0 + 0 * Len(half)
      BY <1>9, <1>10 DEF t
    <3>. QED
      BY <1>12, <2>1, <3>1, <3>2
  <2>. HIDE DEF t
  <2>3. Total(ww) = t + Total(gaps)
    BY <1>11, <1>12, <2>1, <2>2
  <2>. QED
    BY <1>12, <2>1, <2>3 DEF t
<1>. QED
  BY <1>13 DEF rr, ww

\* leastSquares finds the least squares, of any series.
LEMMA FitOfSeries ==
  ASSUME NEW y \in Seq(Int)
  PROVE  /\ SumOver(y, LAMBDA i : Residual(y, i)) = 0
         /\ SumOver(y, LAMBDA i : (i - 1) * Residual(y, i)) = 0
         /\ RSquared(y).part \in Int /\ RSquared(y).of \in Int
         /\ 0 <= RSquared(y).part /\ RSquared(y).part <= RSquared(y).of
         /\ RSquared(y).of > 0
<1>1. SumOver(y, LAMBDA i : Residual(y, i)) = 0
  BY ResidualsVanish, Zenon DEF SumOver, Residuals
<1>2. SumOver(y, LAMBDA i : (i - 1) * Residual(y, i)) = 0
  BY MomentsVanish, Zenon DEF SumOver, Moments
<1>. DEFINE ssr == Total(ResidualSquares(y))
            sst == Total(DeviationSquares(y)) * SlopeDen(y) * SlopeDen(y)
            line == Total(LineSquares(y))
<1>3. RSquared(y) = IF sst = 0 THEN [part |-> 1, of |-> 1] ELSE [part |-> sst - ssr, of |-> sst]
  BY DEF RSquared, SumOver, ResidualSquares, DeviationSquares
<1>4. ssr \in Nat /\ line \in Nat
  BY SquaresType, TotalNonneg
<1>5. sst = ssr + line
  BY DeviationsSplit
<1>. HIDE DEF ssr, sst, line
<1>6. /\ RSquared(y).part \in Int /\ RSquared(y).of \in Int
      /\ 0 <= RSquared(y).part /\ RSquared(y).part <= RSquared(y).of
      /\ RSquared(y).of > 0
  <2>1. CASE sst = 0
    BY <1>3, <2>1
  <2>2. CASE sst # 0
    <3>1. RSquared(y).part = sst - ssr /\ RSquared(y).of = sst
      BY <1>3, <2>2
    <3>. QED
      BY <1>4, <1>5, <2>2, <3>1
  <2>. QED
    BY <2>1, <2>2
<1>. QED
  BY <1>1, <1>2, <1>6, Zenon

-----------------------------------------------------------------------------
(* The time axis and the smoothed level.                                   *)

\* A set of numbers that starts at 0 and misses no successor has them all.
LEMMA AllNumbers ==
  ASSUME NEW n \in Nat, NEW T, 0 \in T, \A i \in 1..n : i - 1 \in T => i \in T
  PROVE  \A i \in 0..n : i \in T
<1>. DEFINE U == {i \in 0..n : i \notin T}
<1>1. U = {}
  <2>. SUFFICES ASSUME U # {}
                PROVE  FALSE
    OBVIOUS
  <2>1. U \subseteq Nat
    OBVIOUS
  <2>2. PICK m \in U : \A x \in U : m <= x
    <3>. HIDE DEF U
    <3>. QED
      BY <2>1, LeastNumber
  <2>3. m \in 0..n /\ m # 0 /\ m \notin T
    OBVIOUS
  <2>4. m \in 1..n /\ m - 1 \in 0..n /\ ~(m <= m - 1)
    BY <2>3
  <2>5. m - 1 \notin U
    <3>. HIDE DEF U
    <3>. QED
      BY <2>2, <2>4
  <2>. QED
    BY <2>3, <2>4, <2>5
<1>. QED
  BY <1>1

\* The places are spread out: the denominator of the slope is positive.
LEMMA DenominatorPositive ==
  ASSUME NEW y \in Seq(Int), Len(y) >= 2
  PROVE  SlopeDen(y) > 0
<1>. DEFINE n == Len(y)
<1>1. /\ n \in Nat /\ n >= 2
      /\ Places(y) \in Seq(Int) /\ Len(Places(y)) = n
      /\ Squares(y) \in Seq(Int) /\ Len(Squares(y)) = n
  BY TermsType
<1>2. PICK s \in [0..n -> Int] :
         s[0] = 0 /\ (\A i \in 1..n : s[i] = s[i - 1] + Places(y)[i]) /\ Total(Places(y)) = s[n]
  BY <1>1, TotalFacts
<1>3. PICK t \in [0..n -> Int] :
         t[0] = 0 /\ (\A i \in 1..n : t[i] = t[i - 1] + Squares(y)[i]) /\ Total(Squares(y)) = t[n]
  BY <1>1, TotalFacts
<1>. DEFINE T == {i \in 0..n : 2 * s[i] = i * (i - 1) /\ 6 * t[i] = (i - 1) * i * (2 * i - 1)}
<1>4. 0 \in T
  BY <1>1, <1>2, <1>3
<1>5. ASSUME NEW i \in 1..n, i - 1 \in T
      PROVE  i \in T
  <2>. DEFINE p == s[i - 1]  q == t[i - 1]  j == i - 1
  <2>1. /\ i \in Nat /\ i \in 0..n /\ j \in Int /\ j \in 0..n
    OBVIOUS
  <2>2. p \in Int /\ q \in Int
    BY <2>1
  <2>3. 2 * p = j * (j - 1) /\ 6 * q = (j - 1) * j * (2 * j - 1)
    BY <1>5
  <2>4. s[i] = p + j /\ t[i] = q + j * j
    <3>1. Places(y)[i] = i - 1 /\ Squares(y)[i] = (i - 1) * (i - 1)
      BY TermsType, Zenon
    <3>2. s[i] = s[i - 1] + Places(y)[i] /\ t[i] = t[i - 1] + Squares(y)[i]
      BY <1>2, <1>3, Zenon
    <3>. QED
      BY <3>1, <3>2, Zenon
  <2>5. i = j + 1
    BY <2>1
  <2>. HIDE DEF p, q, j
  <2>6. 2 * (p + j) = (j + 1) * (j + 1 - 1)
    BY <2>1, <2>2, <2>3
  <2>7. 6 * (q + j * j) = (j + 1 - 1) * (j + 1) * (2 * (j + 1) - 1)
    <3>1. 6 * (q + j * j) = (j - 1) * j * (2 * j - 1) + 6 * (j * j)
      BY <2>1, <2>2, <2>3
    <3>2. (j - 1) * j * (2 * j - 1) + 6 * (j * j) = (j + 1 - 1) * (j + 1) * (2 * (j + 1) - 1)
      BY <2>1
    <3>. QED
      BY <3>1, <3>2, Zenon
  <2>8. 2 * s[i] = i * (i - 1) /\ 6 * t[i] = (i - 1) * i * (2 * i - 1)
    <3>1. (j + 1) * (j + 1 - 1) = i * (i - 1)
      BY <2>1, <2>5
    <3>2. (j + 1 - 1) * (j + 1) * (2 * (j + 1) - 1) = (i - 1) * i * (2 * i - 1)
      BY <2>1, <2>5
    <3>3. 2 * s[i] = 2 * (p + j) /\ 6 * t[i] = 6 * (q + j * j)
      BY <2>4, Zenon
    <3>. QED
      BY <2>6, <2>7, <3>1, <3>2, <3>3, Zenon
  <2>. QED
    BY <2>1, <2>8
<1>6. n \in T
  <2>. HIDE DEF T
  <2>1. \A i \in 0..n : i \in T
    BY <1>1, <1>4, <1>5, AllNumbers
  <2>. QED
    BY <1>1, <2>1
<1>7. 2 * s[n] = n * (n - 1) /\ 6 * t[n] = (n - 1) * n * (2 * n - 1)
  BY <1>6
<1>. DEFINE a == s[n]  b == t[n]
<1>8. a \in Int /\ b \in Int
  BY <1>1
<1>9. SlopeDen(y) = n * b - a * a
  BY <1>2, <1>3, SumsType, Zenon DEF SlopeDen
<1>. HIDE DEF n, a, b
<1>10. 2 * a = n * (n - 1) /\ 6 * b = (n - 1) * n * (2 * n - 1)
  BY <1>7 DEF a, b
<1>11. 12 * (n * b - a * a) = 2 * n * (6 * b) - 3 * ((2 * a) * (2 * a))
  BY <1>1, <1>8
<1>12. 2 * n * ((n - 1) * n * (2 * n - 1)) - 3 * ((n * (n - 1)) * (n * (n - 1)))
         = (n * n) * ((n - 1) * (n + 1))
  BY <1>1
<1>13. (n * n) * ((n - 1) * (n + 1)) > 0
  <2>1. n * n > 0 /\ n * n \in Int
    BY <1>1
  <2>2. (n - 1) * (n + 1) > 0 /\ (n - 1) * (n + 1) \in Int
    BY <1>1
  <2>3. \A u, v \in Int : u > 0 /\ v > 0 => u * v > 0
    OBVIOUS
  <2>. QED
    BY <2>1, <2>2, <2>3, Zenon
<1>14. 12 * (n * b - a * a) > 0
  BY <1>10, <1>11, <1>12, <1>13, Zenon
<1>15. n * b - a * a \in Int
  BY <1>1, <1>8
<1>16. \A d \in Int : 12 * d > 0 => d > 0
  OBVIOUS
<1>. QED
  BY <1>9, <1>14, <1>15, <1>16, Zenon

\* The recursion of PowerOf5 up to n.
PowersUpTo(f, n) ==
    f \in [0..n -> Int] /\ f[0] = 1 /\ \A i \in 1..n : f[i] = 5 * f[i - 1]

\* PowerOf5 does what its recursion says.
LEMMA PowerFacts ==
  /\ PowerOf5[0] = 1
  /\ \A k \in Nat \ {0} : PowerOf5[k] = 5 * PowerOf5[k - 1]
<1>1. ASSUME NEW n \in Nat
      PROVE  \E f : PowersUpTo(f, n)
  <2>. DEFINE step == [i \in 1..n |-> [v \in Int |-> 5 * v]]
  <2>1. step \in [1..n -> [Int -> Int]] /\ 1 \in Int
    OBVIOUS
  <2>2. PICK f \in [0..n -> Int] : f[0] = 1 /\ \A i \in 1..n : f[i] = step[i][f[i - 1]]
    <3>. HIDE DEF step
    <3>. QED
      BY <2>1, RecursionExists
  <2>3. ASSUME NEW i \in 1..n
        PROVE  f[i] = 5 * f[i - 1]
    <3>1. i - 1 \in 0..n
      OBVIOUS
    <3>2. f[i - 1] \in Int
      BY <3>1
    <3>3. step[i][f[i - 1]] = 5 * f[i - 1]
      BY <3>2
    <3>. QED
      BY <2>2, <3>3, Zenon
  <2>. QED
    BY <2>2, <2>3 DEF PowersUpTo
<1>. DEFINE G(n) == CHOOSE f : PowersUpTo(f, n)
            F == [n \in Nat |-> G(n)[n]]
<1>2. \A n \in Nat : PowersUpTo(G(n), n)
  BY <1>1
<1>3. ASSUME NEW n \in Nat, NEW f, NEW g, PowersUpTo(f, n + 1), PowersUpTo(g, n)
      PROVE  f[n] = g[n]
  <2>. DEFINE T == {i \in 0..n : f[i] = g[i]}
  <2>1. 0 \in T
    BY <1>3 DEF PowersUpTo
  <2>2. ASSUME NEW i \in 1..n, i - 1 \in T
        PROVE  i \in T
    <3>1. i \in 1..(n + 1) /\ i \in 0..n
      OBVIOUS
    <3>2. f[i] = 5 * f[i - 1] /\ g[i] = 5 * g[i - 1]
      BY <1>3, <3>1 DEF PowersUpTo
    <3>3. f[i - 1] = g[i - 1]
      BY <2>2
    <3>. QED
      BY <3>1, <3>2, <3>3
  <2>3. n \in T
    <3>. HIDE DEF T
    <3>1. \A i \in 0..n : i \in T
      BY <2>1, <2>2, AllNumbers
    <3>2. n \in 0..n
      OBVIOUS
    <3>. QED
      BY <3>1, <3>2
  <2>. QED
    BY <2>3
<1>. HIDE DEF G
<1>4. ASSUME NEW k \in Nat
      PROVE  F[k] = IF k = 0 THEN 1 ELSE 5 * F[k - 1]
  <2>1. CASE k = 0
    BY <1>2, <2>1 DEF PowersUpTo
  <2>2. CASE k # 0
    <3>1. k - 1 \in Nat /\ k = (k - 1) + 1 /\ k \in 1..k
      BY <2>2
    <3>2. PowersUpTo(G(k), k) /\ PowersUpTo(G(k - 1), k - 1)
      BY <1>2, <3>1
    <3>3. G(k)[k - 1] = G(k - 1)[k - 1]
      <4>1. PowersUpTo(G(k), (k - 1) + 1)
        BY <3>1, <3>2
      <4>. QED
        BY <1>3, <3>1, <3>2, <4>1
    <3>4. G(k)[k] = 5 * G(k)[k - 1]
      BY <3>1, <3>2 DEF PowersUpTo
    <3>5. F[k] = G(k)[k] /\ F[k - 1] = G(k - 1)[k - 1]
      BY <3>1
    <3>. QED
      BY <2>2, <3>3, <3>4, <3>5, Zenon
  <2>. QED
    BY <2>1, <2>2
<1>. DEFINE Rec(f) == f = [k \in Nat |-> IF k = 0 THEN 1 ELSE 5 * f[k - 1]]
<1>5. Rec(F)
  <2>1. F = [k \in Nat |-> F[k]]
    OBVIOUS
  <2>. HIDE DEF F
  <2>. QED
    BY <1>4, <2>1
<1>6. Rec(PowerOf5)
  <2>. HIDE DEF F
  <2>1. PowerOf5 = CHOOSE f : Rec(f)
    BY DEF PowerOf5
  <2>. HIDE DEF Rec
  <2>. QED
    BY <1>5, <2>1, Zenon
<1>. HIDE DEF F
<1>7. PowerOf5[0] = 1
  BY <1>6
<1>8. \A k \in Nat : PowerOf5[k] = IF k = 0 THEN 1 ELSE 5 * PowerOf5[k - 1]
  <2>. DEFINE P == PowerOf5
  <2>1. Rec(P)
    BY <1>6
  <2>. HIDE DEF P
  <2>2. \A k \in Nat : P[k] = IF k = 0 THEN 1 ELSE 5 * P[k - 1]
    BY <2>1
  <2>. QED
    BY <2>2 DEF P
<1>. QED
  BY <1>7, <1>8

\* Its values are positive.
LEMMA PowerPositive ==
  ASSUME NEW n \in Nat
  PROVE  PowerOf5[n] \in Nat \ {0}
<1>. DEFINE T == {i \in 0..n : PowerOf5[i] \in Nat \ {0}}
<1>1. 0 \in T
  BY PowerFacts
<1>2. ASSUME NEW i \in 1..n, i - 1 \in T
      PROVE  i \in T
  <2>1. PowerOf5[i] = 5 * PowerOf5[i - 1] /\ PowerOf5[i - 1] \in Nat \ {0}
    BY <1>2, PowerFacts
  <2>. QED
    BY <2>1
<1>3. n \in T
  <2>. HIDE DEF T
  <2>1. \A i \in 0..n : i \in T
    BY <1>1, <1>2, AllNumbers
  <2>2. n \in 0..n
    OBVIOUS
  <2>. QED
    BY <2>1, <2>2
<1>. QED
  BY <1>3

\* The smoothed level is a number of units.
LEMMA EwmaType ==
  ASSUME NEW y \in Seq(Int), Len(y) >= 1
  PROVE  Ewma(y) \in Int /\ EwmaUnit(y) \in Nat \ {0}
<1>. DEFINE n == Len(y) - 1
            step == [i \in 1..n |-> [v \in Int |-> 2 * y[i + 1] * PowerOf5[i - 1] + 3 * v]]
            Rec(f) == f = [i \in 0..n |-> IF i = 0 THEN y[1]
                                          ELSE 2 * y[i + 1] * PowerOf5[i - 1] + 3 * f[i - 1]]
<1>1. n \in Nat /\ y[1] \in Int
  BY ElementType
<1>2. ASSUME NEW i \in 1..n
      PROVE  y[i + 1] \in Int /\ PowerOf5[i - 1] \in Int
  <2>1. i + 1 \in 1..Len(y) /\ i - 1 \in Nat
    BY <1>1
  <2>. QED
    BY <2>1, ElementType, PowerPositive
<1>3. step \in [1..n -> [Int -> Int]]
  <2>1. \A p, q, v \in Int : 2 * p * q + 3 * v \in Int
    OBVIOUS
  <2>2. \A i \in 1..n, v \in Int : 2 * y[i + 1] * PowerOf5[i - 1] + 3 * v \in Int
    BY <1>2, <2>1, Zenon
  <2>3. \A i \in 1..n : [v \in Int |-> 2 * y[i + 1] * PowerOf5[i - 1] + 3 * v] \in [Int -> Int]
    BY <2>2, Zenon
  <2>. QED
    BY <2>3, Zenon
<1>4. PICK f \in [0..n -> Int] : f[0] = y[1] /\ \A i \in 1..n : f[i] = step[i][f[i - 1]]
  <2>. HIDE DEF step, n
  <2>. QED
    BY <1>1, <1>3, RecursionExists
<1>5. Rec(f)
  <2>1. ASSUME NEW i \in 0..n
        PROVE  f[i] = IF i = 0 THEN y[1] ELSE 2 * y[i + 1] * PowerOf5[i - 1] + 3 * f[i - 1]
    <3>1. CASE i = 0
      BY <3>1, <1>4
    <3>2. CASE i # 0
      <4>1. i \in 1..n /\ i - 1 \in 0..n
        BY <1>1, <3>2
      <4>2. f[i] = step[i][f[i - 1]] /\ f[i - 1] \in Int
        BY <4>1, <1>4
      <4>3. step[i][f[i - 1]] = 2 * y[i + 1] * PowerOf5[i - 1] + 3 * f[i - 1]
        BY <4>1, <4>2, Zenon
      <4>. QED
        BY <3>2, <4>2, <4>3, Zenon
    <3>. QED
      BY <3>1, <3>2
  <2>2. f = [i \in 0..n |-> f[i]]
    OBVIOUS
  <2>. HIDE DEF n
  <2>. QED
    BY <2>1, <2>2, Zenon
<1>. DEFINE e == CHOOSE g : Rec(g)
<1>6. Rec(e)
  <2>. HIDE DEF Rec
  <2>. QED
    BY <1>5, Zenon
<1>7. Ewma(y) = e[n]
  BY DEF Ewma
<1>. HIDE DEF e
<1>8. e[0] = y[1] /\ \A i \in 1..n : e[i] = 2 * y[i + 1] * PowerOf5[i - 1] + 3 * e[i - 1]
  <2>1. \A i \in 0..n : e[i] = IF i = 0 THEN y[1] ELSE 2 * y[i + 1] * PowerOf5[i - 1] + 3 * e[i - 1]
    <3>. HIDE DEF n
    <3>. QED
      BY <1>6, Zenon
  <2>2. 0 \in 0..n /\ \A i \in 1..n : i \in 0..n /\ i # 0
    BY <1>1
  <2>. HIDE DEF n
  <2>. QED
    BY <2>1, <2>2, Zenon
<1>. DEFINE T == {i \in 0..n : e[i] \in Int}
<1>9. 0 \in T
  BY <1>1, <1>8
<1>10. ASSUME NEW i \in 1..n, i - 1 \in T
       PROVE  i \in T
  <2>1. \A p, q, v \in Int : 2 * p * q + 3 * v \in Int
    OBVIOUS
  <2>2. e[i] = 2 * y[i + 1] * PowerOf5[i - 1] + 3 * e[i - 1]
    BY <1>8, Zenon
  <2>3. e[i - 1] \in Int
    BY <1>10
  <2>. DEFINE u == y[i + 1]  v == PowerOf5[i - 1]  x == e[i - 1]
  <2>5. u \in Int /\ v \in Int /\ x \in Int /\ e[i] = 2 * u * v + 3 * x
    BY <1>2, <2>2, <2>3
  <2>. HIDE DEF u, v, x
  <2>4. e[i] \in Int
    BY <2>5, <2>1
  <2>. QED
    BY <2>4
<1>11. n \in T
  <2>. HIDE DEF T, n
  <2>1. \A i \in 0..n : i \in T
    BY <1>1, <1>9, <1>10, AllNumbers
  <2>2. n \in 0..n
    BY <1>1
  <2>. QED
    BY <2>1, <2>2
<1>12. EwmaUnit(y) \in Nat \ {0}
  BY <1>1, PowerPositive DEF EwmaUnit
<1>. QED
  BY <1>7, <1>11, <1>12

-----------------------------------------------------------------------------
(* The advice.                                                             *)

\* Whether the level reaches the threshold does not depend on the common
\* denominator, now or b buckets ahead.
LEMMA ReachesArithmetic ==
  ASSUME NEW E \in Int, NEW U \in Nat \ {0}, NEW D \in Nat \ {0}, NEW N \in Int, NEW t \in Nat,
         NEW b \in Nat
  PROVE  /\ (E * D + 0 * N * U >= t * D * U) <=> (E >= t * U)
         /\ (E * D + b * N * U >= t * D * U) <=> ((t * U - E) * D <= b * (N * U))
         /\ t * U \in Int /\ (t * U - E) * D \in Int /\ N * U \in Int /\ b * (N * U) \in Int
         /\ t * U > E => (t * U - E) * D > 0
         /\ N > 0 => N * U > 0
<1>1. t * U \in Int /\ (t * U - E) * D \in Int /\ N * U \in Int /\ b * (N * U) \in Int
  OBVIOUS
<1>2. (E * D + b * N * U >= t * D * U) <=> ((t * U - E) * D <= b * (N * U))
  <2>1. (t * U - E) * D = t * D * U - E * D
    OBVIOUS
  <2>2. b * (N * U) = b * N * U
    OBVIOUS
  <2>3. t * D * U \in Int /\ E * D \in Int /\ b * N * U \in Int
    OBVIOUS
  <2>. DEFINE p == t * D * U  q == E * D  r == b * N * U
  <2>. HIDE DEF p, q, r
  <2>4. (q + r >= p) <=> (p - q <= r)
    BY <2>3 DEF p, q, r
  <2>. QED
    BY <2>1, <2>2, <2>4, Zenon DEF p, q, r
<1>3. \A d \in Int : (d * D <= 0) <=> (d <= 0)
  OBVIOUS
<1>4. (E * D + 0 * N * U >= t * D * U) <=> (E >= t * U)
  <2>1. (t * U - E) * D = t * D * U - E * D /\ 0 * N * U = 0
    OBVIOUS
  <2>2. t * D * U \in Int /\ E * D \in Int /\ t * U - E \in Int
    OBVIOUS
  <2>3. (E * D + 0 * N * U >= t * D * U) <=> ((t * U - E) * D <= 0)
    <3>. DEFINE p == t * D * U  q == E * D  r == 0 * N * U  s == (t * U - E) * D
    <3>1. s = p - q /\ r = 0 /\ p \in Int /\ q \in Int
      BY <2>1, <2>2
    <3>. HIDE DEF p, q, r, s
    <3>2. (q + r >= p) <=> (s <= 0)
      BY <3>1
    <3>. QED
      BY <3>2, Zenon DEF p, q, r, s
  <2>4. ((t * U - E) * D <= 0) <=> (t * U - E <= 0)
    BY <1>3, <2>2
  <2>5. (t * U - E <= 0) <=> (E >= t * U)
    BY <1>1
  <2>. QED
    BY <2>3, <2>4, <2>5, Zenon
<1>5. t * U > E => (t * U - E) * D > 0
  <2>1. \A d \in Int : d > 0 => d * D > 0
    OBVIOUS
  <2>2. t * U > E => t * U - E > 0
    BY <1>1
  <2>3. t * U - E \in Int
    OBVIOUS
  <2>. QED
    BY <2>1, <2>2, <2>3, Zenon
<1>6. N > 0 => N * U > 0
  OBVIOUS
<1>. QED
  BY <1>1, <1>2, <1>4, <1>5, <1>6, Zenon

\* What AdviceFollowsTrend says, of the answer to one call.
LEMMA AdviceOfSeries ==
  ASSUME NEW y \in Seq(Int), Len(y) >= 2, NEW t \in Nat, NEW metric, NEW hit \in HitIn24h(y, t)
  PROVE  LET eta == Eta(y, t)
             says == Wording(eta, hit)
             advice == Recommend(metric, y, eta, hit)
             representable == eta.num <= DurationMax * eta.den
         IN  /\ advice = "page now" <=> Reaches(y, t, 0)
             /\ says = "already" /\ SlopeNum(y) > 0 => Reaches(y, t, 0)
             /\ representable /\ says = "crosses" => Reaches(y, t, Horizon)
             /\ representable /\ says = "beyond" => ~Reaches(y, t, Horizon)
             /\ advice \in {"watch", "prepare"} => SlopeNum(y) > 0 /\ ~Reaches(y, t, 0)
<1>. DEFINE E == Ewma(y)  U == EwmaUnit(y)  D == SlopeDen(y)  N == SlopeNum(y)
            eta == Eta(y, t)  says == Wording(eta, hit)  advice == Recommend(metric, y, eta, hit)
            gap == (t * U - E) * D  pace == N * U  reach == Horizon * pace  far == DurationMax * pace
<1>1. E \in Int /\ U \in Nat \ {0} /\ D \in Nat \ {0} /\ N \in Int
  BY EwmaType, DenominatorPositive, SumsType
<1>2. Horizon \in Nat /\ DurationMax \in Nat /\ Horizon < DurationMax
  BY ForecastAssumption
<1>3. /\ Reaches(y, t, 0) <=> E >= t * U
      /\ Reaches(y, t, Horizon) <=> gap <= reach
      /\ t * U > E => gap > 0
      /\ N > 0 => pace > 0
      /\ t * U \in Int /\ gap \in Int /\ pace \in Int /\ reach \in Int
  <2>. HIDE DEF E, U, D, N
  <2>1. /\ (E * D + 0 * N * U >= t * D * U) <=> (E >= t * U)
        /\ (E * D + Horizon * N * U >= t * D * U) <=> ((t * U - E) * D <= Horizon * (N * U))
        /\ t * U \in Int /\ (t * U - E) * D \in Int /\ N * U \in Int /\ Horizon * (N * U) \in Int
        /\ t * U > E => (t * U - E) * D > 0
        /\ N > 0 => N * U > 0
    BY <1>1, <1>2, ReachesArithmetic
  <2>. QED
    BY <2>1, Zenon DEF Reaches, E, U, D, N
<1>4. eta = IF N > 0 /\ t * U > E THEN [num |-> gap, den |-> pace] ELSE [num |-> 0, den |-> 1]
  BY Zenon DEF Eta, Current
<1>5. /\ advice = "page now" <=> eta.num = 0 /\ hit
      /\ advice \in {"watch", "prepare"} => hit /\ eta.num # 0
  BY DEF Recommend
<1>6. /\ says = "already" => eta.num = 0
      /\ says = "crosses" => eta.num # 0 /\ hit
      /\ says = "beyond" => eta.num # 0 /\ ~(eta.num > 0 /\ hit)
  BY DEF Wording
<1>7. CASE N > 0 /\ t * U > E
  <2>1. eta.num = gap /\ eta.den = pace /\ gap > 0
    BY <1>3, <1>4, <1>7
  <2>2. gap <= far => (hit <=> gap <= reach)
    <3>1. far \in Int
      <4>. HIDE DEF pace
      <4>. QED
        BY <1>2, <1>3
    <3>2. hit \in (CASE gap > far -> BOOLEAN
                    [] gap > 0 /\ gap <= far -> {gap <= reach}
                    [] OTHER -> {E >= t * U})
      BY <2>1, Zenon DEF HitIn24h, Current
    <3>. HIDE DEF gap, far, reach
    <3>3. gap <= far => hit = (gap <= reach)
      BY <1>3, <2>1, <3>1, <3>2
    <3>. QED
      BY <3>3, Zenon
  <2>3. ~(E >= t * U)
    BY <1>1, <1>3, <1>7
  <2>. HIDE DEF gap, pace, far, reach, E, U, D, N, eta, says, advice
  <2>4. gap # 0
    BY <1>3, <2>1
  <2>5. eta.num <= DurationMax * eta.den <=> gap <= far
    BY <2>1, Zenon DEF far
  <2>6. /\ advice # "page now" /\ says # "already" /\ ~Reaches(y, t, 0)
        /\ says = "crosses" => hit
        /\ says = "beyond" => ~hit
    BY <1>3, <1>5, <1>6, <2>1, <2>3, <2>4, Zenon
  <2>. QED
    BY <1>3, <1>7, <2>2, <2>5, <2>6, Zenon DEF eta, says, advice, N
<1>8. CASE ~(N > 0 /\ t * U > E)
  <2>1. eta.num = 0 /\ eta.den = 1
    BY <1>4, <1>8
  <2>2. hit = (E >= t * U)
    <3>1. hit \in (CASE 0 > DurationMax * 1 -> BOOLEAN
                    [] 0 > 0 /\ 0 <= DurationMax * 1 -> {0 <= Horizon * 1}
                    [] OTHER -> {E >= t * U})
      BY <2>1, Zenon DEF HitIn24h, Current
    <3>. HIDE DEF E, U
    <3>2. ~(0 > DurationMax * 1) /\ ~(0 > 0)
      BY <1>2
    <3>. QED
      BY <3>1, <3>2
  <2>3. N > 0 => E >= t * U
    BY <1>1, <1>3, <1>8
  <2>. HIDE DEF gap, pace, far, reach, E, U, D, N, eta, says, advice
  <2>4. /\ advice = "page now" <=> Reaches(y, t, 0)
        /\ advice \notin {"watch", "prepare"}
        /\ says # "crosses" /\ says # "beyond"
        /\ N > 0 => Reaches(y, t, 0)
    BY <1>3, <1>5, <1>6, <2>1, <2>2, <2>3, Zenon
  <2>. QED
    BY <2>4, Zenon DEF eta, says, advice, N
<1>. QED
  BY <1>7, <1>8

-----------------------------------------------------------------------------
(* Orders of finite sets.                                                  *)

\* R orders S strictly and totally.
StrictOrder(S, R) ==
    /\ \A x \in S : <<x, x>> \notin R
    /\ \A x, y, z \in S : <<x, y>> \in R /\ <<y, z>> \in R => <<x, z>> \in R
    /\ \A x, y \in S : x # y => <<x, y>> \in R \/ <<y, x>> \in R

\* The elements that come before x.
Below(S, R, x) == {y \in S : <<y, x>> \in R}

\* Each place in the order is somebody's, and the places follow the order.
LEMMA RankFacts ==
  ASSUME NEW S, IsFiniteSet(S), NEW R, StrictOrder(S, R)
  PROVE  /\ Cardinality(S) \in Nat
         /\ \A x \in S : /\ IsFiniteSet(Below(S, R, x))
                         /\ Cardinality(Below(S, R, x)) \in 0..(Cardinality(S) - 1)
         /\ \A x, y \in S :
              <<x, y>> \in R <=> Cardinality(Below(S, R, x)) < Cardinality(Below(S, R, y))
         /\ \A k \in 1..Cardinality(S) : \E x \in S : Cardinality(Below(S, R, x)) = k - 1
<1>. DEFINE n == Cardinality(S)
            r(x) == Cardinality(Below(S, R, x))
<1>1. n \in Nat
  BY FS_CardinalityType
<1>2. ASSUME NEW x \in S
      PROVE  IsFiniteSet(Below(S, R, x)) /\ r(x) \in 0..(n - 1)
  <2>1. Below(S, R, x) \in SUBSET S /\ x \notin Below(S, R, x)
    BY DEF Below, StrictOrder
  <2>2. IsFiniteSet(Below(S, R, x)) /\ r(x) <= n /\ (n = r(x) => S = Below(S, R, x))
    BY <2>1, FS_Subset
  <2>3. r(x) \in Nat
    BY <2>2, FS_CardinalityType
  <2>4. r(x) # n
    BY <2>1, <2>2
  <2>. HIDE DEF r, n
  <2>. QED
    BY <1>1, <2>2, <2>3, <2>4
<1>3. ASSUME NEW x \in S, NEW y \in S, <<x, y>> \in R
      PROVE  r(x) < r(y)
  <2>1. Below(S, R, x) \in SUBSET Below(S, R, y)
    BY <1>3 DEF Below, StrictOrder
  <2>2. x \in Below(S, R, y) /\ x \notin Below(S, R, x)
    BY <1>3 DEF Below, StrictOrder
  <2>3. r(x) <= r(y) /\ (r(y) = r(x) => Below(S, R, x) = Below(S, R, y))
    BY <1>2, <2>1, FS_Subset
  <2>4. r(x) \in Int /\ r(y) \in Int
    BY <1>2
  <2>5. r(x) # r(y)
    BY <2>2, <2>3
  <2>. HIDE DEF r
  <2>. QED
    BY <2>3, <2>4, <2>5
<1>4. ASSUME NEW x \in S, NEW y \in S, r(x) < r(y)
      PROVE  <<x, y>> \in R
  <2>1. x # y /\ ~(r(y) < r(x))
    <3>1. r(x) \in Int /\ r(y) \in Int
      BY <1>2
    <3>. HIDE DEF r
    <3>. QED
      BY <1>4, <3>1
  <2>2. <<y, x>> \notin R
    BY <1>3, <2>1
  <2>. QED
    BY <2>1, <2>2 DEF StrictOrder
<1>5. ASSUME NEW k \in 1..n
      PROVE  \E x \in S : r(x) = k - 1
  <2>. DEFINE f == [x \in S |-> r(x)]
              T == 0..(n - 1)
  <2>1. f \in [S -> T]
    BY <1>2
  <2>2. ASSUME NEW x \in S, NEW y \in S, f[x] = f[y]
        PROVE  x = y
    <3>1. r(x) = r(y) /\ r(x) \in Int
      BY <1>2, <2>2
    <3>2. ~(r(x) < r(y)) /\ ~(r(y) < r(x))
      <4>. HIDE DEF r
      <4>. QED
        BY <3>1
    <3>. QED
      BY <1>3, <3>2 DEF StrictOrder
  <2>3. f \in Injection(S, T)
    <3>. HIDE DEF f, T
    <3>. QED
      BY <2>1, <2>2 DEF Injection, IsInjective
  <2>4. IsFiniteSet(T) /\ Cardinality(T) = n
    <3>1. n - 1 \in Int /\ 0 \in Int
      BY <1>1
    <3>. HIDE DEF n
    <3>2. IsFiniteSet(0..(n - 1)) /\ Cardinality(0..(n - 1)) = IF 0 > n - 1 THEN 0 ELSE n - 1 - 0 + 1
      BY <3>1, FS_Interval
    <3>. QED
      BY <1>1, <3>2
  <2>5. f \in Surjection(S, T)
    <3>. HIDE DEF f, T
    <3>. QED
      BY <2>3, <2>4, FS_Injection
  <2>6. k - 1 \in T
    BY <1>1
  <2>7. \E x \in S : f[x] = k - 1
    <3>. HIDE DEF f, T
    <3>. QED
      BY <2>5, <2>6 DEF Surjection
  <2>. QED
    BY <2>7
<1>. QED
  BY <1>1, <1>2, <1>3, <1>4, <1>5

\* f gives the elements of S in the order R.
InOrder(f, S, R) ==
    /\ f = [k \in 1..Cardinality(S) |-> f[k]]
    /\ \A k \in 1..Cardinality(S) : f[k] \in S /\ Cardinality(Below(S, R, f[k])) = k - 1

\* The elements are all there, once each, and in that order.
LEMMA InOrderFacts ==
  ASSUME NEW S, IsFiniteSet(S), NEW R, StrictOrder(S, R), NEW f, InOrder(f, S, R)
  PROVE  /\ Cardinality(S) \in Nat
         /\ f \in [1..Cardinality(S) -> S]
         /\ f \in Seq(S) /\ Len(f) = Cardinality(S)
         /\ \A j, k \in 1..Cardinality(S) :
              /\ j < k <=> <<f[j], f[k]>> \in R
              /\ f[j] = f[k] => j = k
         /\ \A x \in S : \E k \in 1..Cardinality(S) : f[k] = x
<1>. DEFINE n == Cardinality(S)
<1>1. n \in Nat
  BY RankFacts
<1>2. ASSUME NEW k \in 1..n
      PROVE  f[k] \in S /\ Cardinality(Below(S, R, f[k])) = k - 1
  BY DEF InOrder
<1>3. f \in [1..n -> S]
  <2>1. f = [k \in 1..n |-> f[k]]
    BY DEF InOrder
  <2>. HIDE DEF n
  <2>. QED
    BY <1>2, <2>1
<1>4. ASSUME NEW j \in 1..n, NEW k \in 1..n
      PROVE  /\ j < k <=> <<f[j], f[k]>> \in R
             /\ f[j] = f[k] => j = k
  <2>1. <<f[j], f[k]>> \in R <=> Cardinality(Below(S, R, f[j])) < Cardinality(Below(S, R, f[k]))
    BY <1>2, RankFacts
  <2>2. <<f[j], f[k]>> \in R <=> j - 1 < k - 1
    BY <1>2, <2>1
  <2>3. f[j] = f[k] => j - 1 = k - 1
    <3>. HIDE DEF n
    <3>. QED
      BY <1>2, Zenon
  <2>4. (j - 1 < k - 1 <=> j < k) /\ (j - 1 = k - 1 <=> j = k)
    BY <1>1
  <2>. QED
    BY <2>2, <2>3, <2>4, Zenon
<1>5. ASSUME NEW x \in S
      PROVE  \E k \in 1..n : f[k] = x
  <2>. DEFINE k == Cardinality(Below(S, R, x)) + 1
  <2>1. k \in 1..n /\ Cardinality(Below(S, R, x)) = k - 1
    BY <1>1, RankFacts
  <2>2. f[k] \in S /\ Cardinality(Below(S, R, f[k])) = k - 1
    <3>. HIDE DEF k, n
    <3>. QED
      BY <1>2, <2>1
  <2>3. ~(Cardinality(Below(S, R, x)) < Cardinality(Below(S, R, f[k])))
        /\ ~(Cardinality(Below(S, R, f[k])) < Cardinality(Below(S, R, x)))
    <3>. HIDE DEF k, n
    <3>. QED
      BY <1>1, <2>1, <2>2
  <2>4. <<x, f[k]>> \notin R /\ <<f[k], x>> \notin R
    <3>. HIDE DEF k, n
    <3>. QED
      BY <2>2, <2>3, RankFacts
  <2>5. f[k] = x
    BY <2>2, <2>4 DEF StrictOrder
  <2>. QED
    BY <2>1, <2>5
<1>6. f \in Seq(S) /\ Len(f) = n
  BY <1>1, <1>3
<1>. QED
  BY <1>1, <1>2, <1>3, <1>4, <1>5, <1>6

-----------------------------------------------------------------------------
(* Selections from a sequence.                                             *)

\* There are n numbers up to n.
LEMMA CountTo ==
  ASSUME NEW n \in Nat
  PROVE  IsFiniteSet(1..n) /\ Cardinality(1..n) = n
BY FS_Interval

\* g lists the numbers I, L of them, in their order.
Lists(g, L, I) ==
    /\ L \in Nat
    /\ g \in [1..L -> I]
    /\ \A j, k \in 1..L : j < k => g[j] < g[k]
    /\ \A i \in I : \E k \in 1..L : g[k] = i

\* A list names each number once, and there are as many as it is long.
LEMMA ListFacts ==
  ASSUME NEW I, I \subseteq Nat, NEW L, NEW g, Lists(g, L, I)
  PROVE  /\ IsFiniteSet(I) /\ Cardinality(I) = L
         /\ \A j, k \in 1..L : g[j] < g[k] => j < k
         /\ \A j, k \in 1..L : g[j] = g[k] => j = k
         /\ g \in Bijection(1..L, I)
<1>1. L \in Nat /\ g \in [1..L -> I] /\ (\A i \in I : \E k \in 1..L : g[k] = i)
      /\ \A j, k \in 1..L : j < k => g[j] < g[k]
  BY DEF Lists
<1>2. \A k \in 1..L : g[k] \in Nat /\ k \in Int
  <2>1. \A k \in 1..L : k \in Int
    BY <1>1
  <2>2. \A k \in 1..L : g[k] \in I
    BY <1>1
  <2>. QED
    BY <2>1, <2>2
<1>3. ASSUME NEW j \in 1..L, NEW k \in 1..L
      PROVE  (g[j] < g[k] => j < k) /\ (g[j] = g[k] => j = k)
  <2>1. j < k \/ j = k \/ k < j
    BY <1>2
  <2>2. j < k => g[j] < g[k]
    BY <1>1
  <2>3. k < j => g[k] < g[j]
    BY <1>1
  <2>4. g[j] \in Nat /\ g[k] \in Nat
    BY <1>2
  <2>. QED
    BY <2>1, <2>2, <2>3, <2>4
<1>4. g \in Bijection(1..L, I)
  BY <1>1, <1>3 DEF Bijection, Injection, Surjection, IsInjective
<1>5. IsFiniteSet(1..L) /\ Cardinality(1..L) = L
  BY <1>1, FS_Interval
<1>6. ExistsBijection(1..L, I)
  BY <1>4 DEF ExistsBijection
<1>7. IsFiniteSet(I) /\ Cardinality(I) = L
  BY <1>5, <1>6, FS_Bijection
<1>. QED
  BY <1>3, <1>4, <1>7

\* The places of a sequence that satisfy something are a finite set of numbers.
LEMMA SubsetOfPlaces ==
  ASSUME NEW s, NEW S, s \in Seq(S), NEW I, I \subseteq DOMAIN s
  PROVE  I \subseteq Nat /\ IsFiniteSet(I) /\ Cardinality(I) \in Nat
<1>1. DOMAIN s = 1..Len(s) /\ Len(s) \in Nat
  OBVIOUS
<1>2. IsFiniteSet(1..Len(s))
  BY <1>1, FS_Interval
<1>3. I \in SUBSET (1..Len(s))
  BY <1>1
<1>4. IsFiniteSet(I)
  BY <1>2, <1>3, FS_Subset
<1>. QED
  BY <1>1, <1>4, FS_CardinalityType

\* At takes the elements at the places, in their order.
LEMMA AtFacts ==
  ASSUME NEW S, NEW s \in Seq(S), NEW I, I \subseteq DOMAIN s
  PROVE  /\ At(s, I) \in Seq(S) /\ Len(At(s, I)) = Cardinality(I) /\ Cardinality(I) \in Nat
         /\ \E g : /\ Lists(g, Cardinality(I), I)
                   /\ \A k \in 1..Cardinality(I) : At(s, I)[k] = s[g[k]]
<1>. DEFINE R == {p \in I \X I : p[1] < p[2]}
            place(k) == CHOOSE x \in I : Cardinality({y \in I : y < x}) = k - 1
            g == [k \in 1..Cardinality(I) |-> place(k)]
            m == Cardinality(I)
<1>1. I \subseteq Nat /\ IsFiniteSet(I) /\ m \in Nat
  BY SubsetOfPlaces
<1>2. StrictOrder(I, R)
  <2>1. \A x, y \in I : <<x, y>> \in R <=> x < y
    OBVIOUS
  <2>2. \A x, y, z \in Nat : ~(x < x) /\ (x < y /\ y < z => x < z) /\ (x # y => x < y \/ y < x)
    OBVIOUS
  <2>. HIDE DEF R
  <2>. QED
    BY <1>1, <2>1, <2>2, Zenon DEF StrictOrder
<1>3. \A x \in I : {y \in I : y < x} = Below(I, R, x)
  BY DEF Below
<1>4. At(s, I) = [k \in 1..m |-> s[g[k]]]
  <2>2. At(s, I) = [k \in DOMAIN g |-> s[g[k]]]
    BY DEF At, Ranked
  <2>3. DOMAIN g = 1..m
    OBVIOUS
  <2>. HIDE DEF g, m
  <2>. QED
    BY <2>2, <2>3
<1>5. /\ g \in [1..m -> I]
      /\ \A j, k \in 1..m : j < k <=> <<g[j], g[k]>> \in R
      /\ \A i \in I : \E k \in 1..m : g[k] = i
  <2>1. ASSUME NEW k \in 1..m
        PROVE  g[k] \in I /\ Cardinality(Below(I, R, g[k])) = k - 1
    <3>1. PICK x \in I : Cardinality(Below(I, R, x)) = k - 1
      <4>. HIDE DEF R
      <4>. QED
        BY <1>1, <1>2, RankFacts
    <3>2. Cardinality({y \in I : y < x}) = k - 1
      BY <1>3, <3>1
    <3>3. g[k] \in I /\ Cardinality({y \in I : y < g[k]}) = k - 1
      BY <3>2
    <3>. HIDE DEF g, R
    <3>. QED
      BY <1>3, <3>3
  <2>2. g = [k \in 1..m |-> g[k]]
    <3>. HIDE DEF place
    <3>. QED
      OBVIOUS
  <2>. HIDE DEF R, g
  <2>3. InOrder(g, I, R)
    BY <2>1, <2>2 DEF InOrder
  <2>4. /\ g \in [1..Cardinality(I) -> I]
        /\ \A j, k \in 1..Cardinality(I) :
             /\ j < k <=> <<g[j], g[k]>> \in R
             /\ g[j] = g[k] => j = k
        /\ \A x \in I : \E k \in 1..Cardinality(I) : g[k] = x
    <3>1. IsFiniteSet(I) /\ StrictOrder(I, R) /\ InOrder(g, I, R)
      BY <1>1, <1>2, <2>3
    <3>. QED
      BY <3>1, InOrderFacts, SMTT(30)
  <2>. QED
    BY <2>4, Zenon
<1>6. \A j, k \in 1..m : j < k => g[j] < g[k]
  BY <1>5
<1>. HIDE DEF g, R
<1>7. Lists(g, m, I)
  BY <1>1, <1>5, <1>6 DEF Lists
<1>8. At(s, I) \in Seq(S) /\ Len(At(s, I)) = m
  <2>1. \A k \in 1..m : s[g[k]] \in S
    BY <1>5, ElementType
  <2>. HIDE DEF m
  <2>2. At(s, I) \in [1..m -> S]
    BY <1>4, <2>1
  <2>. QED
    BY <1>1, <2>2
<1>9. \A k \in 1..m : At(s, I)[k] = s[g[k]]
  <2>. HIDE DEF m
  <2>. QED
    BY <1>4
<1>. QED
  BY <1>1, <1>7, <1>8, <1>9

\* The elements that LastN drops.
Dropped(s, n) == IF Len(s) > n THEN Len(s) - n ELSE 0

\* LastN keeps the end of a sequence.
LEMMA LastNFacts ==
  ASSUME NEW S, NEW s \in Seq(S), NEW n \in Nat \ {0}
  PROVE  /\ LastN(s, n) \in Seq(S)
         /\ Dropped(s, n) \in 0..Len(s)
         /\ Len(LastN(s, n)) = Len(s) - Dropped(s, n)
         /\ \A k \in 1..(Len(s) - Dropped(s, n)) : LastN(s, n)[k] = s[Dropped(s, n) + k]
<1>. DEFINE d == Dropped(s, n)  m == Len(s)
<1>1. m \in Nat /\ d \in 0..m /\ LastN(s, n) = SubSeq(s, d + 1, m)
  BY DEF Dropped, LastN
<1>. HIDE DEF d
<1>2. SubSeq(s, d + 1, m) \in Seq(S) /\ Len(SubSeq(s, d + 1, m)) = m - d
  BY <1>1
<1>3. \A k \in 1..(m - d) : SubSeq(s, d + 1, m)[k] = s[d + k]
  BY <1>1
<1>. QED
  BY <1>1, <1>2, <1>3 DEF d

\* A selection has only elements that were selected.
LEMMA AtElements ==
  ASSUME NEW S, NEW s \in Seq(S), NEW I, I \subseteq DOMAIN s, NEW T, \A i \in I : s[i] \in T
  PROVE  At(s, I) \in Seq(T)
<1>. DEFINE m == Cardinality(I)
<1>1. PICK g : Lists(g, m, I) /\ \A k \in 1..m : At(s, I)[k] = s[g[k]]
  BY AtFacts
<1>2. At(s, I) \in Seq(S) /\ Len(At(s, I)) = m /\ m \in Nat
  BY AtFacts
<1>. HIDE DEF m
<1>3. \A k \in 1..m : At(s, I)[k] \in T
  BY <1>1 DEF Lists
<1>4. At(s, I) = [k \in 1..m |-> At(s, I)[k]]
  BY <1>2
<1>. QED
  BY <1>2, <1>3, <1>4, FunctionIsSeq

-----------------------------------------------------------------------------
(* Sorted numbers.                                                         *)

\* The values of vals below v, and up to it.
Lower(vals, v) == {i \in DOMAIN vals : vals[i] < v}
UpTo(vals, v) == {i \in DOMAIN vals : vals[i] <= v}

\* The places of numbers of a sequence are counted by a number.
LEMMA LowerFacts ==
  ASSUME NEW vals \in Seq(Int), NEW v
  PROVE  /\ Cardinality(Lower(vals, v)) \in Nat /\ Cardinality(UpTo(vals, v)) \in Nat
         /\ IsFiniteSet(Lower(vals, v)) /\ IsFiniteSet(UpTo(vals, v))
BY SubsetOfPlaces DEF Lower, UpTo

\* Some number stands at each place of the sorted sequence.
LEMMA AscendingFacts ==
  ASSUME NEW vals \in Seq(Int)
  PROVE  /\ Ascending(vals) = [k \in 1..Len(vals) |-> Ascending(vals)[k]]
         /\ \A k \in 1..Len(vals) :
              /\ \E i \in 1..Len(vals) : Ascending(vals)[k] = vals[i]
              /\ Ascending(vals)[k] \in Int
              /\ Cardinality(Lower(vals, Ascending(vals)[k])) < k
              /\ k <= Cardinality(UpTo(vals, Ascending(vals)[k]))
<1>. DEFINE n == Len(vals)
            D == 1..n
            R == {p \in D \X D : vals[p[1]] < vals[p[2]] \/ (vals[p[1]] = vals[p[2]] /\ p[1] < p[2])}
            Fits(v, k) == Cardinality(Lower(vals, v)) < k /\ k <= Cardinality(UpTo(vals, v))
<1>1. n \in Nat /\ DOMAIN vals = D /\ \A i \in D : vals[i] \in Int /\ i \in Int
  BY ElementType
<1>2. IsFiniteSet(D) /\ Cardinality(D) = n
  BY <1>1, CountTo
<1>3. \A x, y \in D : <<x, y>> \in R <=> vals[x] < vals[y] \/ (vals[x] = vals[y] /\ x < y)
  OBVIOUS
<1>4. StrictOrder(D, R)
  <2>1. ASSUME NEW x \in D
        PROVE  <<x, x>> \notin R
    BY <1>1, <1>3
  <2>2. ASSUME NEW x \in D, NEW y \in D, NEW z \in D, <<x, y>> \in R, <<y, z>> \in R
        PROVE  <<x, z>> \in R
    <3>1. /\ vals[x] \in Int /\ vals[y] \in Int /\ vals[z] \in Int
          /\ x \in Int /\ y \in Int /\ z \in Int
      BY <1>1
    <3>2. /\ vals[x] < vals[y] \/ (vals[x] = vals[y] /\ x < y)
          /\ vals[y] < vals[z] \/ (vals[y] = vals[z] /\ y < z)
      BY <1>3, <2>2
    <3>3. vals[x] < vals[z] \/ (vals[x] = vals[z] /\ x < z)
      BY <3>1, <3>2
    <3>. HIDE DEF R, D
    <3>. QED
      BY <1>3, <3>3
  <2>3. ASSUME NEW x \in D, NEW y \in D, x # y
        PROVE  <<x, y>> \in R \/ <<y, x>> \in R
    <3>1. vals[x] \in Int /\ vals[y] \in Int /\ x \in Int /\ y \in Int
      BY <1>1
    <3>2. \/ vals[x] < vals[y] \/ (vals[x] = vals[y] /\ x < y)
          \/ vals[y] < vals[x] \/ (vals[y] = vals[x] /\ y < x)
      BY <2>3, <3>1
    <3>. HIDE DEF R, D
    <3>. QED
      BY <1>3, <3>2
  <2>. HIDE DEF R, D
  <2>. QED
    BY <2>1, <2>2, <2>3 DEF StrictOrder
<1>5. ASSUME NEW k \in 1..n
      PROVE  \E v \in ToSet(vals) : Fits(v, k)
  <2>1. PICK i \in D : Cardinality(Below(D, R, i)) = k - 1
    <3>. HIDE DEF R, D
    <3>. QED
      BY <1>2, <1>4, RankFacts
  <2>2. Lower(vals, vals[i]) \in SUBSET Below(D, R, i)
    BY <1>1, <1>3 DEF Lower, Below
  <2>3. Below(D, R, i) \cup {i} \in SUBSET UpTo(vals, vals[i])
    <3>1. ASSUME NEW j \in Below(D, R, i)
          PROVE  j \in UpTo(vals, vals[i])
      <4>1. j \in D /\ (vals[j] < vals[i] \/ vals[j] = vals[i])
        BY <1>3 DEF Below
      <4>. QED
        BY <1>1, <4>1 DEF UpTo
    <3>2. i \in UpTo(vals, vals[i])
      BY <1>1 DEF UpTo
    <3>. QED
      BY <3>1, <3>2
  <2>4. IsFiniteSet(Below(D, R, i)) /\ Cardinality(Below(D, R, i)) = k - 1
    <3>. HIDE DEF R, D
    <3>. QED
      BY <1>2, <1>4, <2>1, RankFacts
  <2>5. Cardinality(Lower(vals, vals[i])) <= k - 1
    BY <2>2, <2>4, FS_Subset
  <2>6. i \notin Below(D, R, i)
    BY <1>4 DEF StrictOrder, Below
  <2>7. Cardinality(Below(D, R, i) \cup {i}) = k
    <3>1. Cardinality(Below(D, R, i) \cup {i}) = (k - 1) + 1
      BY <2>4, <2>6, FS_AddElement
    <3>. QED
      BY <3>1
  <2>8. k <= Cardinality(UpTo(vals, vals[i]))
    <3>1. IsFiniteSet(UpTo(vals, vals[i]))
      BY LowerFacts
    <3>. QED
      BY <2>3, <2>7, <3>1, FS_Subset
  <2>9. Cardinality(Lower(vals, vals[i])) < k
    BY <2>5, LowerFacts
  <2>10. vals[i] \in ToSet(vals)
    BY <1>1 DEF ToSet
  <2>. QED
    BY <2>8, <2>9, <2>10
<1>. DEFINE place(k) == CHOOSE v \in ToSet(vals) : Fits(v, k)
<1>6. Ascending(vals) = [k \in D |-> place(k)]
  BY <1>1 DEF Ascending, Lower, UpTo
<1>7. \A k \in D : place(k) \in ToSet(vals) /\ Fits(place(k), k)
  BY <1>5
<1>. HIDE DEF place
<1>8. \A k \in D : Ascending(vals)[k] = place(k)
  BY <1>6
<1>9. Ascending(vals) = [k \in D |-> Ascending(vals)[k]]
  BY <1>6
<1>10. \A k \in D : \E i \in D : Ascending(vals)[k] = vals[i]
  BY <1>1, <1>7, <1>8 DEF ToSet
<1>11. \A k \in D : Fits(Ascending(vals)[k], k)
  BY <1>7, <1>8
<1>12. \A k \in D : Ascending(vals)[k] \in Int
  <2>. HIDE DEF D
  <2>. QED
    BY <1>1, <1>10
<1>. QED
  BY <1>9, <1>10, <1>11, <1>12, Zenon

\* The sorted sequence has the same elements, and does not decrease.
LEMMA AscendingOrder ==
  ASSUME NEW vals \in Seq(Int)
  PROVE  /\ Ascending(vals) \in Seq(Int) /\ Len(Ascending(vals)) = Len(vals)
         /\ \A T : (\A i \in 1..Len(vals) : vals[i] \in T) => Ascending(vals) \in Seq(T)
         /\ \A j, k \in 1..Len(vals) : j <= k => Ascending(vals)[j] <= Ascending(vals)[k]
<1>. DEFINE a == Ascending(vals)  n == Len(vals)
<1>1. n \in Nat
  OBVIOUS
<1>2. a = [k \in 1..n |-> a[k]] /\ \A k \in 1..n : a[k] \in Int /\ \E i \in 1..n : a[k] = vals[i]
  BY AscendingFacts
<1>3. a \in Seq(Int) /\ Len(a) = n
  <2>. HIDE DEF a, n
  <2>. QED
    BY <1>1, <1>2, FunctionIsSeq
<1>4. ASSUME NEW T, \A i \in 1..n : vals[i] \in T
      PROVE  a \in Seq(T)
  <2>. HIDE DEF a, n
  <2>1. \A k \in 1..n : a[k] \in T
    BY <1>2, <1>4
  <2>. QED
    BY <1>1, <1>2, <2>1, FunctionIsSeq
<1>5. ASSUME NEW j \in 1..n, NEW k \in 1..n, j <= k
      PROVE  a[j] <= a[k]
  <2>. SUFFICES ASSUME a[k] < a[j]
                PROVE  FALSE
    <3>1. a[j] \in Int /\ a[k] \in Int
      BY <1>2
    <3>. HIDE DEF a
    <3>. QED
      BY <3>1
  <2>1. UpTo(vals, a[k]) \in SUBSET Lower(vals, a[j])
    <3>1. a[j] \in Int /\ a[k] \in Int
      BY <1>2
    <3>2. \A i \in DOMAIN vals : vals[i] \in Int
      BY ElementType
    <3>. HIDE DEF a
    <3>. QED
      BY <3>1, <3>2 DEF UpTo, Lower
  <2>2. Cardinality(UpTo(vals, a[k])) <= Cardinality(Lower(vals, a[j]))
    BY <2>1, LowerFacts, FS_Subset
  <2>3. Cardinality(Lower(vals, a[j])) < j /\ k <= Cardinality(UpTo(vals, a[k]))
    BY AscendingFacts
  <2>4. Cardinality(Lower(vals, a[j])) \in Nat /\ Cardinality(UpTo(vals, a[k])) \in Nat
    BY LowerFacts
  <2>. HIDE DEF a
  <2>. QED
    BY <1>5, <2>2, <2>3, <2>4
<1>. QED
  BY <1>3, <1>4, <1>5

-----------------------------------------------------------------------------
(* The series.                                                             *)

\* What the regular expressions found in a line.
LEMMA LineFields ==
  ASSUME NEW l \in LineType
  PROVE  /\ l.blank = FALSE
         /\ l.text \in Nat /\ l.clock \in Nat /\ l.named \in Nat /\ l.bare \in Nat /\ l.three \in Nat
         /\ l.lat \in Nat /\ l.unit \in {"none", "ms", "s"}
         /\ l.shape \in Key /\ l.path \in Key /\ l.route \in Key
         /\ parseLatMS(l) \in Int /\ latencyMS(l) \in Int /\ statusCodeOf(l) \in Nat
<1>1. /\ l.blank = FALSE
      /\ l.text \in Nat /\ l.clock \in Nat /\ l.named \in Nat /\ l.bare \in Nat /\ l.three \in Nat
      /\ l.lat \in Nat /\ l.unit \in {"none", "ms", "s"}
      /\ l.shape \in Key /\ l.path \in Key /\ l.route \in Key
  BY DEF LineType
<1>2. Second \in Nat
  BY SecondAssumption
<1>3. l.lat * Second \in Int
  BY <1>1, <1>2
<1>4. parseLatMS(l) \in Int /\ latencyMS(l) \in Int /\ statusCodeOf(l) \in Nat
  BY <1>1, <1>3 DEF parseLatMS, latencyMS, statusCodeOf
<1>. QED
  BY <1>1, <1>4

\* A line that is not empty has those fields.
LEMMA LineOrBlank ==
  ASSUME NEW l \in {BlankLine} \cup LineType
  PROVE  l.blank \in BOOLEAN /\ (~l.blank => l \in LineType)
<1>1. CASE l = BlankLine
  <2>1. l.blank = TRUE
    BY <1>1 DEF BlankLine
  <2>. QED
    BY <2>1
<1>2. CASE l \in LineType
  BY <1>2, LineFields
<1>. QED
  BY <1>1, <1>2

\* The lines of a forecast are not empty.
LEMMA WindowType ==
  ASSUME NEW file \in Seq(Lines), NEW n \in Nat \ {0}
  PROVE  ForecastWindow(file, n) \in Seq(LineType)
<1>. DEFINE L == {BlankLine} \cup LineType
            s == LastN(Append(file, BlankLine), n)
            I == {i \in DOMAIN s : ~s[i].blank}
<1>1. Append(file, BlankLine) \in Seq(L)
  <2>1. file \in Seq(L)
    BY LinesAssumption
  <2>2. BlankLine \in L
    OBVIOUS
  <2>. HIDE DEF L
  <2>. QED
    BY <2>1, <2>2
<1>2. s \in Seq(L)
  BY <1>1, LastNFacts
<1>3. ForecastWindow(file, n) = At(s, I)
  BY DEF ForecastWindow, Selected
<1>4. \A i \in I : s[i] \in LineType
  <2>1. \A i \in DOMAIN s : s[i] \in L
    <3>. HIDE DEF s, L
    <3>. QED
      BY <1>2
  <2>. HIDE DEF s
  <2>. QED
    BY <2>1, LineOrBlank
<1>5. I \subseteq DOMAIN s
  OBVIOUS
<1>. HIDE DEF s, I, L
<1>. QED
  BY <1>2, <1>3, <1>4, <1>5, AtElements

\* The rounded index stays within the latencies.
LEMMA BucketP95Type ==
  ASSUME NEW lats \in Seq(Nat)
  PROVE  BucketP95(lats) \in Nat
<1>1. CASE lats = <<>>
  BY <1>1 DEF BucketP95
<1>2. CASE lats # <<>>
  <2>. DEFINE m == Len(lats)
  <2>1. m \in Nat /\ m >= 1
    BY <1>2
  <2>. HIDE DEF m
  <2>2. (95 * (m - 1) + 99) \div 100 + 1 \in 1..m
    BY <2>1
  <2>3. BucketP95(lats) = lats[(95 * (m - 1) + 99) \div 100 + 1]
    BY <1>2 DEF BucketP95, m
  <2>. QED
    BY <2>2, <2>3, ElementType DEF m
<1>. QED
  BY <1>1, <1>2

\* Latencies are not negative.
LEMMA LatenciesType ==
  ASSUME NEW vals \in Seq(Int)
  PROVE  Latencies(vals) \in Seq(Nat)
<1>. DEFINE I == {i \in DOMAIN vals : vals[i] >= 0}
<1>1. At(vals, I) \in Seq(Nat)
  <2>1. \A i \in I : vals[i] \in Nat
    BY ElementType
  <2>2. I \subseteq DOMAIN vals
    OBVIOUS
  <2>. HIDE DEF I
  <2>. QED
    BY <2>1, <2>2, AtElements
<1>2. Latencies(vals) = Ascending(At(vals, I))
  BY DEF Latencies, Selected
<1>. HIDE DEF I
<1>3. At(vals, I) \in Seq(Int) /\ \A i \in 1..Len(At(vals, I)) : At(vals, I)[i] \in Nat
  BY <1>1
<1>. QED
  BY <1>2, <1>3, AscendingOrder

\* A bucket of BuildBuckets.
BucketType == [start : Nat, count : Nat, errs : Nat, p95 : Nat]

\* The lines of one bucket make a bucket.
LEMMA BucketMade ==
  ASSUME NEW timed \in Seq(LineType), NEW s \in Nat,
         NEW mine, mine = Selected(timed, LAMBDA l : l.clock \div Minutes = s)
  PROVE  [start |-> s,
          count |-> Len(mine),
          errs |-> Count(mine, LAMBDA l : statusCodeOf(l) >= 500),
          p95 |-> BucketP95(Latencies([i \in DOMAIN mine |-> latencyMS(mine[i])]))] \in BucketType
<1>. DEFINE I == {i \in DOMAIN timed : timed[i].clock \div Minutes = s}
            E == {i \in DOMAIN mine : statusCodeOf(mine[i]) >= 500}
            vals == [i \in DOMAIN mine |-> latencyMS(mine[i])]
<1>1. mine \in Seq(LineType)
  <2>1. mine = At(timed, I)
    BY DEF Selected
  <2>2. I \subseteq DOMAIN timed
    OBVIOUS
  <2>. HIDE DEF I
  <2>. QED
    BY <2>1, <2>2, AtFacts
<1>2. Len(mine) \in Nat /\ DOMAIN mine = 1..Len(mine)
  BY <1>1
<1>3. Cardinality(E) \in Nat
  <2>1. E \subseteq DOMAIN mine
    OBVIOUS
  <2>. HIDE DEF E
  <2>. QED
    BY <1>1, <2>1, SubsetOfPlaces
<1>4. Count(mine, LAMBDA l : statusCodeOf(l) >= 500) = Cardinality(E)
  BY DEF Count
<1>5. vals \in Seq(Int)
  <2>1. \A i \in 1..Len(mine) : latencyMS(mine[i]) \in Int
    BY <1>1, ElementType, LineFields
  <2>2. \A i \in 1..Len(mine) : vals[i] \in Int
    BY <1>2, <2>1
  <2>3. vals = [i \in 1..Len(mine) |-> vals[i]]
    BY <1>2
  <2>. HIDE DEF vals
  <2>. QED
    BY <1>2, <2>2, <2>3, FunctionIsSeq
<1>6. BucketP95(Latencies(vals)) \in Nat
  <2>. HIDE DEF vals
  <2>. QED
    BY <1>5, LatenciesType, BucketP95Type
<1>. HIDE DEF E
<1>. QED
  BY <1>2, <1>3, <1>4, <1>6 DEF BucketType

\* Buckets have a count, a number of errors and a p95.
LEMMA BucketsType ==
  ASSUME NEW file \in Seq(Lines), NEW n \in Nat \ {0}
  PROVE  BuildBuckets(file, n) \in Seq(BucketType)
<1>. DEFINE win == ForecastWindow(file, n)
            timed == Selected(win, LAMBDA l : l.clock # 0)
            slots == {timed[i].clock \div Minutes : i \in DOMAIN timed}
            mine(s) == Selected(timed, LAMBDA l : l.clock \div Minutes = s)
            bucket(s) ==
                [start |-> s,
                 count |-> Len(mine(s)),
                 errs |-> Count(mine(s), LAMBDA l : statusCodeOf(l) >= 500),
                 p95 |-> BucketP95(Latencies([i \in DOMAIN mine(s) |-> latencyMS(mine(s)[i])]))]
            S == {bucket(s) : s \in slots}
            R == {p \in S \X S : p[1].start < p[2].start}
            place(k) == CHOOSE x \in S : Cardinality({y \in S : y.start < x.start}) = k - 1
<1>1. timed \in Seq(LineType)
  <2>. DEFINE I == {i \in DOMAIN win : win[i].clock # 0}
  <2>1. timed = At(win, I)
    BY DEF Selected
  <2>2. I \subseteq DOMAIN win /\ win \in Seq(LineType)
    BY WindowType
  <2>. HIDE DEF I, win, timed
  <2>. QED
    BY <2>1, <2>2, AtFacts
<1>2. BuildBuckets(file, n) = [k \in 1..Cardinality(S) |-> place(k)]
  BY DEF BuildBuckets, Ranked
<1>. HIDE DEF timed, win
<1>3. slots \subseteq Nat
  <2>1. Minutes \in Nat \ {0}
    BY ForecastAssumption
  <2>2. \A i \in DOMAIN timed : timed[i].clock \in Nat
    <3>. SUFFICES ASSUME NEW i \in DOMAIN timed
                  PROVE  timed[i].clock \in Nat
      OBVIOUS
    <3>1. timed[i] \in LineType
      BY <1>1, ElementType
    <3>. QED
      BY <3>1, LineFields
  <2>. QED
    BY <2>1, <2>2
<1>4. \A s \in slots : bucket(s) \in BucketType /\ bucket(s).start = s
  <2>. SUFFICES ASSUME NEW s \in slots
                PROVE  bucket(s) \in BucketType /\ bucket(s).start = s
    OBVIOUS
  <2>1. s \in Nat
    BY <1>3
  <2>2. bucket(s).start = s
    OBVIOUS
  <2>3. bucket(s) \in BucketType
    <3>. DEFINE m == mine(s)
    <3>1. m = Selected(timed, LAMBDA l : l.clock \div Minutes = s)
      OBVIOUS
    <3>. HIDE DEF m
    <3>2. [start |-> s,
           count |-> Len(m),
           errs |-> Count(m, LAMBDA l : statusCodeOf(l) >= 500),
           p95 |-> BucketP95(Latencies([i \in DOMAIN m |-> latencyMS(m[i])]))] \in BucketType
      BY <1>1, <2>1, <3>1, BucketMade
    <3>. QED
      BY <3>2 DEF m
  <2>. QED
    BY <2>2, <2>3
<1>. HIDE DEF bucket, mine
<1>5. IsFiniteSet(S)
  <2>. DEFINE f == [i \in DOMAIN timed |-> bucket(timed[i].clock \div Minutes)]
  <2>1. f \in Surjection(DOMAIN timed, S)
    BY DEF Surjection
  <2>2. IsFiniteSet(DOMAIN timed)
    BY <1>1, SubsetOfPlaces
  <2>. HIDE DEF f, S
  <2>. QED
    BY <2>1, <2>2, FS_Surjection
<1>6. S \subseteq BucketType /\ \A x, y \in S : x.start = y.start => x = y
  BY <1>4
<1>. HIDE DEF S, slots
<1>7. \A x \in S : x.start \in Nat
  BY <1>6 DEF BucketType
<1>8. \A x, y \in S : <<x, y>> \in R <=> x.start < y.start
  OBVIOUS
<1>9. StrictOrder(S, R)
  <2>1. \A p, q, r \in Nat : ~(p < p) /\ (p < q /\ q < r => p < r) /\ (p # q => p < q \/ q < p)
    OBVIOUS
  <2>. HIDE DEF R
  <2>. QED
    BY <1>6, <1>7, <1>8, <2>1, Zenon DEF StrictOrder
<1>10. \A x \in S : {y \in S : y.start < x.start} = Below(S, R, x)
  BY DEF Below
<1>. HIDE DEF R
<1>11. \A k \in 1..Cardinality(S) : place(k) \in S
  <2>. SUFFICES ASSUME NEW k \in 1..Cardinality(S)
                PROVE  place(k) \in S
    OBVIOUS
  <2>1. PICK x \in S : Cardinality(Below(S, R, x)) = k - 1
    BY <1>5, <1>9, RankFacts
  <2>2. Cardinality({y \in S : y.start < x.start}) = k - 1
    BY <1>10, <2>1
  <2>. QED
    BY <2>2
<1>12. Cardinality(S) \in Nat
  BY <1>5, FS_CardinalityType
<1>. HIDE DEF place
<1>13. BuildBuckets(file, n) \in [1..Cardinality(S) -> BucketType]
  BY <1>2, <1>6, <1>11
<1>. QED
  BY <1>12, <1>13

\* A metric of the buckets is a sequence of numbers, one per bucket.
LEMMA SeriesType ==
  ASSUME NEW buckets \in Seq(BucketType), NEW metric \in Metrics
  PROVE  Series(metric, buckets) \in Seq(Int) /\ Len(Series(metric, buckets)) = Len(buckets)
<1>. DEFINE n == Len(buckets)  y == Series(metric, buckets)
<1>1. n \in Nat /\ DOMAIN buckets = 1..n
  OBVIOUS
<1>2. \A i \in 1..n : /\ buckets[i].count \in Nat /\ buckets[i].errs \in Nat
                      /\ buckets[i].p95 \in Nat
  <2>1. \A b \in BucketType : b.count \in Nat /\ b.errs \in Nat /\ b.p95 \in Nat
    BY DEF BucketType
  <2>2. \A i \in 1..n : buckets[i] \in BucketType
    BY ElementType
  <2>. QED
    BY <2>1, <2>2
<1>. HIDE DEF n
<1>3. \A i \in 1..n : y[i] \in Int
  BY <1>1, <1>2 DEF Series, Metrics
<1>4. y = [i \in 1..n |-> y[i]]
  <2>. DEFINE e(i) == CASE metric = "req_rate" -> buckets[i].count
                        [] metric = "err_rate" -> buckets[i].errs
                        [] metric = "latency_p95" -> buckets[i].p95
  <2>1. y = [i \in 1..n |-> e(i)]
    BY <1>1 DEF Series
  <2>. HIDE DEF e, y
  <2>. QED
    BY <2>1
<1>. HIDE DEF y
<1>5. y \in Seq(Int) /\ Len(y) = n
  BY <1>1, <1>3, <1>4, FunctionIsSeq
<1>. QED
  BY <1>5 DEF y, n

-----------------------------------------------------------------------------
(* The lines a report is about.                                            *)

\* What makes a list.
LEMMA IsList ==
  ASSUME NEW L \in Nat, NEW I, NEW g, g = [k \in 1..L |-> g[k]], \A k \in 1..L : g[k] \in I,
         \A j, k \in 1..L : j < k => g[j] < g[k],
         \A i \in I : \E k \in 1..L : g[k] = i
  PROVE  Lists(g, L, I)
BY DEF Lists

\* g is the list h of m numbers without its first d, and J are the others.
SuffixOf(g, J, h, m, d) ==
    /\ d \in 0..m
    /\ g \in [1..(m - d) -> Nat]
    /\ \A k \in 1..(m - d) : g[k] = h[d + k]
    /\ \A k \in (d + 1)..m : h[k] \in J
    /\ \A i \in J : \E k \in (d + 1)..m : h[k] = i

\* A list without its first d numbers lists the others.
LEMMA ListSuffix ==
  ASSUME NEW I, I \subseteq Nat, NEW m, NEW h, Lists(h, m, I), NEW d, NEW g, NEW J,
         SuffixOf(g, J, h, m, d)
  PROVE  Lists(g, m - d, J)
<1>. USE DEF SuffixOf
<1>1. m \in Nat /\ d \in Nat /\ d <= m /\ m - d \in Nat
  BY DEF Lists
<1>2. \A k \in 1..(m - d) : d + k \in (d + 1)..m /\ d + k \in 1..m
  BY <1>1
<1>3. \A k \in (d + 1)..m : k - d \in 1..(m - d) /\ d + (k - d) = k
  BY <1>1
<1>4. \A k \in 1..(m - d) : g[k] \in J
  BY <1>2
<1>5. ASSUME NEW j \in 1..(m - d), NEW k \in 1..(m - d), j < k
      PROVE  g[j] < g[k]
  <2>1. d + j \in 1..m /\ d + k \in 1..m /\ d + j < d + k
    BY <1>1, <1>2, <1>5
  <2>2. h[d + j] < h[d + k]
    BY <2>1 DEF Lists
  <2>. QED
    BY <2>2
<1>6. ASSUME NEW i \in J
      PROVE  \E k \in 1..(m - d) : g[k] = i
  <2>1. PICK k \in (d + 1)..m : h[k] = i
    OBVIOUS
  <2>2. k - d \in 1..(m - d) /\ g[k - d] = h[k]
    BY <1>3
  <2>. QED
    BY <2>1, <2>2
<1>7. g = [k \in 1..(m - d) |-> g[k]]
  OBVIOUS
<1>. QED
  BY <1>1, <1>4, <1>5, <1>6, <1>7, IsList

\* f takes the numbers of the list g at the m places J that h lists, T.
ComposedOf(f, T, g, h, m, J) ==
    /\ f \in [1..m -> Nat]
    /\ \A k \in 1..m : f[k] = g[h[k]]
    /\ \A j \in J : g[j] \in T
    /\ \A i \in T : \E j \in J : g[j] = i

\* The numbers at some places of a list are listed by the list of the places.
LEMMA ListCompose ==
  ASSUME NEW I, I \subseteq Nat, NEW L, NEW g, Lists(g, L, I),
         NEW J, J \subseteq 1..L, NEW m, NEW h, Lists(h, m, J),
         NEW f, NEW T, ComposedOf(f, T, g, h, m, J)
  PROVE  Lists(f, m, T)
<1>. USE DEF ComposedOf
<1>1. m \in Nat /\ h \in [1..m -> J] /\ (\A j, k \in 1..m : j < k => h[j] < h[k])
      /\ \A j \in J : \E k \in 1..m : h[k] = j
  BY DEF Lists
<1>2. \A k \in 1..m : f[k] \in T
  BY <1>1
<1>3. ASSUME NEW j \in 1..m, NEW k \in 1..m, j < k
      PROVE  f[j] < f[k]
  <2>1. h[j] \in 1..L /\ h[k] \in 1..L /\ h[j] < h[k]
    BY <1>1, <1>3
  <2>2. g[h[j]] < g[h[k]]
    BY <2>1 DEF Lists
  <2>. QED
    BY <2>2
<1>4. \A i \in T : \E k \in 1..m : f[k] = i
  BY <1>1
<1>5. f = [k \in 1..m |-> f[k]]
  OBVIOUS
<1>. QED
  BY <1>1, <1>2, <1>3, <1>4, <1>5, IsList

\* The places of a list of L numbers that hold a number of A.
Hits(g, L, A) == {k \in 1..L : g[k] \in A}

\* g lists the numbers I, and those of A are among them.
ListedAmong(A, g, L, I) == I \subseteq Nat /\ Lists(g, L, I) /\ A \subseteq I

\* As many places of a list hold numbers of A as A has numbers.
LEMMA ListedCount ==
  ASSUME NEW I, NEW L, NEW g, NEW A, ListedAmong(A, g, L, I)
  PROVE  /\ Cardinality(Hits(g, L, A)) = Cardinality(A)
         /\ IsFiniteSet(A) /\ Cardinality(A) \in Nat
<1>. DEFINE K == {k \in 1..L : g[k] \in A}
            f == [k \in K |-> g[k]]
<1>. USE DEF ListedAmong
<1>1. /\ L \in Nat /\ g \in [1..L -> I] /\ (\A i \in I : \E k \in 1..L : g[k] = i)
      /\ \A j, k \in 1..L : g[j] = g[k] => j = k
  <2>1. \A j, k \in 1..L : g[j] = g[k] => j = k
    BY ListFacts
  <2>2. L \in Nat /\ g \in [1..L -> I] /\ (\A i \in I : \E k \in 1..L : g[k] = i)
    BY DEF Lists
  <2>. QED
    BY <2>1, <2>2
<1>2. f \in Bijection(K, A)
  <2>1. f \in [K -> A]
    OBVIOUS
  <2>2. \A j, k \in K : f[j] = f[k] => j = k
    BY <1>1
  <2>3. \A i \in A : \E k \in K : f[k] = i
    BY <1>1
  <2>. HIDE DEF f, K
  <2>. QED
    BY <2>1, <2>2, <2>3 DEF Bijection, Injection, Surjection, IsInjective
<1>3. IsFiniteSet(K)
  <2>1. K \in SUBSET (1..L) /\ IsFiniteSet(1..L)
    BY <1>1, CountTo
  <2>. QED
    BY <2>1, FS_Subset
<1>. HIDE DEF K, f
<1>4. ExistsBijection(K, A)
  BY <1>2 DEF ExistsBijection
<1>5. IsFiniteSet(A) /\ Cardinality(A) = Cardinality(K)
  BY <1>3, <1>4, FS_Bijection
<1>6. Cardinality(A) \in Nat
  BY <1>5, FS_CardinalityType
<1>. QED
  BY <1>5, <1>6 DEF K, Hits

\* What Newest says, of a file.
NewestOf(file, n) ==
    {i \in DOMAIN file : ~file[i].blank
        /\ Cardinality({j \in DOMAIN file : j > i /\ ~file[j].blank}) < n}

\* s shows the lines of the file at the places N, in their order.
Shows(s, file, g, N) ==
    /\ s \in Seq(LineType)
    /\ Lists(g, Len(s), N)
    /\ \A k \in 1..Len(s) : s[k] = file[g[k]]

\* readLastN shows the newest lines.
LEMMA ReadShows ==
  ASSUME NEW file \in Seq(Lines), NEW n \in Nat \ {0}
  PROVE  \E g : Shows(ReadLastN(file, n), file, g, NewestOf(file, n))
<1>. DEFINE I == {i \in DOMAIN file : ~file[i].blank}
            s == At(file, I)
            m == Cardinality(I)
            lines == LastN(s, n)
            d == Dropped(s, n)
            N == NewestOf(file, n)
            after(i) == {j \in DOMAIN file : j > i /\ ~file[j].blank}
<1>1. ReadLastN(file, n) = lines
  BY DEF ReadLastN, Selected
<1>2. I \subseteq DOMAIN file /\ I \subseteq Nat
  OBVIOUS
<1>3. s \in Seq(LineType)
  <2>1. \A i \in I : file[i] \in LineType
    <3>1. \A i \in DOMAIN file : file[i] \in {BlankLine} \cup LineType
      BY LinesAssumption, ElementType
    <3>. QED
      BY <3>1, LineOrBlank
  <2>. HIDE DEF I
  <2>. QED
    BY <1>2, <2>1, AtElements
<1>4. PICK h : Lists(h, m, I) /\ \A k \in 1..m : s[k] = file[h[k]]
  <2>. HIDE DEF I
  <2>. QED
    BY <1>2, AtFacts
<1>5. Len(s) = m /\ m \in Nat
  <2>. HIDE DEF I
  <2>. QED
    BY <1>2, AtFacts
<1>. HIDE DEF s, m
<1>6. /\ lines \in Seq(LineType) /\ d \in 0..m /\ Len(lines) = m - d
      /\ \A k \in 1..(m - d) : lines[k] = s[d + k]
  BY <1>3, <1>5, LastNFacts
<1>7. d = IF m > n THEN m - n ELSE 0
  BY <1>5 DEF Dropped
<1>. HIDE DEF d, lines
<1>. DEFINE g == [k \in 1..(m - d) |-> h[d + k]]
<1>8. \A p \in 1..m : h[p] \in I /\ h[p] \in Nat /\ p \in Nat
  <2>1. \A p \in 1..m : h[p] \in I
    BY <1>4 DEF Lists
  <2>2. \A p \in 1..m : p \in Nat
    BY <1>5
  <2>. HIDE DEF I
  <2>. QED
    BY <1>2, <2>1, <2>2
<1>9. ASSUME NEW p \in 1..m
      PROVE  Cardinality(after(h[p])) = m - p
  <2>1. p \in 0..m
    OBVIOUS
  <2>. DEFINE rest == [k \in 1..(m - p) |-> h[p + k]]
              J == {h[k] : k \in (p + 1)..m}
  <2>2. Lists(rest, m - p, J)
    <3>1. rest \in [1..(m - p) -> Nat] /\ \A k \in 1..(m - p) : rest[k] = h[p + k]
      <4>1. \A k \in 1..(m - p) : p + k \in 1..m
        BY <1>5
      <4>. QED
        BY <1>8, <4>1
    <3>2. (\A k \in (p + 1)..m : h[k] \in J) /\ \A i \in J : \E k \in (p + 1)..m : h[k] = i
      OBVIOUS
    <3>. HIDE DEF I, rest, J
    <3>3. SuffixOf(rest, J, h, m, p)
      BY <2>1, <3>1, <3>2 DEF SuffixOf
    <3>. QED
      BY <1>2, <1>4, <3>3, ListSuffix
  <2>3. after(h[p]) = {h[k] : k \in (p + 1)..m}
    <3>1. ASSUME NEW j \in after(h[p])
          PROVE  j \in {h[k] : k \in (p + 1)..m}
      <4>1. j \in I /\ j > h[p]
        OBVIOUS
      <4>2. PICK k \in 1..m : h[k] = j
        <5>. HIDE DEF I
        <5>. QED
          BY <1>4, <4>1 DEF Lists
      <4>3. p < k
        <5>1. h[p] < h[k]
          BY <1>8, <4>1, <4>2
        <5>. HIDE DEF I
        <5>. QED
          BY <1>2, <1>4, <5>1, ListFacts
      <4>4. k \in (p + 1)..m
        BY <4>3
      <4>. QED
        BY <4>2, <4>4
    <3>2. ASSUME NEW k \in (p + 1)..m
          PROVE  h[k] \in after(h[p])
      <4>1. k \in 1..m /\ p < k
        OBVIOUS
      <4>2. h[p] < h[k]
        BY <1>4, <4>1 DEF Lists
      <4>3. h[k] \in I /\ h[k] \in Nat /\ h[p] \in Nat
        BY <1>8, <4>1
      <4>. QED
        BY <4>2, <4>3
    <3>. HIDE DEF after
    <3>. QED
      BY <3>1, <3>2
  <2>4. {h[k] : k \in (p + 1)..m} \subseteq Nat
    BY <1>8
  <2>. HIDE DEF after, rest
  <2>. QED
    BY <2>2, <2>3, <2>4, ListFacts
<1>10. N = {h[k] : k \in (d + 1)..m}
  <2>1. \A p \in 1..m : (m - p < n) <=> p \in (d + 1)..m
    BY <1>5, <1>7
  <2>2. N = {i \in I : Cardinality(after(i)) < n}
    BY DEF NewestOf
  <2>3. ASSUME NEW i \in N
        PROVE  i \in {h[k] : k \in (d + 1)..m}
    <3>1. i \in I /\ Cardinality(after(i)) < n
      BY <2>2
    <3>. HIDE DEF after, I, N
    <3>2. PICK p \in 1..m : h[p] = i
      BY <1>4, <3>1 DEF Lists
    <3>3. m - p < n
      BY <1>9, <3>1, <3>2
    <3>. QED
      BY <2>1, <3>2, <3>3
  <2>4. ASSUME NEW k \in (d + 1)..m
        PROVE  h[k] \in N
    <3>1. k \in 1..m
      BY <1>5, <1>6
    <3>. HIDE DEF after, I, N
    <3>2. Cardinality(after(h[k])) = m - k /\ m - k < n /\ h[k] \in I
      BY <1>8, <1>9, <2>1, <3>1
    <3>. QED
      BY <2>2, <3>2
  <2>. HIDE DEF N
  <2>. QED
    BY <2>3, <2>4
<1>11. Lists(g, m - d, N)
  <2>1. g \in [1..(m - d) -> Nat] /\ \A k \in 1..(m - d) : g[k] = h[d + k]
    <3>1. \A k \in 1..(m - d) : d + k \in 1..m
      BY <1>5, <1>6
    <3>. QED
      BY <1>8, <3>1
  <2>. HIDE DEF I, N, g
  <2>2. (\A k \in (d + 1)..m : h[k] \in N) /\ \A i \in N : \E k \in (d + 1)..m : h[k] = i
    BY <1>10
  <2>3. SuffixOf(g, N, h, m, d)
    BY <1>6, <2>1, <2>2 DEF SuffixOf
  <2>. QED
    BY <1>2, <1>4, <2>3, ListSuffix
<1>12. ASSUME NEW k \in 1..(m - d)
       PROVE  lines[k] = file[g[k]]
  <2>1. d + k \in 1..m /\ g[k] = h[d + k]
    BY <1>5, <1>6
  <2>2. lines[k] = s[d + k] /\ s[d + k] = file[h[d + k]]
    BY <1>4, <1>6, <2>1
  <2>. HIDE DEF g
  <2>. QED
    BY <2>1, <2>2
<1>. HIDE DEF g, N, I
<1>13. Shows(lines, file, g, N)
  BY <1>6, <1>11, <1>12 DEF Shows
<1>. QED
  BY <1>1, <1>13 DEF N

\* The numbers that a list g gives at the places J.
GivenAt(g, J) == {g[j] : j \in J}

\* A selection of the lines shown shows their places.
LEMMA SelectionShows ==
  ASSUME NEW file, NEW N, N \subseteq Nat, NEW s, NEW g, Shows(s, file, g, N),
         NEW J, J \subseteq DOMAIN s
  PROVE  \E f : Shows(At(s, J), file, f, GivenAt(g, J))
<1>. DEFINE m == Cardinality(J)
<1>1. s \in Seq(LineType) /\ Lists(g, Len(s), N) /\ \A k \in 1..Len(s) : s[k] = file[g[k]]
  BY DEF Shows
<1>2. PICK h : Lists(h, m, J) /\ \A k \in 1..m : At(s, J)[k] = s[h[k]]
  BY <1>1, AtFacts
<1>3. At(s, J) \in Seq(LineType) /\ Len(At(s, J)) = m
  BY <1>1, AtFacts
<1>4. J \subseteq 1..Len(s)
  BY <1>1
<1>. HIDE DEF m
<1>. DEFINE f == [k \in 1..m |-> g[h[k]]]
            T == {g[j] : j \in J}
<1>5. Lists(f, m, T)
  <2>1. f \in [1..m -> Nat] /\ \A k \in 1..m : f[k] = g[h[k]]
    <3>1. \A k \in 1..m : h[k] \in 1..Len(s)
      BY <1>2, <1>4 DEF Lists
    <3>2. \A k \in 1..Len(s) : g[k] \in Nat
      BY <1>1 DEF Lists
    <3>. QED
      BY <3>1, <3>2
  <2>2. (\A j \in J : g[j] \in T) /\ \A i \in T : \E j \in J : g[j] = i
    OBVIOUS
  <2>. HIDE DEF f, T
  <2>3. ComposedOf(f, T, g, h, m, J)
    BY <2>1, <2>2 DEF ComposedOf
  <2>. QED
    BY <1>1, <1>2, <1>4, <2>3, ListCompose
<1>6. \A k \in 1..m : At(s, J)[k] = file[f[k]]
  <2>1. \A k \in 1..m : h[k] \in 1..Len(s)
    BY <1>2, <1>4 DEF Lists
  <2>2. \A k \in 1..m : s[h[k]] = file[g[h[k]]]
    BY <1>1, <2>1
  <2>. QED
    BY <1>2, <2>2
<1>. HIDE DEF f
<1>7. Shows(At(s, J), file, f, GivenAt(g, J))
  BY <1>3, <1>5, <1>6 DEF Shows, GivenAt
<1>. QED
  BY <1>7

-----------------------------------------------------------------------------
(* The order of a list's entries.                                          *)

\* No key comes before itself.
LEMMA KeyIrreflexive ==
  ASSUME NEW a \in Key
  PROVE  ~KeyLess(a, a)
<1>1. Len(a) \in Nat /\ \A i \in DOMAIN a : a[i] \in Nat
  BY ElementType DEF Key
<1>. QED
  BY <1>1 DEF KeyLess

\* The order of keys is transitive.
LEMMA KeyTransitive ==
  ASSUME NEW a \in Key, NEW b \in Key, NEW c \in Key, KeyLess(a, b), KeyLess(b, c)
  PROVE  KeyLess(a, c)
<1>1. /\ Len(a) \in Nat /\ Len(b) \in Nat /\ Len(c) \in Nat
      /\ DOMAIN a = 1..Len(a) /\ DOMAIN b = 1..Len(b) /\ DOMAIN c = 1..Len(c)
      /\ (\A i \in 1..Len(a) : a[i] \in Nat) /\ (\A i \in 1..Len(b) : b[i] \in Nat)
      /\ \A i \in 1..Len(c) : c[i] \in Nat
  BY ElementType DEF Key
<1>. DEFINE Diff(x, y, i) == /\ i \in DOMAIN x \cap DOMAIN y
                             /\ x[i] < y[i] /\ \A j \in 1..(i - 1) : x[j] = y[j]
            Prefix(x, y) == Len(x) < Len(y) /\ \A i \in DOMAIN x : x[i] = y[i]
<1>2. \A x, y : KeyLess(x, y) <=> (\E i : Diff(x, y, i)) \/ Prefix(x, y)
  BY DEF KeyLess
<1>3. ASSUME NEW i, NEW j, Diff(a, b, i), Diff(b, c, j)
      PROVE  KeyLess(a, c)
  <2>1. i \in 1..Len(a) /\ i \in 1..Len(b) /\ j \in 1..Len(b) /\ j \in 1..Len(c)
    BY <1>1, <1>3
  <2>2. CASE i <= j
    <3>1. i \in 1..Len(c)
      BY <1>1, <2>1, <2>2
    <3>2. a[i] < c[i]
      <4>1. a[i] \in Nat /\ b[i] \in Nat /\ c[i] \in Nat /\ a[i] < b[i]
        BY <1>1, <1>3, <2>1, <3>1
      <4>2. CASE i = j
        BY <1>3, <4>1, <4>2
      <4>3. CASE i < j
        <5>1. i \in 1..(j - 1)
          BY <1>1, <2>1, <4>3
        <5>2. b[i] = c[i]
          BY <1>3, <5>1
        <5>. QED
          BY <4>1, <5>2
      <4>4. i = j \/ i < j
        BY <1>1, <2>1, <2>2
      <4>. QED
        BY <4>2, <4>3, <4>4
    <3>3. \A k \in 1..(i - 1) : a[k] = c[k]
      BY <1>1, <1>3, <2>1, <2>2
    <3>4. Diff(a, c, i)
      BY <1>1, <2>1, <3>1, <3>2, <3>3
    <3>. HIDE DEF Diff, Prefix
    <3>. QED
      BY <1>2, <3>4
  <2>3. CASE ~(i <= j)
    <3>1. j \in 1..Len(a) /\ j \in 1..(i - 1)
      BY <1>1, <2>1, <2>3
    <3>2. a[j] < c[j]
      BY <1>3, <3>1
    <3>3. \A k \in 1..(j - 1) : a[k] = c[k]
      BY <1>1, <1>3, <2>1, <2>3
    <3>4. Diff(a, c, j)
      BY <1>1, <2>1, <3>1, <3>2, <3>3
    <3>. HIDE DEF Diff, Prefix
    <3>. QED
      BY <1>2, <3>4
  <2>. QED
    BY <2>2, <2>3
<1>4. ASSUME NEW i, Diff(a, b, i), Prefix(b, c)
      PROVE  KeyLess(a, c)
  <2>1. i \in 1..Len(a) /\ i \in 1..Len(b) /\ i \in 1..Len(c)
    BY <1>1, <1>4
  <2>2. Diff(a, c, i)
    <3>1. a[i] < c[i]
      BY <1>1, <1>4, <2>1
    <3>2. \A k \in 1..(i - 1) : a[k] = c[k]
      BY <1>1, <1>4, <2>1
    <3>. QED
      BY <1>1, <2>1, <3>1, <3>2
  <2>. HIDE DEF Diff, Prefix
  <2>. QED
    BY <1>2, <2>2
<1>5. ASSUME NEW j, Prefix(a, b), Diff(b, c, j)
      PROVE  KeyLess(a, c)
  <2>1. j \in 1..Len(b) /\ j \in 1..Len(c)
    BY <1>1, <1>5
  <2>2. CASE j <= Len(a)
    <3>1. j \in 1..Len(a)
      BY <1>1, <2>1, <2>2
    <3>2. a[j] < c[j]
      BY <1>1, <1>5, <3>1
    <3>3. ASSUME NEW k \in 1..(j - 1)
          PROVE  a[k] = c[k]
      <4>1. k \in 1..Len(a)
        BY <1>1, <2>1, <2>2
      <4>2. a[k] = b[k]
        BY <1>1, <1>5, <4>1
      <4>3. b[k] = c[k]
        BY <1>5
      <4>. QED
        BY <4>2, <4>3
    <3>4. Diff(a, c, j)
      BY <1>1, <2>1, <3>1, <3>2, <3>3
    <3>. HIDE DEF Diff, Prefix
    <3>. QED
      BY <1>2, <3>4
  <2>3. CASE ~(j <= Len(a))
    <3>1. Len(a) < Len(c)
      BY <1>1, <2>1, <2>3
    <3>2. \A k \in 1..Len(a) : k \in 1..(j - 1)
      BY <1>1, <2>1, <2>3
    <3>3. Prefix(a, c)
      BY <1>1, <1>5, <3>1, <3>2
    <3>. HIDE DEF Diff, Prefix
    <3>. QED
      BY <1>2, <3>3
  <2>. QED
    BY <2>2, <2>3
<1>6. ASSUME Prefix(a, b), Prefix(b, c)
      PROVE  KeyLess(a, c)
  <2>1. Len(a) < Len(c) /\ \A k \in 1..Len(a) : k \in 1..Len(b)
    BY <1>1, <1>6
  <2>2. Prefix(a, c)
    BY <1>1, <1>6, <2>1
  <2>. HIDE DEF Diff, Prefix
  <2>. QED
    BY <1>2, <2>2
<1>. HIDE DEF Diff, Prefix
<1>. QED
  BY <1>2, <1>3, <1>4, <1>5, <1>6

\* Of two keys one comes before the other.
LEMMA KeyTotal ==
  ASSUME NEW a \in Key, NEW b \in Key, a # b
  PROVE  KeyLess(a, b) \/ KeyLess(b, a)
<1>1. /\ Len(a) \in Nat /\ Len(b) \in Nat
      /\ DOMAIN a = 1..Len(a) /\ DOMAIN b = 1..Len(b)
      /\ (\A i \in 1..Len(a) : a[i] \in Nat) /\ (\A i \in 1..Len(b) : b[i] \in Nat)
  BY ElementType DEF Key
<1>. DEFINE T == {i \in Nat : i \in 1..Len(a) /\ i \in 1..Len(b) /\ a[i] # b[i]}
<1>2. CASE T # {}
  <2>1. PICK i \in T : \A j \in T : i <= j
    <3>1. T \subseteq Nat
      OBVIOUS
    <3>. HIDE DEF T
    <3>. QED
      BY <1>2, <3>1, LeastNumber
  <2>2. i \in 1..Len(a) /\ i \in 1..Len(b) /\ a[i] # b[i]
    OBVIOUS
  <2>3. ASSUME NEW j \in 1..(i - 1)
        PROVE  a[j] = b[j]
    <3>1. j \in Nat /\ j \in 1..Len(a) /\ j \in 1..Len(b) /\ ~(i <= j)
      BY <1>1, <2>2
    <3>2. j \notin T
      <4>. HIDE DEF T
      <4>. QED
        BY <2>1, <3>1
    <3>. QED
      BY <3>1, <3>2
  <2>4. a[i] < b[i] \/ b[i] < a[i]
    BY <1>1, <2>2
  <2>. QED
    BY <1>1, <2>2, <2>3, <2>4 DEF KeyLess
<1>3. CASE T = {}
  <2>1. ASSUME NEW i \in Nat, i \in 1..Len(a), i \in 1..Len(b)
        PROVE  a[i] = b[i]
    BY <1>3, <2>1
  <2>. HIDE DEF T
  <2>2. CASE Len(a) < Len(b)
    <3>1. \A i \in 1..Len(a) : i \in Nat /\ i \in 1..Len(b)
      BY <1>1, <2>2
    <3>. QED
      BY <1>1, <2>1, <2>2, <3>1 DEF KeyLess
  <2>3. CASE Len(b) < Len(a)
    <3>1. \A i \in 1..Len(b) : i \in Nat /\ i \in 1..Len(a)
      BY <1>1, <2>3
    <3>. QED
      BY <1>1, <2>1, <2>3, <3>1 DEF KeyLess
  <2>4. CASE Len(a) = Len(b)
    <3>1. \A i \in 1..Len(a) : a[i] = b[i]
      BY <1>1, <2>1, <2>4
    <3>2. a \in Seq(Nat) /\ b \in Seq(Nat)
      BY DEF Key
    <3>3. a = [i \in 1..Len(a) |-> a[i]] /\ b = [i \in 1..Len(b) |-> b[i]]
      BY <3>2
    <3>4. a = b
      BY <2>4, <3>1, <3>3
    <3>. QED
      BY <3>4
  <2>5. Len(a) \in Nat /\ Len(b) \in Nat
    BY <1>1
  <2>6. Len(a) < Len(b) \/ Len(b) < Len(a) \/ Len(a) = Len(b)
    BY <2>5
  <2>. QED
    BY <2>2, <2>3, <2>4, <2>6
<1>. QED
  BY <1>2, <1>3

\* The entries of a tally stand in one order.
LEMMA RankOrder ==
  ASSUME NEW S, \A p \in S : p.key \in Key /\ p.count \in Nat,
         \A p, q \in S : p.key = q.key => p = q
  PROVE  StrictOrder(S, {e \in S \X S : RanksBefore(e[1], e[2])})
<1>. DEFINE R == {e \in S \X S : RanksBefore(e[1], e[2])}
<1>1. \A p, q \in S : <<p, q>> \in R <=> RanksBefore(p, q)
  OBVIOUS
<1>2. \A p, q \in S : RanksBefore(p, q) <=>
        p.count > q.count \/ (p.count = q.count /\ KeyLess(p.key, q.key))
  BY DEF RanksBefore
<1>3. \A p \in S : ~RanksBefore(p, p)
  BY <1>2, KeyIrreflexive
<1>4. ASSUME NEW p \in S, NEW q \in S, NEW r \in S, RanksBefore(p, q), RanksBefore(q, r)
      PROVE  RanksBefore(p, r)
  <2>1. KeyLess(p.key, q.key) /\ KeyLess(q.key, r.key) => KeyLess(p.key, r.key)
    BY KeyTransitive
  <2>2. p.count \in Nat /\ q.count \in Nat /\ r.count \in Nat
    OBVIOUS
  <2>. QED
    BY <1>2, <1>4, <2>1, <2>2
<1>5. ASSUME NEW p \in S, NEW q \in S, p # q
      PROVE  RanksBefore(p, q) \/ RanksBefore(q, p)
  <2>1. p.key # q.key
    BY <1>5
  <2>2. KeyLess(p.key, q.key) \/ KeyLess(q.key, p.key)
    BY <2>1, KeyTotal
  <2>3. p.count \in Nat /\ q.count \in Nat
    OBVIOUS
  <2>. QED
    BY <1>2, <2>2, <2>3
<1>. HIDE DEF R
<1>6. StrictOrder(S, R)
  BY <1>1, <1>3, <1>4, <1>5 DEF StrictOrder
<1>. QED
  BY <1>6 DEF R

-----------------------------------------------------------------------------
(* The tools.                                                              *)

\* The lesser of two numbers.
LEMMA MinOfTwo ==
  ASSUME NEW a \in Int, NEW b \in Int
  PROVE  Min({a, b}) = IF a <= b THEN a ELSE b
<1>. DEFINE m == IF a <= b THEN a ELSE b
<1>1. m \in {a, b} /\ \A y \in {a, b} : m <= y
  OBVIOUS
<1>2. \A x \in {a, b} : (\A y \in {a, b} : x <= y) => x = m
  OBVIOUS
<1>. HIDE DEF m
<1>3. Min({a, b}) = m
  BY <1>1, <1>2 DEF Min
<1>. QED
  BY <1>3 DEF m

\* A call reads at least one line.
LEMMA LinesWantedType ==
  ASSUME NEW n \in Windows
  PROVE  LinesWanted(n) \in Nat \ {0}
<1>. DEFINE k == IF n > 0 THEN n ELSE DefaultLines
<1>1. n \in Nat /\ DefaultLines \in Nat \ {0} /\ CapLines \in Nat \ {0}
  BY WindowsAssumption
<1>2. k \in Nat \ {0}
  BY <1>1
<1>3. LinesWanted(n) = Min({CapLines, k})
  BY DEF LinesWanted
<1>. HIDE DEF k
<1>. QED
  BY <1>1, <1>2, <1>3, MinOfTwo

\* The log is a sequence of lines.
LogInv == audit \in BOOLEAN /\ (~audit => log \in Seq(Lines))

\* What FitIsLeastSquares says of a series.
Fitted(y) ==
    /\ SumOver(y, LAMBDA i : Residual(y, i)) = 0
    /\ SumOver(y, LAMBDA i : (i - 1) * Residual(y, i)) = 0
    /\ 0 <= RSquared(y).part /\ RSquared(y).part <= RSquared(y).of

\* What AdviceFollowsTrend says of a report.
Advised(r) ==
    LET representable == r.eta.num <= DurationMax * r.eta.den
    IN  /\ r.advice = "page now" <=> Reaches(r.series, r.threshold, 0)
        /\ r.says = "already" /\ SlopeNum(r.series) > 0 => Reaches(r.series, r.threshold, 0)
        /\ representable /\ r.says = "crosses" => Reaches(r.series, r.threshold, Horizon)
        /\ representable /\ r.says = "beyond" => ~Reaches(r.series, r.threshold, Horizon)
        /\ r.advice \in {"watch", "prepare"} =>
              SlopeNum(r.series) > 0 /\ ~Reaches(r.series, r.threshold, 0)

\* What ops_forecast answers is a fitted series and what follows from it.
LEMMA ForecastAnswer ==
  ASSUME NEW file \in Seq(Lines), NEW n \in Nat \ {0}, NEW metric \in Metrics, NEW t \in Nat,
         NEW r \in ForecastMetric(metric, BuildBuckets(file, n), t)
  PROVE  r.kind = "error" \/ (r.kind = "forecast" /\ Fitted(r.series) /\ Advised(r))
<1>. DEFINE b == BuildBuckets(file, n)  y == Series(metric, b)
            made(hit) == [kind |-> "forecast", metric |-> metric, series |-> y, threshold |-> t,
                          level |-> LevelOf(y), confidence |-> Confidence(y),
                          eta |-> Eta(y, t), hit |-> hit,
                          says |-> Wording(Eta(y, t), hit),
                          advice |-> Recommend(metric, y, Eta(y, t), hit)]
<1>1. b \in Seq(BucketType)
  BY BucketsType
<1>2. y \in Seq(Int) /\ Len(y) = Len(b)
  BY <1>1, SeriesType
<1>3. r \in IF Len(b) < 3 THEN {[kind |-> "error"]} ELSE {made(hit) : hit \in HitIn24h(y, t)}
  BY DEF ForecastMetric
<1>. HIDE DEF b, y
<1>4. CASE Len(b) < 3
  BY <1>3, <1>4
<1>5. CASE ~(Len(b) < 3)
  <2>1. PICK hit \in HitIn24h(y, t) : r = made(hit)
    BY <1>3, <1>5
  <2>2. Len(y) >= 2
    BY <1>1, <1>2, <1>5
  <2>3. Fitted(y)
    BY <1>2, FitOfSeries DEF Fitted
  <2>. DEFINE eta == Eta(y, t)  says == Wording(eta, hit)  advice == Recommend(metric, y, eta, hit)
  <2>4. LET representable == eta.num <= DurationMax * eta.den
        IN  /\ advice = "page now" <=> Reaches(y, t, 0)
            /\ says = "already" /\ SlopeNum(y) > 0 => Reaches(y, t, 0)
            /\ representable /\ says = "crosses" => Reaches(y, t, Horizon)
            /\ representable /\ says = "beyond" => ~Reaches(y, t, Horizon)
            /\ advice \in {"watch", "prepare"} => SlopeNum(y) > 0 /\ ~Reaches(y, t, 0)
    BY <1>2, <2>2, AdviceOfSeries
  <2>5. /\ r.kind = "forecast" /\ r.series = y /\ r.threshold = t /\ r.eta = eta
        /\ r.says = says /\ r.advice = advice
    BY <2>1
  <2>. HIDE DEF eta, says, advice
  <2>6. Advised(r)
    BY <2>4, <2>5, Zenon DEF Advised
  <2>. QED
    BY <2>3, <2>5, <2>6, Zenon
<1>. QED
  BY <1>4, <1>5

\* What the properties say of the last answer.
LEMMA ForecastProperties ==
  /\ FitIsLeastSquares <=> (Reports({"forecast"}) => Fitted(Report.series))
  /\ AdviceFollowsTrend <=> (Reports({"forecast"}) => Advised(Report))
BY DEF FitIsLeastSquares, AdviceFollowsTrend, Fitted, Advised

\* The same after a step.
LEMMA ForecastPropertiesNext ==
  /\ FitIsLeastSquares' <=> (Reports({"forecast"})' => Fitted(Report'.series))
  /\ AdviceFollowsTrend' <=> (Reports({"forecast"})' => Advised(Report'))
<1>1. (/\ FitIsLeastSquares <=> (Reports({"forecast"}) => Fitted(Report.series))
       /\ AdviceFollowsTrend <=> (Reports({"forecast"}) => Advised(Report)))'
  BY ForecastProperties, PTL
<1>. QED
  BY <1>1

\* The invariant of the forecasts.
ForecastInv == LogInv /\ FitIsLeastSquares /\ AdviceFollowsTrend

\* The other reports are no forecasts.
LEMMA OtherKinds ==
  ASSUME NEW n, AnalyzeLog(n) \/ Audit(n)
  PROVE  /\ answer' # <<>>
         /\ answer'[1].kind \in {"perf", "exceptions", "access", "behaviour", "analyze", "audit"}
         /\ UNCHANGED <<audit, log>>
<1>. DEFINE k == LinesWanted(n)
<1>1. CASE APIPerf(k)
  <2>1. PICK r \in AnalyzeAPIPerf(log, k) : answer' = <<r, k>> /\ UNCHANGED <<audit, log>>
    BY <1>1 DEF APIPerf, Answers
  <2>2. r.kind = "perf"
    <3>. DEFINE lines == ReadLastN(log, k)
                lats == Latencies([i \in DOMAIN lines |-> parseLatMS(lines[i])])
                requests == Count(lines, LAMBDA l : l.named # 0)
                errors == Count(lines, LAMBDA l : l.named >= 500)
                statusTop == Top(Tally(Matches(lines, Code)), 5)
                pathTop == Top(Tally(Matches(lines, RouteOf)), 8)
                slow == Count(lats, LAMBDA v : v > Second)
                all == IF lats = <<>> THEN {<<>>} ELSE Slowest(lines)
                made(x) == [kind |-> "perf", linesRead |-> Len(lines), requests |-> requests,
                            errors |-> errors, statusTop |-> statusTop, pathTop |-> pathTop,
                            p50 |-> percentile(lats, 50), p95 |-> percentile(lats, 95),
                            slow |-> slow, slowest |-> x]
    <3>1. AnalyzeAPIPerf(log, k) = {made(x) : x \in all}
      BY DEF AnalyzeAPIPerf
    <3>. HIDE DEF lines, lats, requests, errors, statusTop, pathTop, slow, all
    <3>. QED
      BY <2>1, <3>1
  <2>. QED
    BY <2>1, <2>2
<1>2. CASE Exceptions(k)
  BY <1>2 DEF Exceptions, Answers, AnalyzeExceptions
<1>3. CASE Access(k)
  BY <1>3 DEF Access, Answers, AnalyzeAccess
<1>4. CASE Behaviour(k)
  <2>1. answer' = <<AnalyzeBehaviour(log, k), k>> /\ UNCHANGED <<audit, log>>
    BY <1>4 DEF Behaviour, Answers
  <2>2. AnalyzeBehaviour(log, k).kind = "behaviour"
    BY DEF AnalyzeBehaviour
  <2>. QED
    BY <2>1, <2>2
<1>5. CASE AnalyzeTail(k)
  <2>1. PICK r \in Analyze(log, k) : answer' = <<r, k>> /\ UNCHANGED <<audit, log>>
    BY <1>5 DEF AnalyzeTail, Answers
  <2>2. r.kind = "analyze"
    <3>. DEFINE all == TailOf(log, k)
                lines == Selected(all, LAMBDA l : ~l.blank)
                errs == Selected(lines, LAMBDA l : l.errorish)
                A == TopN(Tally(Matches(lines, normalize)), 5)
                B == TopN(Tally(Matches(errs, normalize)), 5)
                made(t, e) == [kind |-> "analyze", linesRead |-> Len(all),
                               errorLines |-> Len(errs), top |-> t, topErrors |-> e]
    <3>1. Analyze(log, k) = {made(t, e) : t \in A, e \in B}
      BY DEF Analyze
    <3>. HIDE DEF all, lines, errs, A, B
    <3>. QED
      BY <2>1, <3>1
  <2>. QED
    BY <2>1, <2>2
<1>6. CASE Audit(n)
  BY <1>6 DEF Audit, Answers, AnalyzeAuditRows
<1>. QED
  BY <1>1, <1>2, <1>3, <1>4, <1>5, <1>6 DEF AnalyzeLog

\* Every step keeps the invariant.
LEMMA ForecastStep ==
  ForecastInv /\ [ToolsNext]_toolVars => ForecastInv'
<1>. SUFFICES ASSUME ForecastInv, [ToolsNext]_toolVars
              PROVE  ForecastInv'
  OBVIOUS
<1>1. ASSUME NEW x \in IF audit THEN AuditRows ELSE Lines, Write(x)
      PROVE  ForecastInv'
  <2>1. answer' = <<>>
    BY <1>1 DEF Write
  <2>2. LogInv'
    BY <1>1 DEF Write, ForecastInv, LogInv
  <2>. QED
    BY <2>1, <2>2 DEF ForecastInv, FitIsLeastSquares, AdviceFollowsTrend, Reports
<1>2. ASSUME NEW n \in Windows, AnalyzeLog(n) \/ Audit(n)
      PROVE  ForecastInv'
  <2>1. /\ answer'[1].kind \in {"perf", "exceptions", "access", "behaviour", "analyze", "audit"}
        /\ UNCHANGED <<audit, log>>
    BY <1>2, OtherKinds
  <2>2. LogInv'
    BY <2>1 DEF ForecastInv, LogInv
  <2>3. ~Reports({"forecast"})'
    BY <2>1 DEF Reports, Report
  <2>. QED
    BY <2>2, <2>3 DEF ForecastInv, FitIsLeastSquares, AdviceFollowsTrend
<1>3. ASSUME NEW m \in Metrics, NEW t \in Thresholds, NEW n \in Windows, OpsForecast(m, t, n)
      PROVE  ForecastInv'
  <2>. DEFINE k == LinesWanted(n)
  <2>1. PICK r \in ForecastMetric(m, BuildBuckets(log, k), t) :
           answer' = <<r, k>> /\ UNCHANGED <<audit, log>> /\ ~audit
    BY <1>3 DEF OpsForecast, Answers
  <2>2. log \in Seq(Lines) /\ k \in Nat \ {0} /\ t \in Nat
    BY <2>1, LinesWantedType, ForecastAssumption DEF ForecastInv, LogInv
  <2>3. r.kind = "error" \/ (r.kind = "forecast" /\ Fitted(r.series) /\ Advised(r))
    <3>. HIDE DEF k
    <3>. QED
      BY <2>1, <2>2, ForecastAnswer
  <2>4. LogInv'
    BY <2>1 DEF ForecastInv, LogInv
  <2>5. Report' = r /\ (Reports({"forecast"})' => r.kind = "forecast")
    BY <2>1 DEF Reports, Report
  <2>6. /\ Reports({"forecast"})' => Fitted(Report'.series)
        /\ Reports({"forecast"})' => Advised(Report')
    BY <2>3, <2>5
  <2>. QED
    BY <2>4, <2>6, ForecastPropertiesNext DEF ForecastInv
<1>4. CASE UNCHANGED toolVars
  <2>1. audit' = audit /\ log' = log /\ answer' = answer
    BY <1>4 DEF toolVars
  <2>2. Report' = Report /\ (Reports({"forecast"})' <=> Reports({"forecast"})) /\ LogInv'
    BY <2>1 DEF Reports, Report, ForecastInv, LogInv
  <2>. QED
    BY <2>2, ForecastProperties, ForecastPropertiesNext DEF ForecastInv
<1>. QED
  BY <1>1, <1>2, <1>3, <1>4 DEF ToolsNext

\* The invariant holds from the start.
LEMMA ForecastInvariant == ToolsSpec => []ForecastInv
<1>1. ToolsInit => ForecastInv
  BY ForecastProperties DEF ToolsInit, ForecastInv, LogInv, Reports
<1>. QED
  BY <1>1, ForecastStep, PTL DEF ToolsSpec

\* leastSquares fits the line of least squares through the series that BuildBuckets
\* makes of any log: its residuals balance, and r-squared is a share of 1.
THEOREM ForecastsFit == ToolsSpec => []FitIsLeastSquares
<1>1. ForecastInv => FitIsLeastSquares
  BY DEF ForecastInv
<1>. QED
  BY <1>1, ForecastInvariant, PTL

\* The advice of ops_forecast (recommend and String) follows from the trend that
\* ForecastMetric has found, for every log, metric, threshold and horizon.
THEOREM AdviceIsSound == ToolsSpec => []AdviceFollowsTrend
<1>1. ForecastInv => AdviceFollowsTrend
  BY DEF ForecastInv
<1>. QED
  BY <1>1, ForecastInvariant, PTL

-----------------------------------------------------------------------------
(* The reports: tallies, their tops, and the lines they are about.         *)

\* The keys that phi finds at the places N, and how often it finds each.
KeysOf(phi, N) == {phi[i] : i \in N} \ {None}
Times(phi, N, key) == Cardinality({i \in N : phi[i] = key})

\* ks gives what phi finds at the places N, in their order.
Finds(ks, phi, g, L, N) ==
    /\ N \subseteq Nat /\ Lists(g, L, N)
    /\ ks \in Seq(Key) /\ Len(ks) = L
    /\ \A k \in 1..L : ks[k] = phi[g[k]]

\* A tally counts each key at the places where it is found.
LEMMA TallyFacts ==
  ASSUME NEW N, NEW phi, NEW g, NEW L, NEW ks, Finds(ks, phi, g, L, N)
  PROVE  LET c == Tally(At(ks, {k \in DOMAIN ks : ks[k] # None}))
         IN  /\ IsFiniteSet(KeysOf(phi, N)) /\ KeysOf(phi, N) \subseteq Key
             /\ c \in [KeysOf(phi, N) -> Nat]
             /\ \A key \in KeysOf(phi, N) : c[key] = Times(phi, N, key)
<1>. DEFINE J == {k \in DOMAIN ks : ks[k] # None}
            keys == At(ks, J)
            m == Cardinality(J)
            K == KeysOf(phi, N)
<1>1. /\ N \subseteq Nat /\ Lists(g, L, N) /\ L \in Nat
      /\ ks \in Seq(Key) /\ DOMAIN ks = 1..L
      /\ \A k \in 1..L : ks[k] = phi[g[k]] /\ ks[k] \in Key
  <2>1. /\ N \subseteq Nat /\ Lists(g, L, N) /\ ks \in Seq(Key) /\ Len(ks) = L
        /\ \A k \in 1..L : ks[k] = phi[g[k]]
    BY Zenon DEF Finds
  <2>2. L \in Nat /\ DOMAIN ks = 1..L
    BY <2>1
  <2>3. \A k \in 1..L : ks[k] \in Key
    BY <2>1, <2>2, ElementType
  <2>. QED
    BY <2>1, <2>2, <2>3
<1>2. PICK h : Lists(h, m, J) /\ \A k \in 1..m : keys[k] = ks[h[k]]
  <2>1. J \subseteq DOMAIN ks
    OBVIOUS
  <2>. HIDE DEF J
  <2>. QED
    BY <1>1, <2>1, AtFacts
<1>3. keys \in Seq(Key) /\ DOMAIN keys = 1..m /\ m \in Nat
  <2>1. J \subseteq DOMAIN ks
    OBVIOUS
  <2>. HIDE DEF J
  <2>2. At(ks, J) \in Seq(Key) /\ Len(At(ks, J)) = Cardinality(J) /\ Cardinality(J) \in Nat
    BY <1>1, <2>1, AtFacts
  <2>. QED
    BY <2>2
<1>4. /\ g \in [1..L -> N] /\ \A i \in N : \E k \in 1..L : g[k] = i
      /\ h \in [1..m -> J] /\ \A j \in J : \E k \in 1..m : h[k] = j
  BY <1>1, <1>2 DEF Lists
<1>5. J = {k \in 1..L : ks[k] # None}
  BY <1>1
<1>. HIDE DEF m, J
<1>6. ToSet(keys) = {keys[k] : k \in 1..m}
  BY <1>3 DEF ToSet
<1>. HIDE DEF keys
<1>7. ToSet(keys) = K
  <2>1. ASSUME NEW k \in 1..m
        PROVE  keys[k] \in K
    <3>1. h[k] \in 1..L /\ ks[h[k]] # None
      BY <1>4, <1>5
    <3>2. keys[k] = phi[g[h[k]]] /\ g[h[k]] \in N /\ keys[k] # None
      BY <1>1, <1>2, <1>4, <3>1
    <3>. QED
      BY <3>2 DEF KeysOf
  <2>2. ASSUME NEW i \in N, phi[i] # None
        PROVE  \E k \in 1..m : keys[k] = phi[i]
    <3>1. PICK j \in 1..L : g[j] = i
      BY <1>4
    <3>2. j \in J
      BY <1>1, <1>5, <2>2, <3>1
    <3>3. PICK k \in 1..m : h[k] = j
      BY <1>4, <3>2
    <3>. QED
      BY <1>1, <1>2, <3>1, <3>3
  <2>. QED
    BY <1>6, <2>1, <2>2 DEF KeysOf
<1>8. IsFiniteSet(K)
  <2>. DEFINE f == [k \in 1..m |-> keys[k]]
  <2>1. f \in Surjection(1..m, K)
    BY <1>6, <1>7 DEF Surjection
  <2>2. IsFiniteSet(1..m)
    BY <1>3, CountTo
  <2>. HIDE DEF f, K
  <2>. QED
    BY <2>1, <2>2, FS_Surjection
<1>9. K \subseteq Key
  <2>1. \A k \in 1..m : keys[k] \in Key
    BY <1>3, ElementType
  <2>. QED
    BY <1>6, <1>7, <2>1
<1>10. ASSUME NEW key \in K
       PROVE  /\ Cardinality({k \in 1..m : keys[k] = key}) = Times(phi, N, key)
              /\ Times(phi, N, key) \in Nat
  <2>. DEFINE A == {j \in J : ks[j] = key}
              B == {i \in N : phi[i] = key}
  <2>1. {k \in 1..m : keys[k] = key} = Hits(h, m, A)
    BY <1>2, <1>4 DEF Hits
  <2>2. A = Hits(g, L, B)
    BY <1>1, <1>4, <1>5 DEF KeysOf, Hits
  <2>3. A \subseteq J /\ B \subseteq N /\ J \subseteq Nat
    BY <1>5
  <2>4. Times(phi, N, key) = Cardinality(B)
    BY DEF Times
  <2>. HIDE DEF A, B
  <2>5. Cardinality(Hits(h, m, A)) = Cardinality(A)
    <3>1. ListedAmong(A, h, m, J)
      BY <1>2, <2>3 DEF ListedAmong
    <3>. QED
      BY <3>1, ListedCount
  <2>6. Cardinality(Hits(g, L, B)) = Cardinality(B) /\ Cardinality(B) \in Nat
    <3>1. ListedAmong(B, g, L, N)
      BY <1>1, <2>3 DEF ListedAmong
    <3>. QED
      BY <3>1, ListedCount
  <2>. QED
    BY <2>1, <2>2, <2>4, <2>5, <2>6
<1>11. Tally(keys) = [key \in K |-> Cardinality({k \in 1..m : keys[k] = key})]
  BY <1>3, <1>7 DEF Tally
<1>. HIDE DEF K
<1>12. Tally(keys) \in [K -> Nat] /\ \A key \in K : Tally(keys)[key] = Times(phi, N, key)
  BY <1>10, <1>11
<1>. QED
  BY <1>8, <1>9, <1>12 DEF K, keys, J

\* Top lists the keys that were counted most.
LEMMA TopFacts ==
  ASSUME NEW K, IsFiniteSet(K), K \subseteq Key, NEW c \in [K -> Nat], NEW n \in Nat
  PROVE  LET list == Top(c, n)
             listed == {list[i].key : i \in DOMAIN list}
         IN  /\ listed \subseteq K /\ Cardinality(listed) = Len(list)
             /\ Len(list) = Min({n, Cardinality(K)})
             /\ \A i \in DOMAIN list :
                 /\ list[i].count = c[list[i].key]
                 /\ \A key \in K \ listed : c[key] <= list[i].count
                 /\ i > 1 => list[i].count <= list[i - 1].count
<1>. DEFINE pair(x) == [key |-> x, count |-> c[x]]
            P == {pair(x) : x \in K}
            R == {e \in P \X P : RanksBefore(e[1], e[2])}
            f == Ranked(P, RanksBefore)
            m == Cardinality(K)
            w == Min({n, m})
            list == Top(c, n)
            listed == {list[i].key : i \in DOMAIN list}
<1>1. Pairs(c) = P
  BY DEF Pairs
<1>2. /\ \A p \in P : p.key \in K /\ p.key \in Key /\ p.count = c[p.key] /\ p.count \in Nat
      /\ \A p, q \in P : p.key = q.key => p = q
  OBVIOUS
<1>3. \A x \in K : pair(x) \in P /\ pair(x).key = x /\ pair(x).count = c[x]
  OBVIOUS
<1>4. m \in Nat
  BY FS_CardinalityType
<1>5. IsFiniteSet(P) /\ Cardinality(P) = m
  <2>. DEFINE b == [x \in K |-> pair(x)]
  <2>1. b \in [K -> P] /\ (\A x, y \in K : b[x] = b[y] => x = y) /\ \A p \in P : \E x \in K : b[x] = p
    BY <1>2
  <2>. HIDE DEF b, P
  <2>2. b \in Bijection(K, P)
    BY <2>1 DEF Bijection, Injection, Surjection, IsInjective
  <2>3. ExistsBijection(K, P)
    BY <2>2 DEF ExistsBijection
  <2>. QED
    BY <2>3, FS_Bijection
<1>6. StrictOrder(P, R)
  <2>. HIDE DEF P
  <2>. QED
    BY <1>2, RankOrder
<1>. HIDE DEF P, pair
<1>7. \A x, y \in P : <<x, y>> \in R <=> RanksBefore(x, y)
  OBVIOUS
<1>8. \A x \in P : {y \in P : RanksBefore(y, x)} = Below(P, R, x)
  BY <1>7 DEF Below
<1>. HIDE DEF R
<1>9. InOrder(f, P, R)
  <2>. DEFINE place(k) == CHOOSE x \in P : Cardinality({y \in P : RanksBefore(y, x)}) = k - 1
  <2>1. f = [k \in 1..m |-> place(k)]
    BY <1>5 DEF Ranked
  <2>2. ASSUME NEW k \in 1..m
        PROVE  place(k) \in P /\ Cardinality(Below(P, R, place(k))) = k - 1
    <3>1. PICK x \in P : Cardinality(Below(P, R, x)) = k - 1
      BY <1>5, <1>6, RankFacts
    <3>2. Cardinality({y \in P : RanksBefore(y, x)}) = k - 1
      BY <1>8, <3>1
    <3>3. place(k) \in P /\ Cardinality({y \in P : RanksBefore(y, place(k))}) = k - 1
      BY <3>2
    <3>. HIDE DEF place
    <3>. QED
      BY <1>8, <3>3
  <2>. HIDE DEF place, f
  <2>. QED
    BY <1>5, <2>1, <2>2 DEF InOrder
<1>. HIDE DEF f
<1>10. /\ f \in [1..m -> P] /\ f \in Seq(P) /\ Len(f) = m
       /\ \A j, k \in 1..m : j < k <=> <<f[j], f[k]>> \in R
       /\ \A j, k \in 1..m : f[j] = f[k] => j = k
       /\ \A x \in P : \E k \in 1..m : f[k] = x
  <2>1. IsFiniteSet(P) /\ StrictOrder(P, R) /\ InOrder(f, P, R)
    BY <1>5, <1>6, <1>9
  <2>2. /\ f \in [1..Cardinality(P) -> P] /\ f \in Seq(P) /\ Len(f) = Cardinality(P)
        /\ \A j, k \in 1..Cardinality(P) :
             /\ j < k <=> <<f[j], f[k]>> \in R
             /\ f[j] = f[k] => j = k
        /\ \A x \in P : \E k \in 1..Cardinality(P) : f[k] = x
    BY <2>1, InOrderFacts, SMTT(30)
  <2>. HIDE DEF m
  <2>. QED
    BY <1>5, <2>2
<1>11. list = SubSeq(f, 1, w)
  BY <1>1, <1>10 DEF Top, FirstN, f
<1>12. w \in Nat /\ w <= m
  BY <1>4, MinOfTwo
<1>. HIDE DEF list, w
<1>13. DOMAIN list = 1..w /\ Len(list) = w /\ \A i \in 1..w : list[i] = f[i] /\ i \in 1..m /\ f[i] \in P
  BY <1>4, <1>10, <1>11, <1>12
<1>14. listed = {f[i].key : i \in 1..w}
  BY <1>13
<1>. HIDE DEF m, listed
<1>15. listed \subseteq K
  BY <1>2, <1>13, <1>14
<1>16. Cardinality(listed) = w
  <2>. DEFINE b == [i \in 1..w |-> f[i].key]
  <2>1. \A j, k \in 1..w : b[j] = b[k] => j = k
    BY <1>2, <1>10, <1>13
  <2>2. b \in [1..w -> listed] /\ \A x \in listed : \E i \in 1..w : b[i] = x
    BY <1>14
  <2>. HIDE DEF b
  <2>3. b \in Bijection(1..w, listed)
    BY <2>1, <2>2 DEF Bijection, Injection, Surjection, IsInjective
  <2>4. ExistsBijection(1..w, listed)
    BY <2>3 DEF ExistsBijection
  <2>5. IsFiniteSet(1..w) /\ Cardinality(1..w) = w
    BY <1>12, CountTo
  <2>. QED
    BY <2>4, <2>5, FS_Bijection
<1>17. \A j, k \in 1..m : j < k => f[k].count <= f[j].count
  <2>1. ASSUME NEW j \in 1..m, NEW k \in 1..m, j < k
        PROVE  f[k].count <= f[j].count
    <3>1. RanksBefore(f[j], f[k]) /\ f[j] \in P /\ f[k] \in P
      BY <1>7, <1>10, <2>1
    <3>2. f[j].count \in Nat /\ f[k].count \in Nat
      BY <1>2, <3>1
    <3>. QED
      BY <3>1, <3>2 DEF RanksBefore
  <2>. QED
    BY <2>1
<1>18. ASSUME NEW i \in 1..w
       PROVE  /\ list[i].count = c[list[i].key]
              /\ \A key \in K \ listed : c[key] <= list[i].count
              /\ i > 1 => list[i].count <= list[i - 1].count
  <2>1. list[i].count = c[list[i].key]
    BY <1>2, <1>13
  <2>2. ASSUME NEW key \in K \ listed
        PROVE  c[key] <= list[i].count
    <3>1. PICK j \in 1..m : f[j] = pair(key)
      BY <1>3, <1>10
    <3>2. f[j].key = key /\ f[j].count = c[key]
      BY <1>3, <3>1
    <3>3. j \notin 1..w
      BY <1>14, <3>2
    <3>4. i < j /\ i \in 1..m
      BY <1>12, <1>13, <3>3
    <3>. QED
      BY <1>13, <1>17, <3>2, <3>4
  <2>3. ASSUME i > 1
        PROVE  list[i].count <= list[i - 1].count
    <3>1. i - 1 \in 1..w /\ i - 1 < i
      BY <1>12, <2>3
    <3>. QED
      BY <1>13, <1>17, <3>1
  <2>. QED
    BY <2>1, <2>2, <2>3
<1>. QED
  BY <1>13, <1>15, <1>16, <1>18 DEF listed, list, w, m

\* What NamesTop says of what phi finds at the places N.
NamedBy(list, N, phi, n) ==
    LET keys == KeysOf(phi, N)
        listed == {list[i].key : i \in DOMAIN list}
    IN  /\ listed \subseteq keys /\ Cardinality(listed) = Len(list)
        /\ Len(list) = Min({n, Cardinality(keys)})
        /\ \A i \in DOMAIN list :
            /\ list[i].count = Times(phi, N, list[i].key)
            /\ \A key \in keys \ listed : Times(phi, N, key) <= list[i].count
            /\ i > 1 => list[i].count <= list[i - 1].count

\* The top of the tally of what phi finds names the most frequent keys.
LEMMA TopNames ==
  ASSUME NEW N, NEW phi, NEW g, NEW L, NEW ks, Finds(ks, phi, g, L, N), NEW n \in Nat
  PROVE  NamedBy(Top(Tally(At(ks, {k \in DOMAIN ks : ks[k] # None})), n), N, phi, n)
<1>. DEFINE c == Tally(At(ks, {k \in DOMAIN ks : ks[k] # None}))
            K == KeysOf(phi, N)
            list == Top(c, n)
            listed == {list[i].key : i \in DOMAIN list}
<1>1. IsFiniteSet(K) /\ K \subseteq Key /\ c \in [K -> Nat]
      /\ \A key \in K : c[key] = Times(phi, N, key)
  BY TallyFacts
<1>. HIDE DEF c, K
<1>2. /\ listed \subseteq K /\ Cardinality(listed) = Len(list)
      /\ Len(list) = Min({n, Cardinality(K)})
      /\ \A i \in DOMAIN list :
          /\ list[i].count = c[list[i].key]
          /\ \A key \in K \ listed : c[key] <= list[i].count
          /\ i > 1 => list[i].count <= list[i - 1].count
  BY <1>1, TopFacts
<1>. HIDE DEF list
<1>3. \A i \in DOMAIN list : /\ list[i].count = Times(phi, N, list[i].key)
                             /\ \A key \in K \ listed : Times(phi, N, key) <= list[i].count
  BY <1>1, <1>2
<1>4. NamedBy(list, N, phi, n)
  <2>. HIDE DEF listed
  <2>. QED
    BY <1>2, <1>3, Zenon DEF NamedBy, K, listed
<1>. QED
  BY <1>4 DEF list, c

\* The keys that are found in a line.
LEMMA FieldKeys ==
  ASSUME NEW l \in LineType
  PROVE  RouteOf(l) \in Key /\ Code(l) \in Key /\ Normalize(l) \in Key /\ AccessStatus(l) \in Key
<1>1. /\ l.named \in Nat /\ l.three \in Nat
      /\ l.shape \in Key /\ l.path \in Key /\ l.route \in Key
  BY LineFields
<1>2. \A p \in Key : normalizeRoute(p) \in Key
  <2>. SUFFICES ASSUME NEW p \in Key
                PROVE  normalizeRoute(p) \in Key
    OBVIOUS
  <2>. DEFINE q == normalizeRoute(p)
  <2>1. Len(p) \in Nat /\ DOMAIN p = 1..Len(p) /\ \A i \in 1..Len(p) : p[i] \in Nat
    BY ElementType DEF Key
  <2>2. q = [i \in 1..Len(p) |-> IF isVolatileSeg(p[i]) THEN 0 ELSE p[i]]
    BY <2>1 DEF normalizeRoute
  <2>3. q = [i \in 1..Len(p) |-> q[i]] /\ \A i \in 1..Len(p) : q[i] \in Nat
    BY <2>1, <2>2
  <2>. HIDE DEF q
  <2>4. q \in Seq(Nat)
    BY <2>1, <2>3, FunctionIsSeq
  <2>. QED
    BY <2>4 DEF Key, q
<1>3. RouteOf(l) \in Key
  BY <1>1, <1>2 DEF RouteOf
<1>4. None \in Key /\ <<l.named>> \in Key /\ <<l.three>> \in Key
  BY <1>1 DEF None, Key
<1>5. Code(l) \in Key /\ AccessStatus(l) \in Key
  BY <1>4, Zenon DEF Code, AccessStatus
<1>. QED
  BY <1>1, <1>3, <1>5 DEF Normalize

\* What the lines of the file hold at some places, by field.
Routes(file, N) == [i \in N |-> RouteOf(file[i])]
Codes(file, N) == [i \in N |-> Code(file[i])]
Shapes(file, N) == [i \in N |-> Normalize(file[i])]
Statuses(file, N) == [i \in N |-> AccessStatus(file[i])]

\* ks holds, for each line shown, the key that phi has at its place.
FieldOf(ks, phi, s, g) ==
    /\ ks = [k \in DOMAIN s |-> ks[k]]
    /\ \A k \in DOMAIN s : ks[k] \in Key /\ ks[k] = phi[g[k]]

\* The keys of the lines shown are what phi finds at their places.
LEMMA FieldFinds ==
  ASSUME NEW file, NEW N, N \subseteq Nat, NEW s, NEW g, Shows(s, file, g, N),
         NEW phi, NEW ks, FieldOf(ks, phi, s, g)
  PROVE  Finds(ks, phi, g, Len(s), N)
<1>1. Lists(g, Len(s), N) /\ Len(s) \in Nat /\ DOMAIN s = 1..Len(s)
  BY DEF Shows
<1>2. ks \in Seq(Key) /\ Len(ks) = Len(s)
  BY <1>1, FunctionIsSeq DEF FieldOf
<1>. QED
  BY <1>1, <1>2 DEF Finds, FieldOf

\* The lists of the reports name the most frequent keys of the lines shown.
LEMMA ShownNames ==
  ASSUME NEW file, NEW N, N \subseteq Nat, NEW s, NEW g, Shows(s, file, g, N), NEW n \in Nat
  PROVE  /\ NamedBy(Top(Tally(Matches(s, RouteOf)), n), N, Routes(file, N), n)
         /\ NamedBy(Top(Tally(Matches(s, Code)), n), N, Codes(file, N), n)
         /\ NamedBy(Top(Tally(Matches(s, Normalize)), n), N, Shapes(file, N), n)
         /\ NamedBy(Top(Tally(Matches(s, AccessStatus)), n), N, Statuses(file, N), n)
<1>. DEFINE D == DOMAIN s
            routes == [k \in D |-> RouteOf(s[k])]
            codes == [k \in D |-> Code(s[k])]
            shapes == [k \in D |-> Normalize(s[k])]
            statuses == [k \in D |-> AccessStatus(s[k])]
<1>1. \A k \in D : s[k] \in LineType /\ g[k] \in N /\ s[k] = file[g[k]]
  <2>1. s \in Seq(LineType) /\ Lists(g, Len(s), N) /\ \A k \in 1..Len(s) : s[k] = file[g[k]]
    BY DEF Shows
  <2>2. D = 1..Len(s) /\ g \in [1..Len(s) -> N]
    BY <2>1 DEF Lists
  <2>3. \A k \in 1..Len(s) : s[k] \in LineType
    BY <2>1, ElementType
  <2>. QED
    BY <2>1, <2>2, <2>3
<1>2. \A k \in D : /\ RouteOf(s[k]) \in Key /\ Code(s[k]) \in Key
                   /\ Normalize(s[k]) \in Key /\ AccessStatus(s[k]) \in Key
  BY <1>1, FieldKeys
<1>. HIDE DEF D
<1>3. FieldOf(routes, Routes(file, N), s, g)
  BY <1>1, <1>2 DEF FieldOf, Routes, D
<1>4. FieldOf(codes, Codes(file, N), s, g)
  BY <1>1, <1>2 DEF FieldOf, Codes, D
<1>5. FieldOf(shapes, Shapes(file, N), s, g)
  BY <1>1, <1>2 DEF FieldOf, Shapes, D
<1>6. FieldOf(statuses, Statuses(file, N), s, g)
  BY <1>1, <1>2 DEF FieldOf, Statuses, D
<1>7. /\ Matches(s, RouteOf) = At(routes, {k \in DOMAIN routes : routes[k] # None})
      /\ Matches(s, Code) = At(codes, {k \in DOMAIN codes : codes[k] # None})
      /\ Matches(s, Normalize) = At(shapes, {k \in DOMAIN shapes : shapes[k] # None})
      /\ Matches(s, AccessStatus) = At(statuses, {k \in DOMAIN statuses : statuses[k] # None})
  BY DEF Matches, Selected, D
<1>. HIDE DEF routes, codes, shapes, statuses
<1>8. /\ Finds(routes, Routes(file, N), g, Len(s), N)
      /\ Finds(codes, Codes(file, N), g, Len(s), N)
      /\ Finds(shapes, Shapes(file, N), g, Len(s), N)
      /\ Finds(statuses, Statuses(file, N), g, Len(s), N)
  BY <1>3, <1>4, <1>5, <1>6, FieldFinds
<1>. QED
  BY <1>7, <1>8, TopNames

\* The least and the greatest number of a list stand at its ends.
LEMMA ListEnds ==
  ASSUME NEW I, I \subseteq Nat, NEW L, NEW g, Lists(g, L, I), L # 0
  PROVE  g[1] = Min(I) /\ g[L] = Max(I)
<1>1. L \in Nat /\ 1 \in 1..L /\ L \in 1..L /\ g \in [1..L -> I]
  BY DEF Lists
<1>2. g[1] \in I /\ g[L] \in I /\ \A i \in I : i \in Nat
  BY <1>1
<1>3. \A i \in I : g[1] <= i /\ i <= g[L]
  <2>. SUFFICES ASSUME NEW i \in I
                PROVE  g[1] <= i /\ i <= g[L]
    OBVIOUS
  <2>1. PICK k \in 1..L : g[k] = i
    BY DEF Lists
  <2>2. (k = 1 \/ 1 < k) /\ (k = L \/ k < L)
    BY <1>1
  <2>3. \A j, h \in 1..L : j < h => g[j] < g[h]
    BY DEF Lists
  <2>4. (1 < k => g[1] < i) /\ (k < L => i < g[L])
    BY <1>1, <2>1, <2>3
  <2>5. g[1] \in Nat /\ g[L] \in Nat /\ i \in Nat
    BY <1>2
  <2>6. g[1] <= i
    BY <2>1, <2>2, <2>4, <2>5
  <2>7. i <= g[L]
    BY <2>1, <2>2, <2>4, <2>5
  <2>. QED
    BY <2>6, <2>7
<1>4. \A i \in I : ((\A j \in I : i <= j) => i = g[1]) /\ ((\A j \in I : i >= j) => i = g[L])
  <2>. DEFINE a == g[1]  b == g[L]
  <2>1. a \in I /\ b \in I /\ \A i \in I : i \in Nat /\ a <= i /\ i <= b
    BY <1>2, <1>3
  <2>. HIDE DEF a, b
  <2>2. \A i \in I : ((\A j \in I : i <= j) => i = a) /\ ((\A j \in I : i >= j) => i = b)
    BY <2>1
  <2>. QED
    BY <2>2 DEF a, b
<1>5. Min(I) = g[1]
  BY <1>2, <1>3, <1>4 DEF Min
<1>6. Max(I) = g[L]
  BY <1>2, <1>3, <1>4 DEF Max
<1>. QED
  BY <1>5, <1>6

\* The lines with an error or an exception, in a sequence and in a file.
BadOf(s) == {k \in DOMAIN s : s[k].errorish \/ s[k].exceptional}
BadAt(file, N) == {i \in N : file[i].errorish \/ file[i].exceptional}

\* The exceptions are those of the lines shown, from the first to the last.
LEMMA ExceptionsShown ==
  ASSUME NEW file, NEW N, N \subseteq Nat, NEW s, NEW g, Shows(s, file, g, N)
  PROVE  LET errs == At(s, BadOf(s))
             B == BadAt(file, N)
         IN  /\ NamedBy(Top(Tally(Matches(errs, Normalize)), 8), B, Shapes(file, B), 8)
             /\ B # {} => /\ errs # <<>>
                          /\ errs[1].text = file[Min(B)].text
                          /\ Last(errs).text = file[Max(B)].text
<1>. DEFINE J == BadOf(s)
            errs == At(s, J)
            B == BadAt(file, N)
            m == Len(errs)
<1>1. J = {k \in DOMAIN s : s[k].errorish \/ s[k].exceptional}
  BY DEF BadOf
<1>2. /\ DOMAIN s = 1..Len(s) /\ \A k \in 1..Len(s) : s[k] = file[g[k]]
      /\ g \in [1..Len(s) -> N] /\ \A i \in N : \E k \in 1..Len(s) : g[k] = i
  BY DEF Shows, Lists
<1>3. GivenAt(g, J) = B
  <2>1. ASSUME NEW j \in J
        PROVE  g[j] \in B
    BY <1>1, <1>2 DEF BadAt
  <2>2. ASSUME NEW i \in B
        PROVE  \E j \in J : g[j] = i
    <3>1. i \in N /\ (file[i].errorish \/ file[i].exceptional)
      BY DEF BadAt
    <3>2. PICK k \in 1..Len(s) : g[k] = i
      BY <1>2, <3>1
    <3>3. k \in J
      BY <1>1, <1>2, <3>1, <3>2
    <3>. QED
      BY <3>2, <3>3
  <2>. QED
    BY <2>1, <2>2 DEF GivenAt
<1>4. J \subseteq DOMAIN s /\ B \subseteq N /\ B \subseteq Nat
  BY <1>1 DEF BadAt
<1>. HIDE DEF J, B
<1>5. PICK f : Shows(errs, file, f, B)
  BY <1>3, <1>4, SelectionShows
<1>. HIDE DEF errs
<1>6. NamedBy(Top(Tally(Matches(errs, Normalize)), 8), B, Shapes(file, B), 8)
  BY <1>4, <1>5, ShownNames
<1>7. errs \in Seq(LineType) /\ m \in Nat /\ Lists(f, m, B) /\ \A k \in 1..m : errs[k] = file[f[k]]
  BY <1>5 DEF Shows
<1>8. ASSUME B # {}
      PROVE  errs # <<>> /\ errs[1].text = file[Min(B)].text /\ Last(errs).text = file[Max(B)].text
  <2>. HIDE DEF m
  <2>1. m # 0
    BY <1>7, <1>8 DEF Lists
  <2>2. f[1] = Min(B) /\ f[m] = Max(B)
    BY <1>4, <1>7, <2>1, ListEnds
  <2>3. errs # <<>>
    BY <1>7, <2>1 DEF m
  <2>4. errs[1] = file[Min(B)] /\ errs[m] = file[Max(B)]
    BY <1>7, <2>1, <2>2
  <2>. QED
    BY <2>3, <2>4 DEF Last, m
<1>9. B # {} => errs # <<>> /\ errs[1].text = file[Min(B)].text /\ Last(errs).text = file[Max(B)].text
  BY <1>8
<1>. QED
  BY <1>6, <1>9, Zenon DEF B, errs, J

\* The lines that tell how long a request took.
TimedAt(file, N) == {i \in N : parseLatMS(file[i]) >= 0}
FasterAt(file, N, v) == {i \in TimedAt(file, N) : parseLatMS(file[i]) < v}

\* The percentiles of the lines shown.
LEMMA PercentilesShown ==
  ASSUME NEW file, NEW N, N \subseteq Nat, NEW s, NEW g, Shows(s, file, g, N)
  PROVE  LET lats == Latencies([k \in DOMAIN s |-> parseLatMS(s[k])])
             p50 == percentile(lats, 50)
         IN  /\ p50 <= percentile(lats, 95)
             /\ 2 * Cardinality(FasterAt(file, N, p50)) <= Cardinality(TimedAt(file, N))
<1>. DEFINE L == Len(s)
            vals == [k \in DOMAIN s |-> parseLatMS(s[k])]
            J == {k \in DOMAIN vals : vals[k] >= 0}
            sel == At(vals, J)
            n == Cardinality(J)
            lats == Latencies(vals)
            p50 == percentile(lats, 50)
            p95 == percentile(lats, 95)
            T == TimedAt(file, N)
<1>1. /\ L \in Nat /\ DOMAIN s = 1..L /\ Lists(g, L, N)
      /\ g \in [1..L -> N] /\ \A i \in N : \E k \in 1..L : g[k] = i
      /\ \A k \in 1..L : s[k] = file[g[k]] /\ s[k] \in LineType
  <2>1. s \in Seq(LineType) /\ Lists(g, L, N) /\ \A k \in 1..L : s[k] = file[g[k]]
    BY DEF Shows
  <2>2. \A k \in 1..L : s[k] \in LineType
    BY <2>1, ElementType
  <2>3. L \in Nat /\ DOMAIN s = 1..L
    BY <2>1
  <2>4. g \in [1..L -> N] /\ \A i \in N : \E k \in 1..L : g[k] = i
    BY <2>1 DEF Lists
  <2>. HIDE DEF L
  <2>. QED
    BY <2>1, <2>2, <2>3, <2>4
<1>. HIDE DEF L
<1>2. /\ vals \in Seq(Int) /\ DOMAIN vals = 1..L
      /\ \A k \in 1..L : vals[k] = parseLatMS(file[g[k]]) /\ vals[k] \in Int
  <2>1. \A k \in 1..L : vals[k] = parseLatMS(file[g[k]]) /\ vals[k] \in Int
    BY <1>1, LineFields
  <2>2. vals = [k \in 1..L |-> vals[k]]
    BY <1>1
  <2>. HIDE DEF vals
  <2>3. vals \in Seq(Int) /\ Len(vals) = L
    BY <1>1, <2>1, <2>2, FunctionIsSeq
  <2>. QED
    BY <2>1, <2>3
<1>3. lats = Ascending(sel)
  BY DEF Latencies, Selected
<1>. HIDE DEF vals
<1>4. J \subseteq DOMAIN vals /\ J = {k \in 1..L : vals[k] >= 0}
  BY <1>2
<1>. HIDE DEF J
<1>5. sel \in Seq(Int) /\ Len(sel) = n /\ n \in Nat
  <2>1. vals \in Seq(Int) /\ J \subseteq DOMAIN vals
    BY <1>2, <1>4
  <2>. QED
    BY <2>1, AtFacts
<1>6. PICK h : Lists(h, n, J) /\ \A k \in 1..n : sel[k] = vals[h[k]]
  <2>1. vals \in Seq(Int) /\ J \subseteq DOMAIN vals
    BY <1>2, <1>4
  <2>. QED
    BY <2>1, AtFacts
<1>. HIDE DEF sel, n, lats
<1>7. J = Hits(g, L, T) /\ ListedAmong(T, g, L, N)
  BY <1>1, <1>2, <1>4 DEF Hits, ListedAmong, TimedAt
<1>8. Cardinality(T) = n
  BY <1>7, ListedCount DEF n
<1>9. ASSUME NEW v
      PROVE  Cardinality(Lower(sel, v)) = Cardinality(FasterAt(file, N, v))
  <2>. DEFINE A == {j \in J : vals[j] < v}
              B == FasterAt(file, N, v)
  <2>1. \A k \in 1..n : h[k] \in J
    BY <1>6 DEF Lists
  <2>2. Lower(sel, v) = Hits(h, n, A)
    BY <1>5, <1>6, <2>1 DEF Lower, Hits
  <2>3. A = Hits(g, L, B)
    BY <1>1, <1>2, <1>4 DEF Hits, FasterAt, TimedAt
  <2>4. ListedAmong(A, h, n, J) /\ ListedAmong(B, g, L, N)
    BY <1>1, <1>4, <1>6 DEF ListedAmong, FasterAt, TimedAt
  <2>. HIDE DEF A, B
  <2>5. Cardinality(Hits(h, n, A)) = Cardinality(A) /\ Cardinality(Hits(g, L, B)) = Cardinality(B)
    BY <2>4, ListedCount
  <2>. QED
    BY <2>2, <2>3, <2>5 DEF B
<1>10. CASE n = 0
  <2>1. lats = <<>>
    <3>1. lats \in Seq(Int) /\ Len(lats) = 0
      BY <1>3, <1>5, <1>10, AscendingOrder
    <3>. QED
      BY <3>1
  <2>2. p50 = 0 /\ p95 = 0
    BY <2>1 DEF percentile
  <2>3. FasterAt(file, N, 0) = {}
    <3>. SUFFICES ASSUME NEW i \in TimedAt(file, N)
                  PROVE  ~(parseLatMS(file[i]) < 0)
      BY DEF FasterAt
    <3>1. i \in N /\ parseLatMS(file[i]) >= 0
      BY DEF TimedAt
    <3>2. PICK k \in 1..L : g[k] = i
      BY <1>1, <3>1
    <3>3. parseLatMS(file[i]) \in Int
      BY <1>2, <3>2
    <3>. QED
      BY <3>1, <3>3
  <2>4. Cardinality(FasterAt(file, N, 0)) = 0
    BY <2>3, FS_EmptySet
  <2>. HIDE DEF p50, p95, T
  <2>. QED
    BY <1>8, <1>10, <2>2, <2>4 DEF p50, p95, lats, vals, T
<1>11. CASE n # 0
  <2>. DEFINE a == (50 * (n - 1)) \div 100 + 1
              b == (95 * (n - 1)) \div 100 + 1
              c == Cardinality(FasterAt(file, N, lats[a]))
  <2>1. a \in 1..n /\ b \in 1..n /\ a <= b /\ 2 * (a - 1) <= n
    BY <1>5, <1>11
  <2>2. lats \in Seq(Int) /\ Len(lats) = n /\ lats # <<>>
    <3>1. lats \in Seq(Int) /\ Len(lats) = n
      BY <1>3, <1>5, AscendingOrder
    <3>. QED
      BY <1>11, <3>1
  <2>3. p50 = lats[a] /\ p95 = lats[b]
    BY <2>2 DEF percentile
  <2>. HIDE DEF a, b
  <2>4. lats[a] <= lats[b]
    BY <1>3, <1>5, <2>1, AscendingOrder
  <2>5. c < a /\ c \in Nat
    <3>1. Cardinality(Lower(sel, lats[a])) < a
      BY <1>3, <1>5, <2>1, AscendingFacts
    <3>2. Cardinality(Lower(sel, lats[a])) \in Nat
      BY <1>5, LowerFacts
    <3>. QED
      BY <1>9, <3>1, <3>2
  <2>. HIDE DEF c
  <2>6. 2 * c <= n
    BY <1>5, <2>1, <2>5
  <2>. HIDE DEF p50, p95, T
  <2>7. p50 <= p95 /\ 2 * Cardinality(FasterAt(file, N, p50)) <= Cardinality(T)
    BY <1>8, <2>3, <2>4, <2>6 DEF c
  <2>. QED
    BY <2>7 DEF p50, p95, lats, vals, T
<1>. QED
  BY <1>10, <1>11

\* What ReportsAreExact says of a report r on the last n lines of a file.
Exact(file, r, n) ==
    LET N == NewestOf(file, n)
        B == BadAt(file, N)
    IN  /\ r.kind \in {"perf", "exceptions", "access", "behaviour"} =>
              r.linesRead = Cardinality(N)
        /\ r.kind = "perf" =>
              /\ NamedBy(r.pathTop, N, Routes(file, N), 8)
              /\ NamedBy(r.statusTop, N, Codes(file, N), 5)
              /\ r.p50 <= r.p95
              /\ 2 * Cardinality(FasterAt(file, N, r.p50)) <= Cardinality(TimedAt(file, N))
        /\ r.kind = "exceptions" =>
              /\ NamedBy(r.top, B, Shapes(file, B), 8)
              /\ B # {} => r.recentLast = file[Max(B)].text /\ r.recentFirst = file[Min(B)].text
        /\ r.kind = "access" => NamedBy(r.topStatus, N, Statuses(file, N), 6)
        /\ r.kind = "behaviour" => NamedBy(r.topShapes, N, Shapes(file, N), 6)

\* NamesTop, field by field.
LEMMA NamesMeaning ==
  ASSUME NEW list, NEW N, NEW n
  PROVE  /\ NamesTop(list, N, RouteOf, n) <=> NamedBy(list, N, Routes(log, N), n)
         /\ NamesTop(list, N, Code, n) <=> NamedBy(list, N, Codes(log, N), n)
         /\ NamesTop(list, N, Normalize, n) <=> NamedBy(list, N, Shapes(log, N), n)
         /\ NamesTop(list, N, AccessStatus, n) <=> NamedBy(list, N, Statuses(log, N), n)
<1>1. NamesTop(list, N, RouteOf, n) <=> NamedBy(list, N, Routes(log, N), n)
  <2>. DEFINE phi == Routes(log, N)
              K == {RouteOf(log[i]) : i \in N} \ {None}
              T(key) == Cardinality({i \in N : RouteOf(log[i]) = key})
              listed == {list[i].key : i \in DOMAIN list}
  <2>1. NamesTop(list, N, RouteOf, n) <=>
          /\ listed \subseteq K /\ Cardinality(listed) = Len(list)
          /\ Len(list) = Min({n, Cardinality(K)})
          /\ \A i \in DOMAIN list :
              /\ list[i].count = T(list[i].key)
              /\ \A key \in K \ listed : T(key) <= list[i].count
              /\ i > 1 => list[i].count <= list[i - 1].count
    BY DEF NamesTop
  <2>2. \A i \in N : phi[i] = RouteOf(log[i])
    BY DEF Routes
  <2>. HIDE DEF phi
  <2>3. KeysOf(phi, N) = K
    BY <2>2 DEF KeysOf
  <2>4. \A key : Times(phi, N, key) = T(key)
    <3>1. \A key : {i \in N : phi[i] = key} = {i \in N : RouteOf(log[i]) = key}
      BY <2>2
    <3>. QED
      BY <3>1 DEF Times
  <2>5. NamedBy(list, N, phi, n) <=>
          /\ listed \subseteq KeysOf(phi, N) /\ Cardinality(listed) = Len(list)
          /\ Len(list) = Min({n, Cardinality(KeysOf(phi, N))})
          /\ \A i \in DOMAIN list :
              /\ list[i].count = Times(phi, N, list[i].key)
              /\ \A key \in KeysOf(phi, N) \ listed : Times(phi, N, key) <= list[i].count
              /\ i > 1 => list[i].count <= list[i - 1].count
    BY DEF NamedBy
  <2>. HIDE DEF K, T, listed
  <2>. QED
    BY <2>1, <2>3, <2>4, <2>5 DEF phi
<1>2. NamesTop(list, N, Code, n) <=> NamedBy(list, N, Codes(log, N), n)
  <2>. DEFINE phi == Codes(log, N)
              K == {Code(log[i]) : i \in N} \ {None}
              T(key) == Cardinality({i \in N : Code(log[i]) = key})
              listed == {list[i].key : i \in DOMAIN list}
  <2>1. NamesTop(list, N, Code, n) <=>
          /\ listed \subseteq K /\ Cardinality(listed) = Len(list)
          /\ Len(list) = Min({n, Cardinality(K)})
          /\ \A i \in DOMAIN list :
              /\ list[i].count = T(list[i].key)
              /\ \A key \in K \ listed : T(key) <= list[i].count
              /\ i > 1 => list[i].count <= list[i - 1].count
    BY DEF NamesTop
  <2>2. \A i \in N : phi[i] = Code(log[i])
    BY DEF Codes
  <2>. HIDE DEF phi
  <2>3. KeysOf(phi, N) = K
    BY <2>2 DEF KeysOf
  <2>4. \A key : Times(phi, N, key) = T(key)
    <3>1. \A key : {i \in N : phi[i] = key} = {i \in N : Code(log[i]) = key}
      BY <2>2
    <3>. QED
      BY <3>1 DEF Times
  <2>5. NamedBy(list, N, phi, n) <=>
          /\ listed \subseteq KeysOf(phi, N) /\ Cardinality(listed) = Len(list)
          /\ Len(list) = Min({n, Cardinality(KeysOf(phi, N))})
          /\ \A i \in DOMAIN list :
              /\ list[i].count = Times(phi, N, list[i].key)
              /\ \A key \in KeysOf(phi, N) \ listed : Times(phi, N, key) <= list[i].count
              /\ i > 1 => list[i].count <= list[i - 1].count
    BY DEF NamedBy
  <2>. HIDE DEF K, T, listed
  <2>. QED
    BY <2>1, <2>3, <2>4, <2>5 DEF phi
<1>3. NamesTop(list, N, Normalize, n) <=> NamedBy(list, N, Shapes(log, N), n)
  <2>. DEFINE phi == Shapes(log, N)
              K == {Normalize(log[i]) : i \in N} \ {None}
              T(key) == Cardinality({i \in N : Normalize(log[i]) = key})
              listed == {list[i].key : i \in DOMAIN list}
  <2>1. NamesTop(list, N, Normalize, n) <=>
          /\ listed \subseteq K /\ Cardinality(listed) = Len(list)
          /\ Len(list) = Min({n, Cardinality(K)})
          /\ \A i \in DOMAIN list :
              /\ list[i].count = T(list[i].key)
              /\ \A key \in K \ listed : T(key) <= list[i].count
              /\ i > 1 => list[i].count <= list[i - 1].count
    BY DEF NamesTop
  <2>2. \A i \in N : phi[i] = Normalize(log[i])
    BY DEF Shapes
  <2>. HIDE DEF phi
  <2>3. KeysOf(phi, N) = K
    BY <2>2 DEF KeysOf
  <2>4. \A key : Times(phi, N, key) = T(key)
    <3>1. \A key : {i \in N : phi[i] = key} = {i \in N : Normalize(log[i]) = key}
      BY <2>2
    <3>. QED
      BY <3>1 DEF Times
  <2>5. NamedBy(list, N, phi, n) <=>
          /\ listed \subseteq KeysOf(phi, N) /\ Cardinality(listed) = Len(list)
          /\ Len(list) = Min({n, Cardinality(KeysOf(phi, N))})
          /\ \A i \in DOMAIN list :
              /\ list[i].count = Times(phi, N, list[i].key)
              /\ \A key \in KeysOf(phi, N) \ listed : Times(phi, N, key) <= list[i].count
              /\ i > 1 => list[i].count <= list[i - 1].count
    BY DEF NamedBy
  <2>. HIDE DEF K, T, listed
  <2>. QED
    BY <2>1, <2>3, <2>4, <2>5 DEF phi
<1>4. NamesTop(list, N, AccessStatus, n) <=> NamedBy(list, N, Statuses(log, N), n)
  <2>. DEFINE phi == Statuses(log, N)
              K == {AccessStatus(log[i]) : i \in N} \ {None}
              T(key) == Cardinality({i \in N : AccessStatus(log[i]) = key})
              listed == {list[i].key : i \in DOMAIN list}
  <2>1. NamesTop(list, N, AccessStatus, n) <=>
          /\ listed \subseteq K /\ Cardinality(listed) = Len(list)
          /\ Len(list) = Min({n, Cardinality(K)})
          /\ \A i \in DOMAIN list :
              /\ list[i].count = T(list[i].key)
              /\ \A key \in K \ listed : T(key) <= list[i].count
              /\ i > 1 => list[i].count <= list[i - 1].count
    BY DEF NamesTop
  <2>2. \A i \in N : phi[i] = AccessStatus(log[i])
    BY DEF Statuses
  <2>. HIDE DEF phi
  <2>3. KeysOf(phi, N) = K
    BY <2>2 DEF KeysOf
  <2>4. \A key : Times(phi, N, key) = T(key)
    <3>1. \A key : {i \in N : phi[i] = key} = {i \in N : AccessStatus(log[i]) = key}
      BY <2>2
    <3>. QED
      BY <3>1 DEF Times
  <2>5. NamedBy(list, N, phi, n) <=>
          /\ listed \subseteq KeysOf(phi, N) /\ Cardinality(listed) = Len(list)
          /\ Len(list) = Min({n, Cardinality(KeysOf(phi, N))})
          /\ \A i \in DOMAIN list :
              /\ list[i].count = Times(phi, N, list[i].key)
              /\ \A key \in KeysOf(phi, N) \ listed : Times(phi, N, key) <= list[i].count
              /\ i > 1 => list[i].count <= list[i - 1].count
    BY DEF NamedBy
  <2>. HIDE DEF K, T, listed
  <2>. QED
    BY <2>1, <2>3, <2>4, <2>5 DEF phi
<1>. QED
  BY <1>1, <1>2, <1>3, <1>4

\* ReportsAreExact says Exact of the last answer.
LEMMA ReportsMeaning ==
  ReportsAreExact <=> (answer # <<>> => Exact(log, Report, answer[2]))
<1>. DEFINE N == Newest
            B == {i \in N : log[i].errorish \/ log[i].exceptional}
            T == {i \in N : parseLatMS(log[i]) >= 0}
<1>1. /\ N = NewestOf(log, answer[2]) /\ B = BadAt(log, N) /\ T = TimedAt(log, N)
      /\ \A v : {i \in T : parseLatMS(log[i]) < v} = FasterAt(log, N, v)
  BY DEF Newest, NewestOf, BadAt, TimedAt, FasterAt
<1>2. ReportsAreExact <=>
        /\ Reports({"perf", "exceptions", "access", "behaviour"}) => Report.linesRead = Cardinality(N)
        /\ Reports({"perf"}) =>
              /\ NamesTop(Report.pathTop, N, RouteOf, 8)
              /\ NamesTop(Report.statusTop, N, Code, 5)
              /\ Report.p50 <= Report.p95
              /\ 2 * Cardinality({i \in T : parseLatMS(log[i]) < Report.p50}) <= Cardinality(T)
        /\ Reports({"exceptions"}) =>
              /\ NamesTop(Report.top, B, Normalize, 8)
              /\ B # {} => Report.recentLast = log[Max(B)].text
                           /\ Report.recentFirst = log[Min(B)].text
        /\ Reports({"access"}) => NamesTop(Report.topStatus, N, AccessStatus, 6)
        /\ Reports({"behaviour"}) => NamesTop(Report.topShapes, N, Normalize, 6)
  BY DEF ReportsAreExact
<1>. HIDE DEF N, B, T
<1>3. ReportsAreExact <=>
        /\ Reports({"perf", "exceptions", "access", "behaviour"}) => Report.linesRead = Cardinality(N)
        /\ Reports({"perf"}) =>
              /\ NamedBy(Report.pathTop, N, Routes(log, N), 8)
              /\ NamedBy(Report.statusTop, N, Codes(log, N), 5)
              /\ Report.p50 <= Report.p95
              /\ 2 * Cardinality(FasterAt(log, N, Report.p50)) <= Cardinality(T)
        /\ Reports({"exceptions"}) =>
              /\ NamedBy(Report.top, B, Shapes(log, B), 8)
              /\ B # {} => Report.recentLast = log[Max(B)].text
                           /\ Report.recentFirst = log[Min(B)].text
        /\ Reports({"access"}) => NamedBy(Report.topStatus, N, Statuses(log, N), 6)
        /\ Reports({"behaviour"}) => NamedBy(Report.topShapes, N, Shapes(log, N), 6)
  BY <1>1, <1>2, NamesMeaning, Zenon
<1>4. \A S : Reports(S) <=> answer # <<>> /\ Report.kind \in S
  BY DEF Reports
<1>. HIDE DEF Report, Reports
<1>5. \A x, y : x \in {y} <=> x = y
  OBVIOUS
<1>. QED
  BY <1>1, <1>3, <1>4, <1>5, Zenon DEF Exact

\* The reports are exact about the newest lines.
LEMMA AnswersExact ==
  ASSUME NEW file \in Seq(Lines), NEW n \in Nat \ {0}
  PROVE  /\ \A r \in AnalyzeAPIPerf(file, n) : Exact(file, r, n)
         /\ Exact(file, AnalyzeExceptions(file, n), n)
         /\ Exact(file, AnalyzeAccess(file, n), n)
         /\ Exact(file, AnalyzeBehaviour(file, n), n)
<1>. DEFINE s == ReadLastN(file, n)
            N == NewestOf(file, n)
            B == BadAt(file, N)
<1>1. PICK g : Shows(s, file, g, N)
  BY ReadShows
<1>2. N \subseteq Nat
  <2>1. DOMAIN file \subseteq Nat
    OBVIOUS
  <2>. QED
    BY <2>1 DEF NewestOf
<1>. HIDE DEF s, N
<1>3. Len(s) = Cardinality(N)
  <2>1. Lists(g, Len(s), N)
    BY <1>1 DEF Shows
  <2>. QED
    BY <1>2, <2>1, ListFacts
<1>4. /\ NamedBy(Top(Tally(Matches(s, RouteOf)), 8), N, Routes(file, N), 8)
      /\ NamedBy(Top(Tally(Matches(s, Code)), 5), N, Codes(file, N), 5)
      /\ NamedBy(Top(Tally(Matches(s, Normalize)), 6), N, Shapes(file, N), 6)
      /\ NamedBy(Top(Tally(Matches(s, AccessStatus)), 6), N, Statuses(file, N), 6)
  <2>1. 5 \in Nat /\ 6 \in Nat /\ 8 \in Nat
    OBVIOUS
  <2>. QED
    BY <1>1, <1>2, <2>1, ShownNames, Zenon
<1>5. ASSUME NEW r \in AnalyzeAPIPerf(file, n)
      PROVE  Exact(file, r, n)
  <2>. DEFINE lats == Latencies([i \in DOMAIN s |-> parseLatMS(s[i])])
              requests == Count(s, LAMBDA l : l.named # 0)
              errors == Count(s, LAMBDA l : l.named >= 500)
              statusTop == Top(Tally(Matches(s, Code)), 5)
              pathTop == Top(Tally(Matches(s, RouteOf)), 8)
              slow == Count(lats, LAMBDA v : v > Second)
              all == IF lats = <<>> THEN {<<>>} ELSE Slowest(s)
              made(x) == [kind |-> "perf", linesRead |-> Len(s), requests |-> requests,
                          errors |-> errors, statusTop |-> statusTop, pathTop |-> pathTop,
                          p50 |-> percentile(lats, 50), p95 |-> percentile(lats, 95),
                          slow |-> slow, slowest |-> x]
  <2>1. AnalyzeAPIPerf(file, n) = {made(x) : x \in all}
    BY DEF AnalyzeAPIPerf, s
  <2>2. /\ percentile(lats, 50) <= percentile(lats, 95)
        /\ 2 * Cardinality(FasterAt(file, N, percentile(lats, 50))) <= Cardinality(TimedAt(file, N))
    BY <1>1, <1>2, PercentilesShown
  <2>. HIDE DEF lats, requests, errors, slow, all
  <2>3. PICK x \in all : r = made(x)
    BY <2>1
  <2>4. /\ r.kind = "perf" /\ r.linesRead = Len(s)
        /\ r.statusTop = statusTop /\ r.pathTop = pathTop
        /\ r.p50 = percentile(lats, 50) /\ r.p95 = percentile(lats, 95)
    BY <2>3
  <2>. QED
    BY <1>3, <1>4, <2>2, <2>4 DEF Exact, N
<1>6. Exact(file, AnalyzeExceptions(file, n), n)
  <2>. DEFINE r == AnalyzeExceptions(file, n)
              errs == At(s, BadOf(s))
  <2>1. r = [kind |-> "exceptions",
             linesRead |-> Len(s),
             errorLines |-> Len(errs),
             recentFirst |-> IF errs = <<>> THEN 0 ELSE errs[1].text,
             recentLast |-> IF errs = <<>> THEN 0 ELSE Last(errs).text,
             top |-> Top(Tally(Matches(errs, Normalize)), 8)]
    BY DEF AnalyzeExceptions, Selected, BadOf, s
  <2>2. /\ NamedBy(Top(Tally(Matches(errs, Normalize)), 8), B, Shapes(file, B), 8)
        /\ B # {} => /\ errs # <<>>
                     /\ errs[1].text = file[Min(B)].text
                     /\ Last(errs).text = file[Max(B)].text
    BY <1>1, <1>2, ExceptionsShown
  <2>. HIDE DEF r, errs, B
  <2>3. /\ r.kind = "exceptions" /\ r.linesRead = Len(s)
        /\ r.top = Top(Tally(Matches(errs, Normalize)), 8)
        /\ B # {} => r.recentLast = file[Max(B)].text /\ r.recentFirst = file[Min(B)].text
    BY <2>1, <2>2
  <2>. QED
    BY <1>3, <2>2, <2>3 DEF Exact, N, B, r
<1>7. Exact(file, AnalyzeAccess(file, n), n)
  <2>. DEFINE r == AnalyzeAccess(file, n)
  <2>1. /\ r.kind = "access" /\ r.linesRead = Len(s)
        /\ r.topStatus = Top(Tally(Matches(s, AccessStatus)), 6)
    BY DEF AnalyzeAccess, s
  <2>. HIDE DEF r
  <2>. QED
    BY <1>3, <1>4, <2>1 DEF Exact, N, r
<1>8. Exact(file, AnalyzeBehaviour(file, n), n)
  <2>. DEFINE r == AnalyzeBehaviour(file, n)
  <2>1. /\ r.kind = "behaviour" /\ r.linesRead = Len(s)
        /\ r.topShapes = Top(Tally(Matches(s, Normalize)), 6)
    BY DEF AnalyzeBehaviour, s
  <2>. HIDE DEF r
  <2>. QED
    BY <1>3, <1>4, <2>1 DEF Exact, N, r
<1>. QED
  BY <1>5, <1>6, <1>7, <1>8

\* Of the other answers the property says nothing.
LEMMA OthersExact ==
  ASSUME NEW file, NEW r, NEW n,
         r.kind \notin {"perf", "exceptions", "access", "behaviour"}
  PROVE  Exact(file, r, n)
BY DEF Exact

\* The invariant of the reports.
ReportsInv == LogInv /\ (answer # <<>> => Exact(log, Report, answer[2]))

\* Every step keeps the invariant of the reports.
LEMMA ReportsStep ==
  ReportsInv /\ [ToolsNext]_toolVars => ReportsInv'
<1>. SUFFICES ASSUME ReportsInv, [ToolsNext]_toolVars
              PROVE  ReportsInv'
  OBVIOUS
<1>1. ASSUME NEW x \in IF audit THEN AuditRows ELSE Lines, Write(x)
      PROVE  ReportsInv'
  BY <1>1 DEF Write, ReportsInv, LogInv
<1>2. ASSUME NEW S, NEW k, Answers(S, k), \A r \in S : Exact(log, r, k)
      PROVE  ReportsInv'
  <2>1. PICK r \in S : answer' = <<r, k>> /\ UNCHANGED <<audit, log>>
    BY <1>2 DEF Answers
  <2>2. Exact(log, r, k) /\ LogInv
    BY <1>2 DEF ReportsInv
  <2>3. log' = log /\ audit' = audit /\ Report' = r /\ (answer[2])' = k
    BY <2>1 DEF Report
  <2>. QED
    BY <2>2, <2>3 DEF ReportsInv, LogInv
<1>3. ASSUME NEW n \in Windows, AnalyzeLog(n)
      PROVE  ReportsInv'
  <2>. DEFINE k == LinesWanted(n)
  <2>1. k \in Nat \ {0} /\ log \in Seq(Lines)
    BY <1>3, LinesWantedType DEF AnalyzeLog, ReportsInv, LogInv
  <2>2. /\ \A r \in AnalyzeAPIPerf(log, k) : Exact(log, r, k)
        /\ Exact(log, AnalyzeExceptions(log, k), k)
        /\ Exact(log, AnalyzeAccess(log, k), k)
        /\ Exact(log, AnalyzeBehaviour(log, k), k)
    <3>. HIDE DEF k
    <3>. QED
      BY <2>1, AnswersExact
  <2>3. \A r \in Analyze(log, k) : Exact(log, r, k)
    <3>. SUFFICES ASSUME NEW r \in Analyze(log, k)
                  PROVE  Exact(log, r, k)
      OBVIOUS
    <3>. DEFINE all == TailOf(log, k)
                lines == Selected(all, LAMBDA l : ~l.blank)
                errs == Selected(lines, LAMBDA l : l.errorish)
                A == TopN(Tally(Matches(lines, normalize)), 5)
                E == TopN(Tally(Matches(errs, normalize)), 5)
                made(t, e) == [kind |-> "analyze", linesRead |-> Len(all),
                               errorLines |-> Len(errs), top |-> t, topErrors |-> e]
    <3>1. Analyze(log, k) = {made(t, e) : t \in A, e \in E}
      BY DEF Analyze
    <3>. HIDE DEF k, all, lines, errs, A, E
    <3>2. r.kind = "analyze"
      BY <3>1
    <3>. QED
      BY <3>2, OthersExact
  <2>. HIDE DEF k
  <2>4. \/ Answers(AnalyzeAPIPerf(log, k), k) \/ Answers({AnalyzeExceptions(log, k)}, k)
        \/ Answers({AnalyzeAccess(log, k)}, k) \/ Answers({AnalyzeBehaviour(log, k)}, k)
        \/ Answers(Analyze(log, k), k)
    BY <1>3 DEF AnalyzeLog, APIPerf, Exceptions, Access, Behaviour, AnalyzeTail, k
  <2>. QED
    BY <1>2, <2>2, <2>3, <2>4
<1>4. ASSUME NEW n \in Windows, Audit(n)
      PROVE  ReportsInv'
  <2>. DEFINE k == LinesWanted(n)  r == AnalyzeAuditRows(LastN(log, k))
  <2>1. Answers({r}, k)
    BY <1>4 DEF Audit
  <2>2. r.kind = "audit"
    BY DEF AnalyzeAuditRows
  <2>. HIDE DEF k, r
  <2>3. Exact(log, r, k)
    BY <2>2, OthersExact
  <2>. QED
    BY <1>2, <2>1, <2>3
<1>5. ASSUME NEW m \in Metrics, NEW t \in Thresholds, NEW n \in Windows, OpsForecast(m, t, n)
      PROVE  ReportsInv'
  <2>. DEFINE k == LinesWanted(n)  S == ForecastMetric(m, BuildBuckets(log, k), t)
  <2>1. Answers(S, k) /\ ~audit
    BY <1>5 DEF OpsForecast
  <2>2. k \in Nat \ {0} /\ log \in Seq(Lines) /\ t \in Nat
    BY <2>1, LinesWantedType, ForecastAssumption DEF ReportsInv, LogInv
  <2>3. \A r \in S : Exact(log, r, k)
    <3>. SUFFICES ASSUME NEW r \in S
                  PROVE  Exact(log, r, k)
      OBVIOUS
    <3>1. r.kind = "error" \/ r.kind = "forecast"
      <4>. HIDE DEF k
      <4>. QED
        BY <2>2, ForecastAnswer
    <3>. HIDE DEF S, k
    <3>. QED
      BY <3>1, OthersExact
  <2>. HIDE DEF S, k
  <2>. QED
    BY <1>2, <2>1, <2>3
<1>6. CASE UNCHANGED toolVars
  BY <1>6 DEF toolVars, ReportsInv, LogInv, Report
<1>. QED
  BY <1>1, <1>3, <1>4, <1>5, <1>6 DEF ToolsNext

\* What AnalyzeAPIPerf, AnalyzeExceptions, AnalyzeAccess and AnalyzeBehaviour report
\* is exact about the newest lines of any log, however many are asked for.
THEOREM ReportsExact == ToolsSpec => []ReportsAreExact
<1>1. ToolsInit => ReportsInv
  BY DEF ToolsInit, ReportsInv, LogInv
<1>2. ReportsInv => ReportsAreExact
  BY ReportsMeaning DEF ReportsInv
<1>. QED
  BY <1>1, <1>2, ReportsStep, PTL DEF ToolsSpec
==============================================================================
