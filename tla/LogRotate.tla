----------------------------- MODULE LogRotate -----------------------------
(***************************************************************************)
(* The size-capped log file of internal/logx/rotate.go.  Records are       *)
(* numbered in the order they are written; a rotated file is named after   *)
(* the time of its rotation, so that the names sort in the order of the    *)
(* rotations, and its stamp is the record that made the writer rotate.     *)
(* One call of Write holds the lock throughout, and the steps below are    *)
(* the system calls it makes, each of which can fail: another process, or  *)
(* a watch, sees the files between any two of them.                        *)
(***************************************************************************)
EXTENDS Naturals, Sequences, FiniteSets, SequencesExt

CONSTANTS
    MaxRecords,  \* bound on the records written
    Length,      \* the bytes of each record
    MaxBytes,    \* RotatingWriter.MaxBytes
    KeepFiles,   \* RotatingWriter.KeepFiles
    MaxFaults    \* bound on failed calls and restarts

Records == 1..MaxRecords

ASSUME SizesAssumption == MaxRecords \in Nat /\ MaxBytes \in Nat \ {0} /\ KeepFiles \in Nat \ {0}
ASSUME LengthAssumption == Length \in [Records -> Nat \ {0}]
ASSUME FaultsAssumption == MaxFaults \in Nat

VARIABLES
    active,   \* the records in the file at Path
    bytes,    \* its size
    there,    \* is there such a file?
    rotated,  \* the rotated files, oldest first
    stuck,    \* history: the last rotation of the file at Path failed
    handle,   \* RotatingWriter.f
    size,     \* RotatingWriter.size
    writing,  \* how far the Write under way is
    skip,     \* files that the pruning under way could not remove
    written,  \* records written so far
    acked,    \* those whose Write returned no error
    faults    \* failed calls and restarts so far

diskVars == <<active, bytes, there, rotated, stuck>>
writerVars == <<handle, size, writing, skip>>
logVars == <<diskVars, writerVars, written, acked, faults>>

Files == [stamp : Records, recs : Seq(Records)]

LogTypeOK ==
    /\ active \in Seq(Records)
    /\ {bytes, size, skip} \subseteq Nat
    /\ {there, stuck} \subseteq BOOLEAN
    /\ rotated \in Seq(Files)
    /\ handle \in {"nil", "open", "closed"}
    /\ writing \in {"no", "rename", "reopen", "prune", "append"}
    /\ written \in 0..MaxRecords
    /\ acked \subseteq 1..written
    /\ faults \in 0..MaxFaults

LogInit ==
    /\ active = <<>> /\ bytes = 0 /\ there = FALSE /\ rotated = <<>> /\ stuck = FALSE
    /\ handle = "nil" /\ size = 0 /\ writing = "no" /\ skip = 0
    /\ written = 0 /\ acked = {} /\ faults = 0

Fault == faults < MaxFaults /\ faults' = faults + 1

\* Mutant: the cap is compared with what the file holds already.
TooLargeAlready(s) == s > MaxBytes

\* Would the next record exceed the cap?
TooLarge(s) == s + Length[written + 1] > MaxBytes

\* Write: the file is opened if it is not, and is rotated first, which starts
\* by closing it, if the record does not fit; an empty file is no exception.
\* An opening that fails may have created the file.
WriteBegin ==
    LET opened == IF handle = "nil" THEN bytes ELSE size IN
    /\ writing = "no" /\ written < MaxRecords
    /\ written' = written + 1
    /\ \/ /\ there' = TRUE
          /\ size' = opened
          /\ writing' = IF TooLarge(opened) THEN "rename" ELSE "append"
          /\ handle' = IF TooLarge(opened) THEN "closed"
                       ELSE IF handle = "nil" THEN "open" ELSE handle
          /\ UNCHANGED faults
       \/ handle = "nil" /\ Fault /\ there' \in {there, TRUE} /\ UNCHANGED <<handle, size, writing>>
    /\ UNCHANGED <<active, bytes, rotated, stuck, skip, acked>>

\* rotateLocked: the rename; if it fails the old file is opened again, which
\* may fail too.
Rename ==
    /\ writing = "rename"
    /\ \/ /\ rotated' = Append(rotated, [stamp |-> written, recs |-> active])
          /\ active' = <<>> /\ bytes' = 0 /\ there' = FALSE /\ stuck' = FALSE
          /\ writing' = "reopen"
          /\ UNCHANGED <<handle, faults>>
       \/ /\ Fault
          /\ stuck' = TRUE
          /\ handle' \in {"open", "closed"}
          /\ writing' = "append"
          /\ UNCHANGED <<active, bytes, there, rotated>>
    /\ UNCHANGED <<size, skip, written, acked>>

\* rotateLocked: the new file.  The directory is read for the pruning, which
\* is given up if that fails.
Reopen ==
    /\ writing = "reopen"
    /\ \/ /\ there' = TRUE /\ handle' = "open"
          /\ \/ writing' = (IF Len(rotated) > KeepFiles THEN "prune" ELSE "append")
                /\ UNCHANGED faults
             \/ writing' = "append" /\ Fault
       \/ Fault /\ handle' = "nil" /\ writing' = "append" /\ UNCHANGED there
    /\ size' = 0
    /\ UNCHANGED <<active, bytes, rotated, stuck, skip, written, acked>>

\* Mutant: the names are sorted the other way.
VictimNewest == Len(rotated) - skip

\* pruneLocked: the oldest file that it has not tried yet.
Victim == skip + 1

\* pruneLocked: one by one, the files beyond the newest KeepFiles go, but for
\* those whose removal fails.
Prune ==
    /\ writing = "prune"
    /\ \/ rotated' = RemoveAt(rotated, Victim) /\ UNCHANGED <<faults, skip>>
       \/ Fault /\ skip' = skip + 1 /\ UNCHANGED rotated
    /\ writing' = IF Len(rotated') > KeepFiles + skip' THEN "prune" ELSE "append"
    /\ UNCHANGED <<active, bytes, there, stuck, handle, size, written, acked>>

\* The write itself, which fails unless the file is open; one that fails on an
\* open file may have written a part of the record.
AppendRecord ==
    /\ writing = "append"
    /\ writing' = "no" /\ skip' = 0
    /\ \/ /\ handle = "open"
          /\ active' = Append(active, written)
          /\ bytes' = bytes + Length[written]
          /\ size' = size + Length[written]
          /\ acked' = acked \cup {written}
          /\ UNCHANGED faults
       \/ handle # "open" /\ UNCHANGED <<active, bytes, size, acked, faults>>
       \/ /\ handle = "open" /\ Fault
          /\ \E n \in 0..(Length[written] - 1) : bytes' = bytes + n /\ size' = size + n
          /\ UNCHANGED <<active, acked>>
    /\ UNCHANGED <<there, rotated, stuck, handle, written>>

WriterStep == WriteBegin \/ Rename \/ Reopen \/ Prune \/ AppendRecord

\* Close.  The next Write opens the file again.
Close ==
    /\ writing = "no" /\ handle' = "nil"
    /\ UNCHANGED <<diskVars, size, writing, skip, written, acked, faults>>

\* The process ends and another one starts.
WriterRestarts == handle' = "nil" /\ size' = 0 /\ writing' = "no" /\ skip' = 0

\* The process dies, in the middle of a Write or not.
Dies ==
    /\ Fault
    /\ WriterRestarts
    /\ UNCHANGED <<diskVars, written, acked>>

LogNext == WriterStep \/ Close \/ Dies

LogSpec == LogInit /\ [][LogNext]_logVars

-----------------------------------------------------------------------------
(* Properties.                                                             *)

OnDisk == ToSet(active) \cup UNION {ToSet(rotated[i].recs) : i \in 1..Len(rotated)}

\* pruneLocked deletes "the oldest rotated files beyond KeepFiles", and
\* "losing rotation is better than losing logs": a record whose Write returned
\* no error is on disk unless the KeepFiles newest of the rotated files were
\* all rotated after it was written, whatever calls failed and wherever the
\* process died.
LogIsKept ==
    \A r \in acked \ OnDisk :
        /\ Len(rotated) >= KeepFiles
        /\ \A i \in (Len(rotated) - KeepFiles + 1)..Len(rotated) : r < rotated[i].stamp

\* The file at Path exceeds the cap only by what a single Write put alone into
\* it, a record that is too long for any file, or after its rename failed.
CapIsKept ==
    \/ bytes <= MaxBytes
    \/ stuck
    \/ Len(active) <= 1 /\ \E r \in Records : bytes <= Length[r]
=============================================================================
