------------------------------ MODULE LogWatch ------------------------------
(***************************************************************************)
(* The log watchdog: the manager and its polls (internal/logwatch/         *)
(* watchdog.go), the stored watches (store.go), the /watch and /unwatch    *)
(* commands and the boot (internal/app/watchgate.go), over a log that the  *)
(* rotating writer of LogRotate produces.                                  *)
(*                                                                         *)
(* A poll is a Stat and, later, a read of the bytes the Stat announced.    *)
(* The writer appends whole records, and a watch's positions, which the    *)
(* program keeps in bytes, are numbers of records: so the two agree on     *)
(* what a shorter file is if the records have the length one (UnitRecords).*)
(* A command changes the manager first and the table second; several       *)
(* workers may run commands, and run them while the boot is still          *)
(* restoring the stored watches.                                           *)
(***************************************************************************)
EXTENDS LogRotate

CONSTANTS
    Names,        \* names of watches, all of them over the log
    Patterns,     \* patterns of watches
    NoPattern,    \* there is no such watch
    Matching,     \* the records that each pattern matches
    Workers,      \* workers that run commands
    Cooldown,     \* Watch.Cooldown in ticks
    AlertBuffer,  \* the capacity of Manager.alerts
    MaxCommands   \* bound on commands

ASSUME WatchAssumption ==
    /\ NoPattern \notin Patterns
    /\ Matching \in [Patterns -> SUBSET Records]
    /\ Cooldown \in Nat \ {0} /\ AlertBuffer \in Nat \ {0} /\ MaxCommands \in Nat

VARIABLES
    table,     \* log_watches: the pattern of each name
    live,      \* Manager.watches: the watch of each name
    counted,   \* how often the live watch counted each record
    history,   \* has the log been rotated, unnoticed by the live watch or
               \* between the Stat and the read of one of its polls?
    alerts,    \* alerts in Manager.alerts
    pump,      \* the goroutine that sends alerts to the chat runs
    command,   \* the command of each worker
    boot,      \* StartWatches
    commands,  \* commands so far
    overlap,   \* history: a command ran beside another one or the boot
    degraded   \* history: a store call failed

watchVars == <<live, counted, history>>
alertVars == <<alerts, pump>>
gateVars == <<table, command, boot, commands, overlap, degraded>>
vars == <<logVars, watchVars, alertVars, gateVars>>

\* The logs for which positions in records stand for positions in bytes.
UnitRecords == \A r \in Records : Length[r] = 1

Idle == [pc |-> "idle", name |-> "none", pattern |-> NoPattern]
NoWatch == [pattern |-> NoPattern, off |-> 0, size |-> 0, cool |-> 0, poll |-> "idle", stat |-> 0]

\* A watch as Add makes it: at the head of the file, with its first poll due.
Fresh(p) == [NoWatch EXCEPT !.pattern = p, !.poll = "due"]

IsLive(n) == live[n].pattern # NoPattern

TypeOK ==
    /\ LogTypeOK
    /\ table \in [Names -> Patterns \cup {NoPattern}]
    /\ live \in [Names -> [pattern : Patterns \cup {NoPattern}, off : 0..MaxRecords,
                           size : 0..MaxRecords, cool : 0..Cooldown,
                           poll : {"idle", "due", "read"}, stat : 0..MaxRecords]]
    /\ counted \in [Names -> [Records -> 0..MaxRecords]]
    /\ history \in [Names -> {"same", "rotated", "raced"}]
    /\ alerts \in 0..AlertBuffer /\ pump \in BOOLEAN
    /\ command \in [Workers -> [pc : {"idle", "add", "first", "save", "remove", "delete"},
                                name : Names \cup {"none"}, pattern : Patterns \cup {NoPattern}]]
    /\ boot \in {"list", "add", "up"}
    /\ commands \in 0..MaxCommands
    /\ {overlap, degraded} \subseteq BOOLEAN

Init ==
    /\ LogInit
    /\ table = [n \in Names |-> NoPattern]
    /\ live = [n \in Names |-> NoWatch]
    /\ counted = [n \in Names |-> [r \in Records |-> 0]]
    /\ history = [n \in Names |-> "same"]
    /\ alerts = 0 /\ pump = FALSE
    /\ command = [w \in Workers |-> Idle]
    /\ boot = "up"
    /\ commands = 0
    /\ overlap = FALSE /\ degraded = FALSE

-----------------------------------------------------------------------------
(* The log.  Its rotation is noted for every watch that is reading it.     *)

LogStep ==
    /\ WriterStep
    /\ history' = [n \in Names |->
                    IF Len(rotated') <= Len(rotated) THEN history[n]
                    ELSE IF live[n].poll = "read" \/ history[n] = "raced" THEN "raced"
                    ELSE "rotated"]
    /\ UNCHANGED <<live, counted, alertVars, gateVars>>

-----------------------------------------------------------------------------
(* Polls.                                                                  *)

\* Mutant: a file that has not grown is taken for a new one.
RotationOnEqual(n, s) == s <= live[n].off \/ s < live[n].size

\* tailFile's signs of a rotated or truncated file.
Rotation(n, s) == s < live[n].off \/ s < live[n].size

\* Mutant: no timer after the first poll.
DueNever(n) == FALSE /\ UNCHANGED vars

\* The ticker of loop.Periodic.
Due(n) ==
    /\ IsLive(n) /\ live[n].poll = "idle"
    /\ \A w \in Workers : command[w].pc = "first" => command[w].name # n
    /\ live' = [live EXCEPT ![n].poll = "due"]
    /\ UNCHANGED <<logVars, counted, history, alertVars, gateVars>>

\* tailFile, up to the Stat.  A missing file, or one with nothing new, ends
\* the poll.  A watch that sees a rotation starts over at the head, and one
\* that stood at the head misses nothing by it.
Stat(n) ==
    LET s == Len(active)
        off == IF Rotation(n, s) THEN 0 ELSE live[n].off
    IN
    /\ IsLive(n) /\ live[n].poll = "due"
    /\ live' = [live EXCEPT ![n] =
                 IF ~there THEN [@ EXCEPT !.poll = "idle"]
                 ELSE IF s = off THEN [@ EXCEPT !.poll = "idle", !.off = off, !.size = s]
                 ELSE [@ EXCEPT !.poll = "read", !.off = off, !.size = s, !.stat = s - off]]
    /\ history' = [history EXCEPT ![n] =
                    IF there /\ off = 0 /\ @ = "rotated" THEN "same" ELSE @]
    /\ UNCHANGED <<logVars, counted, alertVars, gateVars>>

\* What Open and ReadAt return of the bytes announced: the file may have been
\* replaced by a shorter one since.
ReadAt(n) == SubSeq(active, live[n].off + 1,
                    IF live[n].off + live[n].stat <= Len(active)
                    THEN live[n].off + live[n].stat ELSE Len(active))

\* The rest of the poll: every matching record is counted, the first one
\* outside a cooldown starts the next cooldown and is put into the alert
\* channel, or dropped if that is full.
Read(n) ==
    LET lines == IF there THEN ReadAt(n) ELSE <<>>
        hits == {i \in 1..Len(lines) : lines[i] \in Matching[live[n].pattern]}
        alert == hits # {} /\ live[n].cool = 0
    IN
    /\ IsLive(n) /\ live[n].poll = "read"
    /\ live' = [live EXCEPT ![n].poll = "idle", ![n].stat = 0,
                            ![n].off = @ + Len(lines),
                            ![n].cool = IF alert THEN Cooldown ELSE @]
    /\ counted' = [counted EXCEPT ![n] =
                    [r \in Records |->
                        @[r] + Cardinality({i \in hits : lines[i] = r})]]
    /\ alerts' = IF alert /\ alerts < AlertBuffer THEN alerts + 1 ELSE alerts
    /\ UNCHANGED <<logVars, history, pump, gateVars>>

\* A tick of the cooldowns.
Tick ==
    /\ \E n \in Names : live[n].cool > 0
    /\ live' = [n \in Names |-> [live[n] EXCEPT !.cool = IF @ > 0 THEN @ - 1 ELSE 0]]
    /\ UNCHANGED <<logVars, counted, history, alertVars, gateVars>>

\* The pump hands an alert to the notifier.
PumpSend ==
    /\ pump /\ alerts > 0
    /\ alerts' = alerts - 1
    /\ UNCHANGED <<logVars, watchVars, pump, gateVars>>

-----------------------------------------------------------------------------
(* Commands and the boot.                                                  *)

\* The watch of a name changes: its old loop has been stopped, which waits
\* for a poll that is under way, and its reads start over.
Replace(n, watch) ==
    /\ live[n].poll = "idle"
    /\ live' = [live EXCEPT ![n] = watch]
    /\ counted' = [counted EXCEPT ![n] = [r \in Records |-> 0]]
    /\ history' = [history EXCEPT ![n] = "same"]

Busy == boot # "up" \/ \E w \in Workers : command[w].pc # "idle"

\* A worker takes up /watch or /unwatch.
Take(w, n, p) ==
    /\ command[w].pc = "idle"
    /\ commands < MaxCommands /\ commands' = commands + 1
    /\ command' = [command EXCEPT ![w] = [pc |-> IF p = NoPattern THEN "remove" ELSE "add",
                                          name |-> n, pattern |-> p]]
    /\ overlap' = (overlap \/ Busy)
    /\ UNCHANGED <<logVars, watchVars, alertVars, table, boot, degraded>>

\* Does a call of Add hold the manager's lock for its first poll?
Locked == \E w \in Workers : command[w].pc = "first"

\* /watch: Manager.Add.
Add(w) ==
    LET c == command[w] IN
    /\ c.pc = "add" /\ ~Locked
    /\ Replace(c.name, Fresh(c.pattern))
    /\ command' = [command EXCEPT ![w].pc = "first"]
    /\ UNCHANGED <<logVars, alertVars, table, boot, commands, overlap, degraded>>

\* Add returns after its first poll.
AddReturns(w) ==
    /\ command[w].pc = "first"
    /\ live[command[w].name].poll = "idle"
    /\ command' = [command EXCEPT ![w].pc = "save"]
    /\ UNCHANGED <<logVars, watchVars, alertVars, table, boot, commands, overlap, degraded>>

\* SaveWatch's upsert and DeleteWatch.
Stored(n, p) == [table EXCEPT ![n] = p]

\* /watch: SaveWatch; /unwatch: DeleteWatch.
Persist(w) ==
    LET c == command[w] IN
    /\ c.pc \in {"save", "delete"}
    /\ command' = [command EXCEPT ![w] = Idle]
    /\ \/ table' = Stored(c.name, c.pattern) /\ UNCHANGED <<faults, degraded>>
       \/ Fault /\ degraded' = TRUE /\ UNCHANGED table
    /\ UNCHANGED <<diskVars, writerVars, written, acked, watchVars, alertVars,
                   boot, commands, overlap>>

\* /unwatch: Manager.Remove.
RemoveWatch(w) ==
    LET c == command[w] IN
    /\ c.pc = "remove" /\ ~Locked
    /\ Replace(c.name, NoWatch)
    /\ command' = [command EXCEPT ![w].pc = "delete"]
    /\ UNCHANGED <<logVars, alertVars, table, boot, commands, overlap, degraded>>

\* StartWatches: the stored watches are read.  A failing query leaves the
\* process without watches.
BootList ==
    /\ boot = "list"
    /\ \/ boot' = "add" /\ UNCHANGED <<faults, degraded>>
       \/ Fault /\ boot' = "up" /\ degraded' = TRUE
    /\ UNCHANGED <<diskVars, writerVars, written, acked, watchVars, alertVars,
                   table, command, commands, overlap>>

\* StartWatches: they are added, and the pump is started if there are any.
BootAdd ==
    /\ boot = "add" /\ boot' = "up"
    /\ \A n \in Names : live[n].poll = "idle"
    /\ live' = [n \in Names |-> IF table[n] = NoPattern THEN live[n] ELSE Fresh(table[n])]
    /\ counted' = [n \in Names |-> IF table[n] = NoPattern THEN counted[n]
                                   ELSE [r \in Records |-> 0]]
    /\ history' = [n \in Names |-> IF table[n] = NoPattern THEN history[n] ELSE "same"]
    /\ pump' = (pump \/ \E n \in Names : table[n] # NoPattern)
    /\ UNCHANGED <<logVars, alerts, table, command, commands, overlap, degraded>>

\* The process, with its log writer, ends and starts again.
Restart ==
    /\ Fault
    /\ WriterRestarts
    /\ live' = [n \in Names |-> NoWatch]
    /\ counted' = [n \in Names |-> [r \in Records |-> 0]]
    /\ history' = [n \in Names |-> "same"]
    /\ alerts' = 0 /\ pump' = FALSE
    /\ degraded' = (degraded \/ \E w \in Workers : command[w].pc # "idle")
    /\ command' = [w \in Workers |-> Idle]
    /\ boot' = "list"
    /\ UNCHANGED <<diskVars, written, acked, table, commands, overlap>>

-----------------------------------------------------------------------------
PollStep(n) == Stat(n) \/ Read(n)

Next ==
    \/ LogStep
    \/ \E n \in Names : Due(n) \/ PollStep(n)
    \/ Tick \/ PumpSend
    \/ \E w \in Workers :
        \/ \E n \in Names, p \in Patterns \cup {NoPattern} : Take(w, n, p)
        \/ Add(w) \/ AddReturns(w) \/ RemoveWatch(w) \/ Persist(w)
    \/ BootList \/ BootAdd
    \/ Restart

Spec == Init /\ [][Next]_vars

\* The timers of the polls fire, a poll that began goes on, and so does the
\* Add whose first poll it was.
FairSpec ==
    /\ Spec
    /\ \A n \in Names : WF_vars(Due(n)) /\ WF_vars(PollStep(n))
    /\ \A w \in Workers : WF_vars(AddReturns(w))

-----------------------------------------------------------------------------
(* Properties.                                                             *)

\* A watch counts no record twice unless the log was rotated between the Stat
\* and the read of one of its polls; and as long as it has noticed every
\* rotation, it has counted every match in the part of the file that it has
\* passed.
ReadsOnce ==
    \A n \in Names : IsLive(n) =>
        /\ history[n] # "raced" => \A r \in Records : counted[n][r] <= 1
        /\ history[n] = "same" =>
            \A i \in 1..live[n].off :
                active[i] \in Matching[live[n].pattern] => counted[n][active[i]] = 1

\* "log rotation shows up as a size drop and is handled": no poll goes on to
\* read a rotated log from the position it had reached in the old file, which
\* passes over the new file's first records for good.
RotationsShow ==
    \A n \in Names : IsLive(n) /\ live[n].poll = "read" => history[n] # "rotated"

\* When nothing is under way, what runs is what the table will restore: after
\* replaced watches, removed watches and restarts, as long as no store call
\* failed and no command ran beside another one or the boot.
TableMatchesLive ==
    ~overlap /\ ~degraded /\ ~Busy => \A n \in Names : live[n].pattern = table[n]

\* A watch catches up with its log: a match that it has not counted does not
\* stay in the file for ever, as long as it has noticed every rotation.
MatchesAreSeen ==
    LET Unseen(n, r) ==
            /\ r \in ToSet(active) /\ counted[n][r] = 0 /\ history[n] = "same"
            /\ \E p \in Patterns : live[n].pattern = p /\ r \in Matching[p]
    IN  \A n \in Names, r \in Records : Unseen(n, r) ~> ~Unseen(n, r)
=============================================================================
