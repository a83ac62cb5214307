------------------------------ MODULE LogStats ------------------------------
(***************************************************************************)
(* The statistics that /api_perf, /exceptions, /access, /behaviour, /audit *)
(* and /analyze compute over the end of a log or over audit rows           *)
(* (internal/loganalysis/analyze.go, Analyze of internal/logwatch/         *)
(* watchdog.go), as pure operators.                                        *)
(*                                                                         *)
(* A line is what the regular expressions find in it: a record of keys     *)
(* (sequences of numbers, <<>> if there is no match), a status, a latency  *)
(* and flags.  `shape' is the line with its volatile parts masked, `text'  *)
(* the line itself.  Files are shorter than the 8 MiB tail window, and a   *)
(* mean is a pair of a sum and a number of values.                         *)
(***************************************************************************)
EXTENDS Integers, Sequences, FiniteSets, SequencesExt, FiniteSetsExt

CONSTANTS
    Segs,       \* path segments: [long, digit, other] says what they are made of
    Second      \* milliseconds in a second

ASSUME SecondAssumption == Second \in Nat \ {0}

None == <<>>
BlankLine == [blank |-> TRUE]

\* What the regular expressions may find.
Key == Seq(Nat)
LineType ==
    [blank : {FALSE}, text : Nat, shape : Key, hexShape : Key, clock : Nat,
     named : Nat, bare : Nat, three : Nat, path : Key, route : Key,
     unit : {"none", "ms", "s"}, lat : Nat, ends : BOOLEAN,
     errorish : BOOLEAN, exceptional : BOOLEAN, ip : Key, cmd : Key,
     agent : Key, hour : Key]

\* The elements of a finite set in a strict order: each stands behind as many
\* as come before it.
Ranked(S, Before(_, _)) ==
    [k \in 1..Cardinality(S) |->
        CHOOSE x \in S : Cardinality({y \in S : Before(y, x)}) = k - 1]

\* The elements of s at a set of places, in their order.
At(s, places) == LET place == Ranked(places, <) IN [k \in DOMAIN place |-> s[place[k]]]

\* The elements of s that satisfy P, in their order.
Selected(s, P(_)) == At(s, {i \in DOMAIN s : P(s[i])})

\* The last n elements of a sequence.
LastN(s, n) == SubSeq(s, IF Len(s) > n THEN Len(s) - n + 1 ELSE 1, Len(s))

\* Mutant: the window is cut before the empty lines are dropped.
ReadLastNWindowFirst(log, n) == Selected(LastN(log, n), LAMBDA l : ~l.blank)

\* readLastN: empty lines are dropped before the window is cut.
ReadLastN(log, n) == LastN(Selected(log, LAMBDA l : ~l.blank), n)

-----------------------------------------------------------------------------
(* Tallies.                                                                *)

\* The matches of a field, in the order of the lines.
Matches(lines, Field(_)) ==
    Selected([i \in DOMAIN lines |-> Field(lines[i])], LAMBDA k : k # None)

\* counter.add over a sequence of keys.
Tally(keys) == [k \in ToSet(keys) |-> Cardinality({i \in DOMAIN keys : keys[i] = k})]

\* The order of strings.
KeyLess(a, b) ==
    \/ \E i \in DOMAIN a \cap DOMAIN b : a[i] < b[i] /\ \A j \in 1..(i - 1) : a[j] = b[j]
    \/ Len(a) < Len(b) /\ \A i \in DOMAIN a : a[i] = b[i]

Pairs(c) == {[key |-> k, count |-> c[k]] : k \in DOMAIN c}

\* counter.top's order: higher counts first, keys in order among equals.
RanksBefore(p, q) == p.count > q.count \/ (p.count = q.count /\ KeyLess(p.key, q.key))

FirstN(s, k) == SubSeq(s, 1, Min({k, Len(s)}))

\* counter.top.
Top(c, k) == FirstN(Ranked(Pairs(c), RanksBefore), k)

\* sort.Slice by a weak order over the entries of a map, which come in any
\* order: the lists it may produce.
Sorted(S, Over(_, _)) ==
    {s \in SetToSeqs(S) : \A i, j \in DOMAIN s : i < j => ~Over(s[j], s[i])}

\* logwatch's topN: by count only.
TopN(c, n) == {FirstN(s, n) : s \in Sorted(Pairs(c), LAMBDA p, q : p.count > q.count)}

-----------------------------------------------------------------------------
(* What the parsers make of a line.                                        *)

\* isVolatileSeg: long, or made of digits, or of digits and hex letters.
isVolatileSeg(s) == Segs[s].long \/ (~Segs[s].other /\ Segs[s].digit)

\* normalizeRoute; the segment 0 is ":id".
normalizeRoute(p) == [i \in DOMAIN p |-> IF isVolatileSeg(p[i]) THEN 0 ELSE p[i]]

\* The path after a method, or else that of a path= field.
RouteOf(l) == normalizeRoute(IF l.path # None THEN l.path ELSE l.route)

\* A number of seconds counts only if the text ends there or a space follows.
parseLatMS(l) ==
    CASE l.unit = "ms" -> l.lat
      [] l.unit = "s" /\ l.ends -> l.lat * Second
      [] OTHER -> -1

\* Normalize masks the volatile parts of a line; logwatch's normalize masks
\* 0x numbers as one part of their own.
Normalize(l) == l.shape
normalize(l) == l.hexShape

isPlausibleStatus(code) == code \div 100 \in 2..5

Code(l) == IF l.named # 0 THEN <<l.named>> ELSE None

\* percentile, of a sorted sequence: the index is rounded down.
percentile(sorted, p) ==
    IF sorted = <<>> THEN 0 ELSE sorted[(p * (Len(sorted) - 1)) \div 100 + 1]

Count(lines, P(_)) == Cardinality({i \in DOMAIN lines : P(lines[i])})

\* sort.Float64s: at place k is the number that fewer than k are below.
Ascending(vals) ==
    [k \in DOMAIN vals |->
        CHOOSE v \in ToSet(vals) : /\ Cardinality({i \in DOMAIN vals : vals[i] < v}) < k
                                  /\ k <= Cardinality({i \in DOMAIN vals : vals[i] <= v})]

Latencies(vals) == Ascending(Selected(vals, LAMBDA v : v >= 0))

-----------------------------------------------------------------------------
(* The reports.                                                            *)

\* latByPath: the latencies of each route, -1 among them, as sum and number.
LatByPath(lines) ==
    LET at(r) == {i \in DOMAIN lines : RouteOf(lines[i]) = r}
    IN  {[key |-> r, sum |-> MapThenSumSet(LAMBDA i : parseLatMS(lines[i]), at(r)),
          count |-> Cardinality(at(r))] : r \in ToSet(Matches(lines, RouteOf))}

\* The five slowest routes by their mean; those with one mean in any order.
Slowest(lines) ==
    {FirstN(s, 5) : s \in Sorted(LatByPath(lines), LAMBDA p, q : p.sum * q.count > q.sum * p.count)}

AnalyzeAPIPerf(log, n) ==
    LET lines == ReadLastN(log, n)
        lats == Latencies([i \in DOMAIN lines |-> parseLatMS(lines[i])])
    IN  {[kind |-> "perf",
          linesRead |-> Len(lines),
          requests |-> Count(lines, LAMBDA l : l.named # 0),
          errors |-> Count(lines, LAMBDA l : l.named >= 500),
          statusTop |-> Top(Tally(Matches(lines, Code)), 5),
          pathTop |-> Top(Tally(Matches(lines, RouteOf)), 8),
          p50 |-> percentile(lats, 50),
          p95 |-> percentile(lats, 95),
          slow |-> Count(lats, LAMBDA v : v > Second),
          slowest |-> s] : s \in IF lats = <<>> THEN {<<>>} ELSE Slowest(lines)}

AnalyzeExceptions(log, n) ==
    LET lines == ReadLastN(log, n)
        errs == Selected(lines, LAMBDA l : l.errorish \/ l.exceptional)
    IN  [kind |-> "exceptions",
         linesRead |-> Len(lines),
         errorLines |-> Len(errs),
         recentFirst |-> IF errs = <<>> THEN 0 ELSE errs[1].text,
         recentLast |-> IF errs = <<>> THEN 0 ELSE Last(errs).text,
         top |-> Top(Tally(Matches(errs, Normalize)), 8)]

\* A named status, or else the first number of three digits if it looks like one.
AccessStatus(l) ==
    CASE l.three = 0 -> None
      [] l.named # 0 -> <<l.named>>
      [] isPlausibleStatus(l.three) -> <<l.three>>
      [] OTHER -> None

AnalyzeAccess(log, n) ==
    LET lines == ReadLastN(log, n)
    IN  [kind |-> "access",
         linesRead |-> Len(lines),
         hits |-> Len(lines),
         topIPs |-> Top(Tally(Matches(lines, LAMBDA l : l.ip)), 5),
         topPaths |-> Top(Tally(Matches(lines, LAMBDA l : normalizeRoute(l.path))), 8),
         topStatus |-> Top(Tally(Matches(lines, AccessStatus)), 6),
         topAgent |-> Top(Tally(Matches(lines, LAMBDA l : l.agent)), 4)]

AnalyzeBehaviour(log, n) ==
    LET lines == ReadLastN(log, n)
        shapes == Tally(Matches(lines, Normalize))
        Minute(l) == IF l.clock = 0 THEN None ELSE <<l.clock>>
    IN  [kind |-> "behaviour",
         linesRead |-> Len(lines),
         actions |-> Len(lines),
         topCmds |-> Top(Tally(Matches(lines, LAMBDA l : l.cmd)), 8),
         hourHist |-> Top(Tally(Matches(lines, LAMBDA l : l.hour)), 24),
         bursts |-> Top(Tally(Matches(lines, Minute)), 5),
         newShapes |-> Cardinality({s \in DOMAIN shapes : shapes[s] = 1}),
         topShapes |-> Top(shapes, 6)]

\* Audit rows: [source, rule, failed, lat, conf], lat and conf -1 if absent.
AnalyzeAuditRows(rows) ==
    LET lats == Latencies([i \in DOMAIN rows |-> rows[i].lat])
        rated == {i \in DOMAIN rows : rows[i].conf >= 0}
    IN  [kind |-> "audit",
         total |-> Len(rows),
         bySource |-> Top(Tally([i \in DOMAIN rows |-> rows[i].source]), 6),
         topRules |-> Top(Tally(Matches(rows, LAMBDA r : r.rule)), 6),
         errRows |-> Count(rows, LAMBDA r : r.failed),
         p50 |-> percentile(lats, 50),
         p95 |-> percentile(lats, 95),
         confLow |-> Cardinality({i \in rated : rows[i].conf < 60}),
         confAvg |-> <<MapThenSumSet(LAMBDA i : rows[i].conf, rated), Cardinality(rated)>>]

\* logwatch.Analyze: newlines at the end are cut, then the window; an empty
\* text still splits into one line.
TailOf(log, n) ==
    LET used == {i \in DOMAIN log : ~log[i].blank}
    IN  IF used = {} THEN <<BlankLine>> ELSE LastN(SubSeq(log, 1, Max(used)), n)

Analyze(log, n) ==
    LET all == TailOf(log, n)
        lines == Selected(all, LAMBDA l : ~l.blank)
        errs == Selected(lines, LAMBDA l : l.errorish)
    IN  {[kind |-> "analyze",
          linesRead |-> Len(all),
          errorLines |-> Len(errs),
          top |-> t,
          topErrors |-> e] :
            t \in TopN(Tally(Matches(lines, normalize)), 5),
            e \in TopN(Tally(Matches(errs, normalize)), 5)}
=============================================================================
