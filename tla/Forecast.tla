------------------------------ MODULE Forecast ------------------------------
(***************************************************************************)
(* The predictive tool (internal/opsforecast/forecast.go, internal/tools/  *)
(* opsforecasttool.go) beside the reports of LogStats, over a log that     *)
(* grows: what analyze_log, ops_forecast, /analyze and /audit answer.      *)
(*                                                                         *)
(* Floating point is replaced by exact fractions: a slope is num / den, a  *)
(* smoothed value is a number of units of 1 / 5^(k - 1) for k buckets, and *)
(* r-squared is 1 - ssr / sst with both sums scaled alike.                 *)
(***************************************************************************)
EXTENDS LogStats

CONSTANTS
    Lines,         \* lines of the log
    AuditRows,     \* rows of the audit trail
    Windows,       \* numbers of lines asked for, 0 for the default
    DefaultLines,  \* MaxLines of a call that gives none
    CapLines,      \* the largest MaxLines
    Thresholds,    \* thresholds of ops_forecast
    Minutes,       \* the width of a bucket
    Horizon,       \* 24 hours in buckets
    DurationMax,   \* the largest time.Duration in buckets
    ManyBuckets,   \* buckets from which on their number counts in full
    MaxLog         \* bound on the lines and rows

ASSUME LinesAssumption == Lines \subseteq {BlankLine} \cup LineType
ASSUME WindowsAssumption ==
    Windows \subseteq Nat /\ DefaultLines \in Nat \ {0} /\ CapLines \in Nat \ {0}
ASSUME ForecastAssumption ==
    /\ Minutes \in Nat \ {0} /\ Thresholds \subseteq Nat \ {0}
    /\ ManyBuckets \in Nat /\ 3 < ManyBuckets
    /\ Horizon \in Nat /\ DurationMax \in Nat /\ Horizon < DurationMax

VARIABLES
    audit,   \* the data are the audit trail's rows, not a log's lines
    log,     \* the lines, or rows, so far
    answer   \* what the last tool call returned for how many lines, or <<>>

toolVars == <<audit, log, answer>>

-----------------------------------------------------------------------------
(* Buckets.                                                                *)

\* The forecast's patterns also take the status of "METHOD path NNN", and
\* seconds whatever follows them.
statusCodeOf(l) == IF l.named # 0 THEN l.named ELSE l.bare
latencyMS(l) ==
    CASE l.unit = "ms" -> l.lat
      [] l.unit = "s" -> l.lat * Second
      [] OTHER -> -1

\* The bucket's p95: the index is rounded up.
BucketP95(lats) ==
    IF lats = <<>> THEN 0 ELSE lats[(95 * (Len(lats) - 1) + 99) \div 100 + 1]

\* The window of BuildBuckets.  Split leaves an empty piece after the last
\* newline, and it takes a place.
ForecastWindow(file, n) == Selected(LastN(Append(file, BlankLine), n), LAMBDA l : ~l.blank)

\* BuildBuckets, in the order of time.  A window with no line has no bucket.
BuildBuckets(file, n) ==
    LET timed == Selected(ForecastWindow(file, n), LAMBDA l : l.clock # 0)
        slots == {timed[i].clock \div Minutes : i \in DOMAIN timed}
        bucket(s) ==
            LET mine == Selected(timed, LAMBDA l : l.clock \div Minutes = s)
            IN  [start |-> s,
                 count |-> Len(mine),
                 errs |-> Count(mine, LAMBDA l : statusCodeOf(l) >= 500),
                 p95 |-> BucketP95(Latencies([i \in DOMAIN mine |-> latencyMS(mine[i])]))]
    IN  Ranked({bucket(s) : s \in slots}, LAMBDA a, b : a.start < b.start)

Metrics == {"req_rate", "err_rate", "latency_p95"}

Series(metric, buckets) ==
    [i \in DOMAIN buckets |->
        CASE metric = "req_rate" -> buckets[i].count
          [] metric = "err_rate" -> buckets[i].errs
          [] metric = "latency_p95" -> buckets[i].p95]

-----------------------------------------------------------------------------
(* The fit.                                                                *)

\* The sum of a sequence, added up from its first element.
Total(z) ==
    LET sum[i \in 0..Len(z)] == IF i = 0 THEN 0 ELSE sum[i - 1] + z[i]
    IN  sum[Len(z)]

SumOver(y, F(_)) == Total([i \in DOMAIN y |-> F(i)])

\* Mutant: x counts from 1 in one of the sums.
SumXYFromOne(y) == SumOver(y, LAMBDA i : i * y[i])

\* sum of x y, with x from 0.
SumXY(y) == SumOver(y, LAMBDA i : (i - 1) * y[i])

SumX(y) == SumOver(y, LAMBDA i : i - 1)
SumXX(y) == SumOver(y, LAMBDA i : (i - 1) * (i - 1))
SumY(y) == SumOver(y, LAMBDA i : y[i])

\* leastSquares: the slope is num / den, and the residual at i is
\* Residual(y, i) / (den * Len(y)).
SlopeDen(y) == Len(y) * SumXX(y) - SumX(y) * SumX(y)
SlopeNum(y) == Len(y) * SumXY(y) - SumX(y) * SumY(y)
Residual(y, i) ==
    LET n == Len(y) num == SlopeNum(y) den == SlopeDen(y)
    IN  y[i] * den * n - (num * (i - 1) * n + SumY(y) * den - num * SumX(y))

\* leastSquares: r-squared as [part, of]; a flat line fits perfectly.
RSquared(y) ==
    LET ssr == SumOver(y, LAMBDA i : Residual(y, i) * Residual(y, i))
        sst == SumOver(y, LAMBDA i : (y[i] * Len(y) - SumY(y)) * (y[i] * Len(y) - SumY(y)))
               * SlopeDen(y) * SlopeDen(y)
    IN  IF sst = 0 THEN [part |-> 1, of |-> 1] ELSE [part |-> sst - ssr, of |-> sst]

\* ewma with alpha 2/5, in units of 1 / 5^(Len(y) - 1).
PowerOf5[k \in Nat] == IF k = 0 THEN 1 ELSE 5 * PowerOf5[k - 1]
Ewma(y) ==
    LET e[i \in 0..(Len(y) - 1)] ==
            IF i = 0 THEN y[1] ELSE 2 * y[i + 1] * PowerOf5[i - 1] + 3 * e[i - 1]
    IN  e[Len(y) - 1]
EwmaUnit(y) == PowerOf5[Len(y) - 1]

-----------------------------------------------------------------------------
(* ForecastMetric.                                                         *)

Absolute(x) == IF x < 0 THEN -x ELSE x

\* Less than two percent of the metric's own size per bucket.
Flat(y) == 50 * Absolute(SlopeNum(y)) * EwmaUnit(y) < SlopeDen(y) * Max({Ewma(y), EwmaUnit(y)})

LevelOf(y) ==
    LET r2 == RSquared(y)
    IN  CASE Flat(y) -> "stable"
          [] ~Flat(y) /\ 10 * r2.part < r2.of -> "volatile"
          [] OTHER -> IF SlopeNum(y) > 0 THEN "rising" ELSE "falling"

Confidence(y) ==
    LET r2 == RSquared(y)
        size == IF Len(y) >= ManyBuckets THEN 30 ELSE 3 * Len(y)
        agrees == IF (Last(y) - y[1]) * SlopeNum(y) >= 0 THEN 20 ELSE 0
        conf == size + (50 * Max({0, r2.part})) \div r2.of + agrees
    IN  Max({0, Min({100, conf})})

\* Mutant: the projection starts from the last value.
CurrentLast(y) == Last(y) * EwmaUnit(y)

\* The level the projection starts from, in the unit of Ewma.
Current(y) == Ewma(y)

\* The buckets until the threshold is crossed, as [num, den]; [0, 1] if it is
\* reached, and also if it never will be: then the field keeps its zero value.
Eta(y, t) ==
    IF SlopeNum(y) > 0 /\ t * EwmaUnit(y) > Current(y)
    THEN [num |-> (t * EwmaUnit(y) - Current(y)) * SlopeDen(y), den |-> SlopeNum(y) * EwmaUnit(y)]
    ELSE [num |-> 0, den |-> 1]

\* Is the crossing within 24 hours?  A number of buckets that no Duration can
\* hold is converted to one all the same, and may come out negative.
HitIn24h(y, t) ==
    LET eta == Eta(y, t)
    IN  CASE eta.num > DurationMax * eta.den -> BOOLEAN
          [] eta.num > 0 /\ eta.num <= DurationMax * eta.den -> {eta.num <= Horizon * eta.den}
          [] OTHER -> {Current(y) >= t * EwmaUnit(y)}

\* String: what is said of the threshold.
Wording(eta, hit) ==
    CASE eta.num = 0 -> "already"
      [] eta.num > 0 /\ hit -> "crosses"
      [] OTHER -> "beyond"

\* recommend.
Recommend(metric, y, eta, hit) ==
    CASE eta.num = 0 /\ hit -> "page now"
      [] ~hit -> "nothing"
      [] hit /\ eta.num > 0 /\ Confidence(y) < 40 -> "watch"
      [] OTHER -> IF LevelOf(y) = "rising" THEN "prepare" ELSE "nothing"

\* ForecastMetric, String and recommend; an error below three buckets.
ForecastMetric(metric, buckets, t) ==
    LET y == Series(metric, buckets)
    IN  IF Len(buckets) < 3 THEN {[kind |-> "error"]}
        ELSE {[kind |-> "forecast", metric |-> metric, series |-> y, threshold |-> t,
               level |-> LevelOf(y), confidence |-> Confidence(y),
               eta |-> Eta(y, t), hit |-> hit,
               says |-> Wording(Eta(y, t), hit),
               advice |-> Recommend(metric, y, Eta(y, t), hit)] : hit \in HitIn24h(y, t)}

-----------------------------------------------------------------------------
(* The tools.                                                              *)

ToolsInit == audit \in BOOLEAN /\ log = <<>> /\ answer = <<>>

\* A line or a row is written.
Write(x) ==
    /\ Len(log) < MaxLog
    /\ log' = Append(log, x)
    /\ answer' = <<>>
    /\ UNCHANGED audit

\* optPos and the cap of MaxLines.
LinesWanted(n) == Min({CapLines, IF n > 0 THEN n ELSE DefaultLines})

Answers(S, n) == answer = <<>> /\ \E r \in S : answer' = <<r, n>> /\ UNCHANGED <<audit, log>>

\* /api_perf, /exceptions, /access and /behaviour through analyze_log, and
\* /analyze through logwatch.
APIPerf(n) == Answers(AnalyzeAPIPerf(log, n), n)
Exceptions(n) == Answers({AnalyzeExceptions(log, n)}, n)
Access(n) == Answers({AnalyzeAccess(log, n)}, n)
Behaviour(n) == Answers({AnalyzeBehaviour(log, n)}, n)
AnalyzeTail(n) == Answers(Analyze(log, n), n)

AnalyzeLog(n) ==
    /\ ~audit
    /\ LET lines == LinesWanted(n)
       IN  \/ APIPerf(lines) \/ Exceptions(lines) \/ Access(lines) \/ Behaviour(lines)
           \/ AnalyzeTail(lines)

\* /audit: the last rows, none of which is an answer of its own.
Audit(n) ==
    /\ audit /\ log # <<>>
    /\ LET rows == LinesWanted(n) IN Answers({AnalyzeAuditRows(LastN(log, rows))}, rows)

\* ops_forecast.
OpsForecast(metric, t, n) ==
    /\ ~audit
    /\ LET lines == LinesWanted(n)
       IN  Answers(ForecastMetric(metric, BuildBuckets(log, lines), t), lines)

ToolsNext ==
    \/ \E x \in IF audit THEN AuditRows ELSE Lines : Write(x)
    \/ \E n \in Windows : AnalyzeLog(n) \/ Audit(n)
    \/ \E m \in Metrics, t \in Thresholds, n \in Windows : OpsForecast(m, t, n)

ToolsSpec == ToolsInit /\ [][ToolsNext]_toolVars

-----------------------------------------------------------------------------
(* Properties.                                                             *)

Report == answer[1]
Reports(kinds) == answer # <<>> /\ Report.kind \in kinds

\* The places of the newest non-empty lines, as many as were asked for.
Newest ==
    {i \in DOMAIN log : ~log[i].blank
        /\ Cardinality({j \in DOMAIN log : j > i /\ ~log[j].blank}) < answer[2]}

\* A list names its k most frequent keys, each with its true number.
NamesTop(list, places, Field(_), k) ==
    LET keys == {Field(log[i]) : i \in places} \ {None}
        times(key) == Cardinality({i \in places : Field(log[i]) = key})
        listed == {list[i].key : i \in DOMAIN list}
    IN  /\ listed \subseteq keys /\ Cardinality(listed) = Len(list)
        /\ Len(list) = Min({k, Cardinality(keys)})
        /\ \A i \in DOMAIN list :
            /\ list[i].count = times(list[i].key)
            /\ \A key \in keys \ listed : times(key) <= list[i].count
            /\ i > 1 => list[i].count <= list[i - 1].count

\* The reports of analyze_log are about the newest lines that say anything, as
\* many as were asked for: an empty line or a trailing newline takes no place,
\* the lists of routes and statuses, exceptions and shapes have true numbers and
\* miss no more frequent key, at most half of the latencies are below p50, and
\* p95 is not below it.
ReportsAreExact ==
    /\ Reports({"perf", "exceptions", "access", "behaviour"}) =>
        Report.linesRead = Cardinality(Newest)
    /\ Reports({"perf"}) =>
        LET timed == {i \in Newest : parseLatMS(log[i]) >= 0}
        IN  /\ NamesTop(Report.pathTop, Newest, RouteOf, 8)
            /\ NamesTop(Report.statusTop, Newest, Code, 5)
            /\ Report.p50 <= Report.p95
            /\ 2 * Cardinality({i \in timed : parseLatMS(log[i]) < Report.p50}) <= Cardinality(timed)
    /\ Reports({"exceptions"}) =>
        LET errs == {i \in Newest : log[i].errorish \/ log[i].exceptional}
        IN  /\ NamesTop(Report.top, errs, Normalize, 8)
            /\ errs # {} => Report.recentLast = log[Max(errs)].text
                            /\ Report.recentFirst = log[Min(errs)].text
    /\ Reports({"access"}) => NamesTop(Report.topStatus, Newest, AccessStatus, 6)
    /\ Reports({"behaviour"}) => NamesTop(Report.topShapes, Newest, Normalize, 6)

\* leastSquares finds the line of least squares: the residuals add up to
\* nothing and are orthogonal to time, and r-squared is a share between 0 and 1.
FitIsLeastSquares ==
    Reports({"forecast"}) =>
        LET y == Report.series r2 == RSquared(y)
        IN  /\ SumOver(y, LAMBDA i : Residual(y, i)) = 0
            /\ SumOver(y, LAMBDA i : (i - 1) * Residual(y, i)) = 0
            /\ 0 <= r2.part /\ r2.part <= r2.of

\* Whether the smoothed metric, going on as it does, is at t after b buckets.
Reaches(y, t, b) ==
    Ewma(y) * SlopeDen(y) + b * SlopeNum(y) * EwmaUnit(y) >= t * SlopeDen(y) * EwmaUnit(y)

\* What the tool advises is what the trend says: it pages exactly when the
\* metric has reached the threshold, promises a crossing only if the trend
\* makes one within the horizon, and puts off only what it does not, as far as
\* a Duration can tell.  (That it says "already" of a metric that is below
\* the threshold and not rising is left out: Wording.)
AdviceFollowsTrend ==
    Reports({"forecast"}) =>
        LET y == Report.series
            t == Report.threshold
            representable == Report.eta.num <= DurationMax * Report.eta.den
        IN  /\ Report.advice = "page now" <=> Reaches(y, t, 0)
            /\ Report.says = "already" /\ SlopeNum(y) > 0 => Reaches(y, t, 0)
            /\ representable /\ Report.says = "crosses" => Reaches(y, t, Horizon)
            /\ representable /\ Report.says = "beyond" => ~Reaches(y, t, Horizon)
            /\ Report.advice \in {"watch", "prepare"} => SlopeNum(y) > 0 /\ ~Reaches(y, t, 0)
=============================================================================
