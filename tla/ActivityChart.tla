---------------------------- MODULE ActivityChart ----------------------------
(* The chart of activity, src/cyborg/drawActivityChart.go, drawn from the   *)
(* report that the collector makes of its history (ross.go:234-252). Jumps  *)
(* and docks are drawn alike; the model has one of them.                    *)
EXTENDS TimeVisitStatCollector, FiniteSetsExt

CONSTANTS
  SecondsPerDay,  \* makeDayTicks has 24 * 60 * 60
  Hour,           \* makeDayTicks has 3600
  ReportBound,    \* model bound: frames in a report
  Nows            \* the time frames reports are made in

ASSUME ChartAssumption ==
  /\ SecondsPerDay \in Nat \ {0} /\ Hour \in Nat \ {0}
  /\ ReportBound \in Nat
  /\ Nows \subseteq Nat  \* time.Now() is after 1970

\* getActivityStat: the last frames, the newest first.
getActivityStat(visits, now, historySize) ==
  [i \in 1 .. historySize |->
     [time |-> (now - i + 1) * Timeframe, count |-> CountAt(visits, now - i + 1)]]

\* s[n:]
From(s, n) == SubSeq(s, n + 1, Len(s))

\* The midnights from min on and before max, and the ends of the axis.
makeDayTicks(stat) ==
  IF stat = <<>> THEN <<>> ELSE
  LET times == {stat[i].time : i \in DOMAIN stat}
      first == (Min(times) + SecondsPerDay - 1) \div SecondsPerDay
      days == {d \in first .. Max(times) : d * SecondsPerDay < Max(times)}
  IN  (IF Min(times) < first * SecondsPerDay THEN <<Min(times)>> ELSE <<>>)
        \o [i \in 1 .. Cardinality(days) |-> (first + i - 1) * SecondsPerDay]
        \o <<Max(times) + Hour>>

makeGridLines(ticks) ==
  IF Len(ticks) < 3 THEN <<>> ELSE SubSeq(ticks, 2, Len(ticks) - 1)

makeJumpsDocksSeries(stat) ==
  [times |-> [i \in DOMAIN stat |-> stat[i].time],
   jumps |-> [i \in DOMAIN stat |-> stat[i].count]]

\* A mutant of DrawChart: the axis is made of the report.
DrawChartOfAll(stat) ==
  LET ticks == makeDayTicks(stat) IN
  [ticks |-> ticks, gridLines |-> makeGridLines(ticks),
   series |-> makeJumpsDocksSeries(From(stat, 1))]

\* The hour that has just begun is left out, and one more of the axis, which is drawn
\* an hour too long.
DrawChart(stat) ==
  LET ticks == makeDayTicks(From(stat, 2)) IN
  [ticks |-> ticks, gridLines |-> makeGridLines(ticks),
   series |-> makeJumpsDocksSeries(From(stat, 1))]

-----------------------------------------------------------------------------

(* The chart shows what was noted: while nothing was noted later than now,  *)
(* and as far back as the history goes, each frame but the one that has     *)
(* just begun with all its visits. The axis goes on to the newest of them,  *)
(* and its lines are the midnights strictly inside it, each once and in     *)
(* order, with one exception: a midnight that the last hour of the axis     *)
(* begins with has no line, since makeDayTicks stops before the newest      *)
(* frame it is given and then adds an hour (drawActivityChart.go:80-91,     *)
(* 55-124, 184-193). So it is drawn for an hour each day.                   *)
ChartShowsVisits ==
  \A now \in Nows : \A size \in 3 .. Min({now, ReportBound}) :
    LET chart == DrawChart(getActivityStat(Visits, now, size))
        ticks == chart.ticks
        lines == {chart.gridLines[i] : i \in DOMAIN chart.gridLines}
    IN  /\ \A i \in 1 .. Len(ticks) - 1 : ticks[i] < ticks[i + 1]
        /\ ticks[Len(ticks)] = (now - 1) * Timeframe
        /\ lines = {t \in ticks[1] + 1 .. ticks[Len(ticks)] - 1 : t % SecondsPerDay = 0}
                     \ {ticks[Len(ticks)] - Hour}
        /\ (size <= MaxMarks /\ \A m \in Marks : noted[m] > 0 => m <= now) =>
             \A m \in now - size + 1 .. now - 1 :
               \E i \in DOMAIN chart.series.times :
                 /\ chart.series.times[i] = m * Timeframe
                 /\ m \in Marks => chart.series.jumps[i] = noted[m]
=============================================================================
