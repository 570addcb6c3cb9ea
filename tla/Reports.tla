------------------------------ MODULE Reports ------------------------------
(***************************************************************************)
(* What a report or a dashboard snapshot reads from the tiers, from        *)
(* src/report_storage.rs.  The metric part chooses a resolution with one   *)
(* query and reads the series with the next.  The process part chooses a   *)
(* tier and reads the summaries, then chooses a tier again and reads the   *)
(* charts.  There is no transaction around any two of these queries, so    *)
(* the writer may commit a batch or a maintenance pass in between.         *)
(*                                                                         *)
(* The operators take the tables as a parameter, and those that both       *)
(* choose and read take them twice: as they were at the choice (chosenIn)  *)
(* and as they are when the rows are read (s).  A property gives them the  *)
(* tables before a step, after it, or one of each.  The reader leaves the  *)
(* tables alone.                                                           *)
(***************************************************************************)
EXTENDS Retention

CONSTANTS
    RawSpan, MinuteSpan,    \* TWO_HOURS_MS, ONE_DAY_MS
    MaxChartPoints,         \* MAX_CHART_POINTS
    MaxProcessPoints,       \* MAX_PROCESS_CHART_POINTS
    MinProcessBucket,       \* MIN_PROCESS_BUCKET_MS
    Durations, Ages         \* bound: the lengths of the ranges, and how long ago they ended

ASSUME ReportsAssumption ==
    /\ RawSpan \in Nat \ {0} /\ MinuteSpan \in Nat /\ RawSpan <= MinuteSpan
    /\ MaxChartPoints \in Nat \ {0} /\ MaxProcessPoints \in Nat \ {0}
    /\ MinProcessBucket \in Nat \ {0}
    /\ Durations \subseteq Nat \ {0} /\ Ages \subseteq Nat

\* Half-open ranges that end now or ended before; some begin before the first sample.
ReportRange == {[from |-> now - age - d, to |-> now - age] : d \in Durations, age \in Ages}

Duration(range) == range.to - range.from

----------------------------------------------------------------------------
(* The rows of a tier. *)

\* The width of a tier's buckets: the ReportResolution in ticks.
Width(tier) ==
    IF tier = "raw" THEN 1 ELSE IF tier = "minute" THEN MinuteWidth ELSE QuarterWidth

\* The times of the rows of a tier, and the samples one of them stands for.
RowTimes(s, tier) ==
    IF tier = "raw" THEN s.raw ELSE IF tier = "minute" THEN Rows(s.minute) ELSE Rows(s.quarter)
SamplesAt(s, tier, b) ==
    IF tier = "raw" THEN {b} ELSE IF tier = "minute" THEN s.minute[b] ELSE s.quarter[b]

InRange(range, b) == range.from <= b /\ b < range.to
RowsInRange(s, tier, range) == {b \in RowTimes(s, tier) : InRange(range, b)}

----------------------------------------------------------------------------
(* The metric series. *)

preferred_resolution(range) ==
    IF Duration(range) <= RawSpan THEN "raw"
    ELSE IF Duration(range) <= MinuteSpan THEN "minute"
    ELSE "quarter"

Candidates(range) ==
    CASE preferred_resolution(range) = "raw"     -> <<"raw", "minute", "quarter">>
      [] preferred_resolution(range) = "minute"  -> <<"minute", "quarter", "raw">>
      [] preferred_resolution(range) = "quarter" -> <<"quarter", "minute", "raw">>

has_metric_data(s, range, tier) == RowsInRange(s, tier, range) # {}

\* The first candidate with a row in the range, else the preferred resolution.
select_resolution(s, range) ==
    LET withData == {i \in 1 .. 3 : has_metric_data(s, range, Candidates(range)[i])}
    IN  IF withData = {} THEN preferred_resolution(range)
        ELSE Candidates(range)[Earliest(withData)]

DividedUp(a, b) == (a + b - 1) \div b

chart_bucket_span(range, tier) ==
    Width(tier) * DividedUp(DividedUp(Duration(range), MaxChartPoints), Width(tier))

\* The points of a chart: the samples of the rows in each report bucket.
Points(s, tier, range, span) ==
    LET Bucket(b) == ((b - range.from) \div span) * span + range.from
        rows == RowsInRange(s, tier, range)
    IN  [p \in {Bucket(b) : b \in rows} |->
            UNION {SamplesAt(s, tier, b) : b \in {b \in rows : Bucket(b) = p}}]

query_series(s, range, tier) == Points(s, tier, range, chart_bucket_span(range, tier))

----------------------------------------------------------------------------
(* The process summaries and charts. *)

\* The oldest row of a tier before the end of the range is not after its beginning.
ReachesBack(s, tier, range) ==
    \E b \in RowTimes(s, tier) : b < range.to /\ b <= range.from

\* The finest tier whose rows reach back to the beginning of the range, else the raw rows.
select_process_tier(s, range) ==
    IF ReachesBack(s, "raw", range) THEN "raw"
    ELSE IF ReachesBack(s, "minute", range) THEN "minute"
    ELSE IF ReachesBack(s, "quarter", range) THEN "quarter"
    ELSE "raw"

\* A summary aggregates the raw rows or the rollup rows that begin in the range.
query_rollup_processes(s, range, tier) ==
    UNION {SamplesAt(s, tier, b) : b \in RowsInRange(s, tier, range)}
query_processes(chosenIn, s, range) ==
    LET tier == select_process_tier(chosenIn, range)
    IN  IF tier = "raw" THEN RowsInRange(s, "raw", range)
        ELSE query_rollup_processes(s, range, tier)

\* A tick is a whole number of seconds, to which the code rounds up.
process_chart_bucket_span(range) ==
    LET needed == DividedUp(Duration(range), MaxProcessPoints)
    IN  IF needed > MinProcessBucket THEN needed ELSE MinProcessBucket

\* The tier is chosen a second time: query_processes does not pass its own on.
query_process_series(chosenIn, s, range) ==
    LET tier == select_process_tier(chosenIn, range)
    IN  Points(s, tier, range, process_chart_bucket_span(range))

----------------------------------------------------------------------------
(* Properties. *)

Shown(points) == UNION {points[p] : p \in DOMAIN points}

\* The row of a tier that stands, or would stand, for a sample.
RowOf(tier, t) == floor_bucket(t, Width(tier))
SamplesInRange(samples, tier, range) == {t \in samples : InRange(range, RowOf(tier, t))}

\* The sample is too recent for the tier.
NotYetRolledUp(s, tier, t) ==
    \/ tier = "minute" /\ (s.minuteMark = NoMark \/ t >= s.minuteMark)
    \/ tier = "quarter" /\ (s.quarterMark = NoMark \/ t >= s.quarterMark)

Expired(keep, tier, t) == RowOf(tier, t) < now - keep[tier]

\* The resolution is chosen before the step and the series is read after it.
MetricReportIsComplete(range) ==
    LET tier == select_resolution(metrics, range)
        points == query_series(metrics', range, tier)
        shown == Shown(points)
    IN  /\ \A t \in SamplesInRange(inserted, tier, range) :
              t \in shown \/ NotYetRolledUp(metrics', tier, t) \/ Expired(MetricKeep, tier, t)
        /\ shown \subseteq SamplesInRange(inserted', tier, range)
        /\ Cardinality(DOMAIN points) <= MaxChartPoints

\* Whatever is committed between the choice of the resolution and the reading of the
\* series, a report shows every sample whose row begins in its range, except those too
\* recent for the resolution and those past the retention of its tier; and it shows nothing
\* else, in no more points than a chart may have.
MetricReportsAreComplete ==
    [][\A range \in ReportRange : MetricReportIsComplete(range)]_tables

\* What is committed in the middle of a process report.  The first conjunct is about the
\* summaries alone; the second about a commit between a choice and its rows, of the summaries
\* or of the charts; the third about a commit between the summaries and the charts.
ProcessReportIsComplete(range) ==
    LET tier == select_process_tier(processes, range)
        charted == select_process_tier(processes', range)
        summarised == query_processes(processes, processes, range)
        late == query_process_series(processes, processes', range)
        points == query_process_series(processes', processes', range)
        shown == Shown(points)
    IN  /\ (\E r \in Tier : ReachesBack(processes, r, range)) =>
              \A t \in SamplesInRange(Snapshots, tier, range) :
                  t \in summarised \/ NotYetRolledUp(processes, tier, t)
        /\ \A t \in summarised :
              \/ t \in query_processes(processes, processes', range) /\ t \in Shown(late)
              \/ Expired(ProcessKeep, tier, t)
        /\ \A t \in SamplesInRange(summarised, charted, range) :
              \/ t \in shown
              \/ Expired(ProcessKeep, charted, t)
              \/ charted # tier /\ NotYetRolledUp(processes', charted, t)
        /\ Cardinality(DOMAIN late) <= MaxProcessPoints
        /\ Cardinality(DOMAIN points) <= MaxProcessPoints

\* domain-models.md: process tiers are selected from retained coverage.  If some tier
\* reaches back to the beginning of the range, the summaries miss no process sample of it
\* but those too recent for the tier chosen.  A commit between a choice and its rows takes
\* away nothing but what it expires.  A commit between the summaries and the charts may make
\* the charts choose another tier: they then show every summarised sample whose row there
\* begins in the range, but what has expired and what is too recent for that tier; while
\* the tier stays the same, nothing is too recent.
ProcessReportsAreComplete ==
    [][\A range \in ReportRange : ProcessReportIsComplete(range)]_tables
=============================================================================
