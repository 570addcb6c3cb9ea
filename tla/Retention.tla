----------------------------- MODULE Retention -----------------------------
(***************************************************************************)
(* The tiers of src/storage.rs and src/process_storage.rs: the writer      *)
(* takes batches from the channel in order, inserts each one as raw rows   *)
(* and, when maintenance is due, folds raw rows into one-minute rollups    *)
(* and those into 15-minute rollups behind two persisted watermarks, and   *)
(* deletes what has expired from each tier.  The metric tables and the     *)
(* process tables have their own tiers, watermarks and retention; both are *)
(* maintained in one transaction, by two copies of the same passes.        *)
(*                                                                         *)
(* One series and one process identity are modelled: rollups of different  *)
(* ones never meet.  A sample is its time stamp, and a rollup row is the   *)
(* set of samples it aggregates, of which its count, extremes and sum are  *)
(* functions; a bucket with no row is mapped to the empty set.             *)
(***************************************************************************)
EXTENDS Integers, Sequences, FiniteSets

CONSTANTS
    MinuteWidth, QuarterWidth,      \* bucket widths, in ticks of the clock
    Grace,                          \* late_arrival_grace_seconds
    MetricKeep, ProcessKeep,        \* RetentionConfig, ProcessConfig: retention by tier
    ProcessInterval,                \* ticks between two process snapshots
    RollupBatch,                    \* rollup_batch_buckets
    DeleteBatch,                    \* delete_batch_rows
    Capacity,                       \* channel_capacity
    MaxDelay,   \* bound: how long a batch waits in the channel before it is inserted
    MaxTime     \* bound: the clock stops here

Tier == {"raw", "minute", "quarter"}

\* AppConfig::validate: the retentions are positive and do not decrease from tier to tier.
ValidRetention(keep) ==
    /\ keep \in [Tier -> Nat \ {0}]
    /\ keep["raw"] <= keep["minute"] /\ keep["minute"] <= keep["quarter"]

ASSUME RetentionAssumption ==
    /\ MinuteWidth \in Nat \ {0}
    /\ QuarterWidth \in Nat \ {0} /\ QuarterWidth % MinuteWidth = 0
    /\ Grace \in Nat
    /\ ValidRetention(MetricKeep) /\ ValidRetention(ProcessKeep)
    /\ ProcessInterval \in Nat \ {0}
    /\ RollupBatch \in Nat \ {0} /\ DeleteBatch \in Nat \ {0}
    /\ Capacity \in Nat \ {0}
    /\ MaxDelay \in Nat /\ MaxTime \in Nat

VARIABLES
    now,            \* the wall clock, Utc::now()
    sampled,        \* the sampler has produced this tick's batch
    queue,          \* the channel: the time stamps of the waiting batches
    writer,         \* "receiving" or, after an insert, "maintaining"
    metrics,        \* metric_samples, metric_rollups and their watermarks
    processes,      \* process_samples, process_metric_rollups and theirs
    inserted        \* history: the stamp of every batch ever committed

vars == <<now, sampled, queue, writer, metrics, processes, inserted>>
tables == <<metrics, processes, inserted>>

Times == 0 .. MaxTime
NoMark == -1

floor_bucket(t, width) == (t \div width) * width

MinuteStarts == {b \in Times : floor_bucket(b, MinuteWidth) = b}
QuarterStarts == {b \in Times : floor_bucket(b, QuarterWidth) = b}
InBucket(t, b, width) == b <= t /\ t < b + width

Earliest(S) == CHOOSE x \in S : \A y \in S : x <= y
Lesser(a, b) == IF a <= b THEN a ELSE b

\* The batches that hold a process snapshot.
HasSnapshot(t) == t % ProcessInterval = 0

\* raw rows; the two rollup tiers, by bucket start; the next bucket of each.
NoRows ==
    [raw |-> {},
     minute |-> [b \in MinuteStarts |-> {}], quarter |-> [b \in QuarterStarts |-> {}],
     minuteMark |-> NoMark, quarterMark |-> NoMark]

Init ==
    /\ now = 0
    /\ sampled = FALSE
    /\ queue = <<>>
    /\ writer = "receiving"
    /\ metrics = NoRows
    /\ processes = NoRows
    /\ inserted = {}

----------------------------------------------------------------------------
(* The clock, the sampler and the insert. *)

\* Time passes, but no waiting batch grows older than MaxDelay.
Tick ==
    /\ now < MaxTime
    /\ queue # <<>> => now - Head(queue) < MaxDelay
    /\ now' = now + 1
    /\ sampled' = FALSE
    /\ UNCHANGED <<queue, writer, tables>>

\* A cycle stamps its batch when it starts and sends it if the channel has room.
SendBatch ==
    /\ ~sampled
    /\ Len(queue) < Capacity
    /\ queue' = Append(queue, now)
    /\ sampled' = TRUE
    /\ UNCHANGED <<now, writer, tables>>

WithRaw(s, t) == [s EXCEPT !.raw = @ \cup {t}]

InsertBatch ==
    /\ writer = "receiving"
    /\ queue # <<>>
    /\ queue' = Tail(queue)
    /\ metrics' = WithRaw(metrics, Head(queue))
    /\ processes' = IF HasSnapshot(Head(queue)) THEN WithRaw(processes, Head(queue))
                    ELSE processes
    /\ inserted' = inserted \cup {Head(queue)}
    /\ writer' = "maintaining"
    /\ UNCHANGED <<now, sampled>>

----------------------------------------------------------------------------
(* The passes of maintenance over the tables s of the metrics or the processes. *)

\* initial_watermark: the persisted one, or the bucket of the earliest row.
InitialMark(mark, starts, width) ==
    IF mark # NoMark THEN mark
    ELSE IF starts = {} THEN NoMark
    ELSE floor_bucket(Earliest(starts), width)

\* Slip: a pass does not stop at the cutoff.
Advance_PastCutoff(cursor, cutoff, width) ==
    IF cursor >= cutoff THEN cursor ELSE cursor + RollupBatch * width

\* The loop over at most RollupBatch complete buckets: where the cursor stops.
Advance(cursor, cutoff, width) ==
    IF cursor >= cutoff THEN cursor ELSE Lesser(cutoff, cursor + RollupBatch * width)

Rows(rollups) == {b \in DOMAIN rollups : rollups[b] # {}}

\* What the passes return and leave behind: the mark of the next bucket, persisted or not.
MinuteWatermark(s) == InitialMark(s.minuteMark, s.raw, MinuteWidth)
QuarterWatermark(s) ==
    IF MinuteWatermark(s) = NoMark THEN s.quarterMark
    ELSE InitialMark(s.quarterMark, Rows(s.minute), QuarterWidth)

\* Slip: the bucket that is still filling is rolled up too.
MinuteCutoff_NoGrace == floor_bucket(now, MinuteWidth) + MinuteWidth

MinuteCutoff == floor_bucket(now - Grace, MinuteWidth)
QuarterCutoff(s) ==
    Lesser(floor_bucket(now - Grace, QuarterWidth),
           floor_bucket(MinuteWatermark(s), QuarterWidth))

\* Every bucket from cursor to end gets the row of its samples, if it has any.
RolledUp(rollups, cursor, end, samples) ==
    [b \in DOMAIN rollups |->
        IF cursor <= b /\ b < end /\ samples[b] # {} THEN samples[b] ELSE rollups[b]]

\* A watermark is written only when the loop has advanced it.
roll_up_minutes(s) ==
    LET cursor == MinuteWatermark(s)
        end == Advance(cursor, MinuteCutoff, MinuteWidth)
        samples == [b \in MinuteStarts |-> {t \in s.raw : InBucket(t, b, MinuteWidth)}]
    IN  IF cursor = NoMark \/ end = cursor THEN s
        ELSE [s EXCEPT !.minute = RolledUp(@, cursor, end, samples), !.minuteMark = end]

roll_up_quarters(s) ==
    LET cursor == QuarterWatermark(s)
        end == Advance(cursor, QuarterCutoff(s), QuarterWidth)
        samples == [q \in QuarterStarts |->
            UNION {s.minute[b] : b \in {b \in MinuteStarts : InBucket(b, q, QuarterWidth)}}]
    IN  IF MinuteWatermark(s) = NoMark \/ cursor = NoMark \/ end = cursor THEN s
        ELSE [s EXCEPT !.quarter = RolledUp(@, cursor, end, samples), !.quarterMark = end]

\* Slip: the newest rows go first.
Oldest_Newest(S, n) == {x \in S : Cardinality({y \in S : y > x}) < n}

\* DELETE ... ORDER BY time LIMIT n
Oldest(S, n) == {x \in S : Cardinality({y \in S : y < x}) < n}

WithoutOldest(rollups, expired) ==
    [b \in DOMAIN rollups |-> IF b \in Oldest(expired, DeleteBatch) THEN {} ELSE rollups[b]]

\* Slips: the age alone decides.
RawExpired_ByAge(s, keep) == {t \in s.raw : t < now - keep["raw"]}
MinutesExpired_ByAge(s, keep) == {b \in Rows(s.minute) : b < now - keep["minute"]}

\* What is past its retention and, for the two lower tiers, behind the watermark of the
\* tier above.
RawExpired(s, keep) ==
    IF MinuteWatermark(s) = NoMark THEN {}
    ELSE {t \in s.raw : t < Lesser(now - keep["raw"], MinuteWatermark(s))}
MinutesExpired(s, keep) ==
    IF QuarterWatermark(s) = NoMark THEN {}
    ELSE {b \in Rows(s.minute) : b < Lesser(now - keep["minute"], QuarterWatermark(s))}
QuartersExpired(s, keep) == {q \in Rows(s.quarter) : q < now - keep["quarter"]}

\* Every deletion is limited to a number of rows, the oldest.
WithoutExpired(s, keep) ==
    [s EXCEPT !.raw = @ \ Oldest(RawExpired(s, keep), DeleteBatch),
              !.minute = WithoutOldest(@, MinutesExpired(s, keep)),
              !.quarter = WithoutOldest(@, QuartersExpired(s, keep))]

Maintained(s, keep) == WithoutExpired(roll_up_quarters(roll_up_minutes(s)), keep)

MetricsMaintained == Maintained(metrics, MetricKeep)
ProcessesMaintained == Maintained(processes, ProcessKeep)

\* One transaction over all the tables.
RunMaintenance ==
    /\ writer = "maintaining"
    /\ metrics' = MetricsMaintained
    /\ processes' = ProcessesMaintained
    /\ writer' = "receiving"
    /\ UNCHANGED <<now, sampled, queue, inserted>>

\* Maintenance is not due yet, or failed and was rolled back: collection goes on.
SkipMaintenance ==
    /\ writer = "maintaining"
    /\ writer' = "receiving"
    /\ UNCHANGED <<now, sampled, queue, tables>>

\* The process dies and is started again: what waited in the channel is gone.
Restart ==
    /\ queue' = <<>>
    /\ writer' = "receiving"
    /\ UNCHANGED <<now, sampled, tables>>

Next ==
    \/ Tick
    \/ SendBatch
    \/ InsertBatch
    \/ RunMaintenance
    \/ SkipMaintenance
    \/ Restart

Spec == Init /\ [][Next]_vars

----------------------------------------------------------------------------
(* Properties. *)

Tables ==
    [raw : SUBSET Times,
     minute : [MinuteStarts -> SUBSET Times], quarter : [QuarterStarts -> SUBSET Times],
     minuteMark : Times \cup {NoMark}, quarterMark : Times \cup {NoMark}]

TypeOK ==
    /\ now \in Times
    /\ sampled \in BOOLEAN
    /\ queue \in Seq(Times)
    /\ Len(queue) <= Capacity
    /\ writer \in {"receiving", "maintaining"}
    /\ metrics \in Tables
    /\ processes \in Tables
    /\ inserted \subseteq Times

Snapshots == {t \in inserted : HasSnapshot(t)}

\* Every one of the committed samples is still raw, or in its minute row, or in its
\* quarter-hour row, until the last retention has passed.
KeptUntilExpired(s, samples, keep) ==
    \A t \in samples :
        \/ t \in s.raw
        \/ \E b \in MinuteStarts : t \in s.minute[b]
        \/ \E q \in QuarterStarts : t \in s.quarter[q]
        \/ floor_bucket(t, QuarterWidth) < now - keep["quarter"]

\* domain-models.md: data is never deleted from a tier before the tier above has processed
\* it, neither a metric's nor a process's.
NothingDeletedUnprocessed ==
    /\ KeptUntilExpired(metrics, inserted, MetricKeep)
    /\ KeptUntilExpired(processes, Snapshots, ProcessKeep)

CompleteRows(rollups, width, samples) ==
    \A b \in Rows(rollups) : rollups[b] = {t \in samples : InBucket(t, b, width)}

\* A rollup row aggregates all the samples ever committed in its bucket and no other,
\* through batched passes, late batches, failed passes and restarts; and it is final.
RollupsAreComplete ==
    /\ CompleteRows(metrics.minute, MinuteWidth, inserted)
    /\ CompleteRows(metrics.quarter, QuarterWidth, inserted)
    /\ CompleteRows(processes.minute, MinuteWidth, Snapshots)
    /\ CompleteRows(processes.quarter, QuarterWidth, Snapshots)
=============================================================================
