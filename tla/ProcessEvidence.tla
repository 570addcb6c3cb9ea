--------------------------- MODULE ProcessEvidence ---------------------------
(***************************************************************************)
(* Process samples and the process evidence of anomaly events, from        *)
(* src/process_storage.rs.  An event of one dimension copies the processes *)
(* that rank highest in it: those of the newest snapshot when it opens     *)
(* and at each checkpoint, and those of the minutes before it.             *)
(***************************************************************************)
EXTENDS Integers, FiniteSets

CONSTANTS
    FreshFor,       \* 2 * process.interval_seconds
    Prelude,        \* prelude_minutes
    EventTopN,      \* event_top_n
    MaxRows         \* event_evidence_max_rows

ASSUME EvidenceAssumption ==
    /\ FreshFor \in Nat /\ Prelude \in Nat
    /\ EventTopN \in Nat \ {0} /\ MaxRows \in Nat /\ MaxRows >= EventTopN

VARIABLES
    samples,        \* process_samples
    event,          \* the event under observation: its dimension and when it was detected
    evidence        \* its rows of anomaly_event_process_evidence

storage == <<samples, event, evidence>>

Dimensions == {"cpu", "network"}
NoEvent == [dimension |-> "none", detected |-> -1]

EvidenceInit ==
    /\ samples = {}
    /\ event = NoEvent
    /\ evidence = {}

----------------------------------------------------------------------------
\* Slip: the oldest rows come first.
First_Oldest(rows, dimension, n) ==
    {s \in rows : Cardinality({r \in rows : r.time < s.time
                                  \/ (r.time = s.time /\ r[dimension] < s[dimension])}) < n}

\* The rows that a query in rank order with LIMIT n returns, newest first if it spans time.
First(rows, dimension, n) ==
    LET Precedes(r, s) ==
            \/ r.time > s.time
            \/ r.time = s.time /\ r[dimension] < s[dimension]
            \/ r.time = s.time /\ r[dimension] = s[dimension] /\ r.pid < s.pid
    IN  {s \in rows : Cardinality({r \in rows : Precedes(r, s)}) < n}

\* {rank_column} IS NOT NULL AND {rank_column} <= event_top_n
RanksIn(dimension, s) == s[dimension] # 0 /\ s[dimension] <= EventTopN

\* latest_snapshot_at_or_before
Upto(table, t) == {s \in table : s.time <= t}
LatestSnapshot(table, t) ==
    CHOOSE time \in {s.time : s \in Upto(table, t)} : \A s \in Upto(table, t) : s.time <= time

\* snapshot_is_fresh
Fresh(table, t) == Upto(table, t) # {} /\ t - LatestSnapshot(table, t) <= FreshFor

\* remaining_evidence_rows
Remaining(rows) == IF Cardinality(rows) >= MaxRows THEN 0 ELSE MaxRows - Cardinality(rows)

\* INSERT OR IGNORE with UNIQUE(event_id, collected_at_ms, pid, process_start_time_seconds)
Copied(rows, kind, new) ==
    rows \cup {[kind |-> kind, sample |-> s] : s \in
        {n \in new : \A r \in rows : <<r.sample.time, r.sample.pid, r.sample.start>>
                                       # <<n.time, n.pid, n.start>>}}

\* insert_snapshot_evidence
WithSnapshot(table, rows, dimension, time, kind) ==
    LET limit == IF Remaining(rows) < EventTopN THEN Remaining(rows) ELSE EventTopN
        ranked == {s \in table : s.time = time /\ RanksIn(dimension, s)}
    IN  Copied(rows, kind, First(ranked, dimension, limit))

\* The prelude of capture_open_event: what came before the trigger's snapshot.
WithPrelude(table, rows, dimension, detected, trigger) ==
    LET ranked == {s \in table : /\ detected - Prelude <= s.time /\ s.time < trigger
                                 /\ RanksIn(dimension, s)}
    IN  Copied(rows, "prelude", First(ranked, dimension, Remaining(rows)))

\* Slip: the prelude is copied before the trigger.
CaptureOpenEvent_PreludeFirst(table, dimension, detected) ==
    IF ~Fresh(table, detected) THEN {}
    ELSE LET trigger == LatestSnapshot(table, detected)
         IN  WithSnapshot(table, WithPrelude(table, {}, dimension, detected, trigger),
                          dimension, trigger, "trigger")

\* capture_open_event
CaptureOpenEvent(table, dimension, detected) ==
    IF ~Fresh(table, detected) THEN {}
    ELSE LET trigger == LatestSnapshot(table, detected)
         IN  WithPrelude(table, WithSnapshot(table, {}, dimension, trigger, "trigger"),
                         dimension, detected, trigger)

\* capture_checkpoint, for an escalation, a periodic checkpoint or the recovery
CaptureCheckpoint(table, t) ==
    IF ~Fresh(table, t) THEN evidence
    ELSE WithSnapshot(table, evidence, event.dimension, LatestSnapshot(table, t), "checkpoint")

----------------------------------------------------------------------------
(* One transaction: the batch's samples are inserted, then its evaluations are applied. *)

Commit(new) == samples' = samples \cup new

NoEvidence == UNCHANGED <<event, evidence>>

OpenEvent(t, dimension) ==
    /\ event = NoEvent
    /\ event' = [dimension |-> dimension, detected |-> t]
    /\ evidence' = CaptureOpenEvent(samples', dimension, t)

Checkpoint(t) ==
    /\ event # NoEvent
    /\ evidence' = CaptureCheckpoint(samples', t)
    /\ UNCHANGED event

StoreBatch(t, new) ==
    /\ Commit(new)
    /\ \/ NoEvidence
       \/ \E dimension \in Dimensions : OpenEvent(t, dimension)
       \/ Checkpoint(t)
=============================================================================
