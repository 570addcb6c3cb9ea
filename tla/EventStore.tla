----------------------------- MODULE EventStore -----------------------------
(***************************************************************************)
(* The anomaly engine and its tables, as anomaly_storage.rs drives them:   *)
(* each batch is evaluated on a clone of the live engine, its raw rows,    *)
(* event changes, evidence and next states are written in one transaction, *)
(* and the engine is replaced once that commits.  A failed insert ends the *)
(* writer; a restart reloads the engine from anomaly_states.               *)
(*                                                                         *)
(* A key is a rule and a resource.  All keys have the thresholds of        *)
(* AnomalyRule.  Stamps increase from batch to batch: what a late stamp    *)
(* does to the engine is in AnomalyDetector.                               *)
(***************************************************************************)
EXTENDS AnomalyRule, FiniteSets

CONSTANTS
    Keys,           \* the rule-and-resource pairs
    Values,         \* the metric values that occur, by key
    Configurations, \* the rules some start is configured with, as sets of keys
    Prelude,        \* prelude_minutes
    PreludeLimit,   \* PRELUDE_LIMIT
    EventKeep,      \* event_retention_days
    DeleteBatch,    \* delete_batch_rows
    MaxSamples,     \* bound: how many samples each key has
    MaxTime,        \* bound: the clock stops here
    MaxStep         \* bound: the longest time between two batches

ASSUME EventStoreAssumption ==
    /\ IsFiniteSet(Keys)
    /\ Values \in [Keys -> SUBSET (Nat \ {0})]
    /\ Configurations \subseteq SUBSET Keys
    /\ Prelude \in Nat \ {0} /\ PreludeLimit \in Nat \ {0}
    /\ EventKeep \in Nat \ {0} /\ DeleteBatch \in Nat \ {0}
    /\ MaxSamples \in [Keys -> Nat]
    /\ MaxTime \in Nat /\ MaxStep \in Nat \ {0}

VARIABLES
    now,        \* the stamp of the latest batch
    writer,     \* the writer task is "running" or has "stopped" with an error
    rules,      \* the keys whose rule is in the configuration
    live,       \* AnomalyEngine.states of the running writer
    saved,      \* anomaly_states
    events,     \* anomaly_events, by id
    lastId,     \* its AUTOINCREMENT sequence
    evidence,   \* anomaly_event_evidence
    raw,        \* the rows of metric_samples that a rule watches
    evaluated   \* history: those of them that were evaluated

vars == <<now, writer, rules, live, saved, events, lastId, evidence, raw, evaluated>>
tables == <<saved, events, lastId, evidence, raw>>

Row == [key : Keys, at : Nat, value : Nat]
Kind == {"prelude", "trigger", "escalation", "peak", "periodic", "recovery"}
Evidence == [event : Nat, at : Nat, value : Nat, kind : Kind]
Event ==
    [key : Keys, status : {"open", "closed"}, severity : Severity,
     startedAt : Nat, detectedAt : Nat, endedAt : Nat,
     peak : Nat, peakAt : Nat, lastSample : Nat, samples : Nat, gaps : Nat]

\* f overridden by g
Override(f, g) ==
    [x \in DOMAIN f \cup DOMAIN g |-> IF x \in DOMAIN g THEN g[x] ELSE f[x]]
Only(f, S) == [x \in DOMAIN f \cap S |-> f[x]]

Init ==
    /\ now = 0
    /\ writer = "running"
    /\ rules = Keys
    /\ live = [k \in {} |-> DefaultState]
    /\ saved = live
    /\ events = [id \in {} |-> DefaultState]
    /\ lastId = 0
    /\ evidence = {}
    /\ raw = {}
    /\ evaluated = {}

----------------------------------------------------------------------------
(* Evaluating a batch, a function from keys to values stamped t. *)

StateOf(k) == IF k \in DOMAIN live THEN live[k] ELSE DefaultState

evaluate_batch(t, batch) ==
    [k \in {k \in DOMAIN batch \cap rules : Accepts(StateOf(k), t)} |->
        Evaluate(StateOf(k), t, batch[k])]

Opening(evaluations) == {k \in DOMAIN evaluations : evaluations[k].transition = "open"}
Active(evaluations) == {k \in DOMAIN evaluations : evaluations[k].event # None}

\* Slip: the id is read after the last opening.
NextStates_LastId(evaluations, ids, t) ==
    [k \in DOMAIN evaluations |->
        IF k \in DOMAIN ids
          THEN AttachEvent(evaluations[k].next, lastId + Cardinality(DOMAIN ids), t)
        ELSE evaluations[k].next]

\* attach_event gives each opened event's id to the state of its key.
NextStates(evaluations, ids, t) ==
    [k \in DOMAIN evaluations |->
        IF k \in DOMAIN ids THEN AttachEvent(evaluations[k].next, ids[k], t)
        ELSE evaluations[k].next]

----------------------------------------------------------------------------
(* apply_evaluation: the event row. *)

OpenedEvent(k, e, t) ==
    [key |-> k, status |-> "open", severity |-> e.state.severity,
     startedAt |-> e.startedAt, detectedAt |-> t, endedAt |-> None,
     peak |-> e.state.peak, peakAt |-> e.state.peakAt, lastSample |-> t,
     samples |-> e.triggerSamples, gaps |-> e.state.gaps]

\* Slips: the severity is the one of the opening; the closing sample is not counted.
UpdatedEvent_KeepsSeverity(row, e, t, v) ==
    [row EXCEPT !.lastSample = t, !.samples = @ + 1,
                !.gaps = IF e.dataGap THEN @ + 1 ELSE @,
                !.peak = IF v > @ THEN v ELSE @, !.peakAt = IF v > row.peak THEN t ELSE @,
                !.status = IF e.transition = "close" THEN "closed" ELSE @,
                !.endedAt = IF e.transition = "close" THEN t ELSE @]
UpdatedEvent_ClosesFirst(row, e, t, v) ==
    IF e.transition = "close" THEN [row EXCEPT !.status = "closed", !.endedAt = t]
    ELSE [row EXCEPT !.severity = e.state.severity, !.lastSample = t, !.samples = @ + 1,
                     !.gaps = IF e.dataGap THEN @ + 1 ELSE @,
                     !.peak = IF v > @ THEN v ELSE @,
                     !.peakAt = IF v > row.peak THEN t ELSE @]

\* Only an open event is updated; its closing is the last thing that happens to it.
UpdatedEvent(row, e, t, v) ==
    LET updated ==
            IF row.status # "open" THEN row
            ELSE [row EXCEPT !.severity = e.state.severity, !.lastSample = t,
                             !.samples = @ + 1, !.gaps = IF e.dataGap THEN @ + 1 ELSE @,
                             !.peak = IF v > @ THEN v ELSE @,
                             !.peakAt = IF v > row.peak THEN t ELSE @]
    IN  IF e.transition = "close"
          THEN [updated EXCEPT !.status = "closed", !.endedAt = t]
          ELSE updated

----------------------------------------------------------------------------
(* apply_evaluation: the evidence. *)

\* ORDER BY collected_at_ms DESC LIMIT n
Newest(S, n) == {r \in S : Cardinality({q \in S : q.at > r.at}) < n}

\* Slips: the trigger itself counts as prelude; and so do the other keys' rows.
PreludeWindow_ToTrigger(rows, k, t) ==
    {r \in rows : r.key = k /\ t - Prelude <= r.at /\ r.at <= t}
PreludeWindow_AnyKey(rows, k, t) ==
    {r \in rows : t - Prelude <= r.at /\ r.at < t}

PreludeWindow(rows, k, t) ==
    {r \in rows : r.key = k /\ t - Prelude <= r.at /\ r.at < t}

PreludeRows(rows, k, t) == Newest(PreludeWindow(rows, k, t), PreludeLimit)

EvidenceRow(id, t, v, kind) == [event |-> id, at |-> t, value |-> v, kind |-> kind]

OpeningEvidence(rows, id, k, t, v) ==
    {EvidenceRow(id, r.at, r.value, "prelude") : r \in PreludeRows(rows, k, t)}
        \cup {EvidenceRow(id, t, v, "trigger")}

\* Slip: periodic evidence is left to the peak.
EvidenceKind_NoPeriodic(e) ==
    IF e.transition = "escalate" THEN {"escalation"}
    ELSE IF e.transition = "close" THEN {"recovery"}
    ELSE IF e.newPeak THEN {"peak"}
    ELSE {}

\* The kind of the one row that an evaluation within an event adds, if any.
EvidenceKind(e) ==
    IF e.transition = "escalate" THEN {"escalation"}
    ELSE IF e.transition = "close" THEN {"recovery"}
    ELSE IF e.newPeak THEN {"peak"}
    ELSE IF e.periodic THEN {"periodic"}
    ELSE {}

AddedEvidence(id, e, t, v) == {EvidenceRow(id, t, v, kind) : kind \in EvidenceKind(e)}

\* Slip: any new evidence replaces the peak.
Superseded_Always(id, e) ==
    {r \in evidence : r.event = id /\ r.kind = "peak" /\ EvidenceKind(e) # {}}

\* A new peak row replaces the one before.
Superseded(id, e) ==
    {r \in evidence : r.event = id /\ r.kind = "peak" /\ EvidenceKind(e) = {"peak"}}

\* What the evaluations of a batch drop, tell of openings and add within events.
DroppedBy(evaluations) ==
    UNION {Superseded(evaluations[k].event, evaluations[k]) : k \in Active(evaluations)}
ToldBy(ids, rows, t, batch) ==
    UNION {OpeningEvidence(rows, ids[k], k, t, batch[k]) : k \in DOMAIN ids}
AddedBy(evaluations, t, batch) ==
    UNION {AddedEvidence(evaluations[k].event, evaluations[k], t, batch[k]) :
              k \in Active(evaluations)}

----------------------------------------------------------------------------
(* insert_batch *)

HasSamplesLeft(k) == Cardinality({r \in raw : r.key = k}) < MaxSamples[k]

Batches ==
    {batch \in UNION {[S -> UNION {Values[k] : k \in Keys}] : S \in SUBSET Keys \ {{}}} :
        \A k \in DOMAIN batch : batch[k] \in Values[k] /\ HasSamplesLeft(k)}

RowsOf(batch, t) == {[key |-> k, at |-> t, value |-> batch[k]] : k \in DOMAIN batch}

InsertBatch(t, batch) ==
    LET evaluations == evaluate_batch(t, batch)
        rows == raw \cup RowsOf(batch, t)
        active == Active(evaluations)
        EventOf(k) == evaluations[k].event
    IN  /\ writer = "running"
        /\ now' = t
        /\ \E ids \in [Opening(evaluations) ->
                          lastId + 1 .. lastId + Cardinality(Opening(evaluations))] :
              /\ \A j, k \in DOMAIN ids : ids[j] = ids[k] => j = k
              /\ live' = Override(live, NextStates(evaluations, ids, t))
              /\ saved' = Override(saved, live')
              /\ lastId' = lastId + Cardinality(DOMAIN ids)
              /\ events' =
                    [id \in DOMAIN events \cup {ids[k] : k \in DOMAIN ids} |->
                        IF \E k \in DOMAIN ids : ids[k] = id
                          THEN LET k == CHOOSE k \in DOMAIN ids : ids[k] = id
                               IN  OpenedEvent(k, evaluations[k], t)
                        ELSE IF \E k \in active : EventOf(k) = id
                          THEN LET k == CHOOSE k \in active : EventOf(k) = id
                               IN  UpdatedEvent(events[id], evaluations[k], t, batch[k])
                        ELSE events[id]]
              /\ evidence' = (evidence \ DroppedBy(evaluations))
                                \cup ToldBy(ids, rows, t, batch)
                                \cup AddedBy(evaluations, t, batch)
        /\ raw' = rows
        /\ evaluated' = evaluated \cup RowsOf(Only(batch, DOMAIN evaluations), t)
        /\ UNCHANGED <<writer, rules>>

\* Slip: the live engine is evaluated in place.
InsertFails_InPlace(t, batch) ==
    /\ writer = "running"
    /\ now' = t
    /\ writer' = "stopped"
    /\ live' = Override(live, NextStates(evaluate_batch(t, batch), <<>>, t))
    /\ UNCHANGED <<rules, tables, evaluated>>

\* Some statement or the commit fails: everything is rolled back and the clone dropped.
InsertFails(t, batch) ==
    /\ writer = "running"
    /\ now' = t
    /\ writer' = "stopped"
    /\ UNCHANGED <<rules, live, tables, evaluated>>

----------------------------------------------------------------------------
(* Maintenance and restarts. *)

\* Slip: an event is old when it started long ago, closed or not.
Expired_ByStart == {id \in DOMAIN events : events[id].startedAt < now - EventKeep}

Expired ==
    {id \in DOMAIN events : events[id].status = "closed" /\ events[id].endedAt < now - EventKeep}

EvidenceOf(ids) == {r \in evidence : r.event \in ids}

\* Slip: the evidence of a deleted event stays behind.
DeleteClosedEvents_Only ==
    LET ids == {id \in Expired : Cardinality({j \in Expired :
                    events[j].endedAt < events[id].endedAt}) < DeleteBatch}
    IN  /\ writer = "running"
        /\ ids # {}
        /\ events' = Only(events, DOMAIN events \ ids)
        /\ UNCHANGED <<now, writer, rules, live, saved, lastId, evidence, raw, evaluated>>

\* delete_closed_events: the DeleteBatch events that ended first, with their evidence.
DeleteClosedEvents ==
    /\ writer = "running"
    /\ \E ids \in SUBSET Expired \ {{}} :
          /\ Cardinality(ids) = DeleteBatch \/ ids = Expired
          /\ Cardinality(ids) <= DeleteBatch
          /\ \A id \in ids, j \in Expired \ ids : events[id].endedAt <= events[j].endedAt
          /\ events' = Only(events, DOMAIN events \ ids)
          /\ evidence' = evidence \ EvidenceOf(ids)
    /\ UNCHANGED <<now, writer, rules, live, saved, lastId, raw, evaluated>>

\* load_engine: the states whose rule is configured.
load_engine(configured) == Only(saved, configured)

\* The process is started again after a failure or a crash, perhaps with other rules.
Restart(configured) ==
    /\ writer' = "running"
    /\ rules' = configured
    /\ live' = load_engine(configured)
    /\ UNCHANGED <<now, tables, evaluated>>

Next ==
    \/ \E t \in now + 1 .. now + MaxStep, batch \in Batches :
          t <= MaxTime /\ (InsertBatch(t, batch) \/ InsertFails(t, batch))
    \/ DeleteClosedEvents
    \/ \E configured \in Configurations : Restart(configured)

Spec == Init /\ [][Next]_vars

----------------------------------------------------------------------------
(* Properties. *)

\* Type correctness; and no evidence, and no state, refers to an event that is not there.
TypeOK ==
    /\ now \in 0 .. MaxTime
    /\ writer \in {"running", "stopped"}
    /\ rules \subseteq Keys
    /\ DOMAIN live \subseteq rules /\ \A k \in DOMAIN live : live[k] \in RuleState
    /\ DOMAIN saved \subseteq Keys /\ \A k \in DOMAIN saved : saved[k] \in RuleState
    /\ DOMAIN events \subseteq 1 .. lastId /\ \A id \in DOMAIN events : events[id] \in Event
    /\ evidence \subseteq Evidence
    /\ \A r \in evidence : r.event \in DOMAIN events
    /\ raw \subseteq Row /\ evaluated \subseteq raw

\* domain-models.md: in-memory and persisted state cannot diverge across a failed batch.  The
\* engine that runs, or ran when the insert failed, is the one a restart would load.
EngineMatchesStore == live = load_engine(rules)

OpenEventsOf(k) == {id \in DOMAIN events : events[id].key = k /\ events[id].status = "open"}

\* A key has an open event exactly when its persisted state is in one, and then only that
\* one; and the row, updated by increments, agrees with the state, updated by the engine.
EventMatchesState ==
    \A k \in Keys :
        IF k \in DOMAIN saved /\ saved[k].event # None
          THEN /\ OpenEventsOf(k) = {saved[k].event}
               /\ LET row == events[saved[k].event]
                  IN  /\ row.severity = saved[k].severity
                      /\ row.peak = saved[k].peak /\ row.peakAt = saved[k].peakAt
                      /\ row.gaps = saved[k].gaps
                      /\ row.lastSample = saved[k].lastSample
          ELSE OpenEventsOf(k) = {}

SamplesOf(id) ==
    {r \in evaluated : /\ r.key = events[id].key
                       /\ events[id].startedAt <= r.at /\ r.at <= events[id].lastSample}

\* An event's sample count is the number of samples evaluated from its start to its end, the
\* candidate's and the closing one included, through restarts; and none exceeds its peak.
SamplesAreCounted ==
    \A id \in DOMAIN events :
        /\ events[id].samples = Cardinality(SamplesOf(id))
        /\ \A r \in SamplesOf(id) : r.value <= events[id].peak
        /\ events[id].status = "closed" => events[id].endedAt = events[id].lastSample

RowsOfKind(id, kind) == {r \in evidence : r.event = id /\ r.kind = kind}

\* The evidence tells the event's history: every row is a sample of its key, exactly one
\* triggered it, what came before is prelude, it is critical exactly if it was triggered or
\* escalated (once) by a critical sample, and it has a recovery row exactly if it is closed.
EvidenceTellsTheHistory ==
    \A id \in DOMAIN events :
        LET row == events[id]
        IN  /\ \A r \in EvidenceOf({id}) :
                  /\ [key |-> row.key, at |-> r.at, value |-> r.value] \in raw
                  /\ r.kind = "prelude" <=> r.at < row.detectedAt
            /\ \A r, q \in EvidenceOf({id}) : r.at = q.at => r = q
            /\ {r.at : r \in RowsOfKind(id, "trigger")} = {row.detectedAt}
            /\ row.severity = "critical" <=>
                  \E r \in RowsOfKind(id, "trigger") \cup RowsOfKind(id, "escalation") :
                      r.value >= CriticalThreshold
            /\ Cardinality(RowsOfKind(id, "escalation")) <= 1
            /\ {r.at : r \in RowsOfKind(id, "recovery")} =
                  IF row.status = "closed" THEN {row.endedAt} ELSE {}

\* The sample was beyond the reach of the prelude when the event opened.
BeforePrelude(row, t) ==
    \/ t < row.detectedAt - Prelude
    \/ Cardinality({r \in raw : r.key = row.key /\ t <= r.at /\ r.at < row.detectedAt})
          > PreludeLimit

\* domain-models.md: the newest peak and the periodic checkpoints are preserved.  Whatever kind
\* the row of a peak got, which may also be the trigger, an escalation or a checkpoint, the
\* event's peak is among its evidence and at most one row is an outdated peak's; and although
\* a peak that took the place of a checkpoint is itself replaced, the evidence of an open
\* event is never older than the evidence interval.
PeakAndCheckpointsAreKept ==
    \A id \in DOMAIN events :
        LET row == events[id]
        IN  /\ \/ BeforePrelude(row, row.peakAt)
               \/ \E r \in EvidenceOf({id}) : r.at = row.peakAt /\ r.value = row.peak
            /\ Cardinality(RowsOfKind(id, "peak")) <= 1
            /\ row.status = "open" =>
                  \E r \in EvidenceOf({id}) :
                      r.kind # "prelude" /\ row.lastSample - r.at < EvidenceInterval

\* An event never reopens, loses its critical severity or changes once closed; only closed
\* events are deleted; and while it exists only its outdated peak rows are.
ClosedEventsAreFinal ==
    [][/\ \A id \in DOMAIN events \cap DOMAIN events' :
              /\ events[id].status = "closed" => events'[id] = events[id]
              /\ events[id].severity = "critical" => events'[id].severity = "critical"
              /\ \A r \in EvidenceOf({id}) \ evidence' :
                    r.kind = "peak" /\ events[id].status = "open"
       /\ \A id \in DOMAIN events \ DOMAIN events' : events[id].status = "closed"
       /\ DOMAIN events' \ DOMAIN events \subseteq lastId + 1 .. lastId']_tables
=============================================================================
