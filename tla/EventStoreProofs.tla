-------------------------- MODULE EventStoreProofs --------------------------
(***************************************************************************)
(* Theorems about EventStore, for every rule, every finite set of keys and *)
(* every configuration, prelude, retention and batch size.                 *)
(*                                                                         *)
(* The engine and the tables describe the same events twice: the engine    *)
(* by the state of a key, the tables by the event row and its evidence.    *)
(* StoreInv relates the two between any two transactions; an evaluation    *)
(* changes the state and the row of one key in the same way, and touches   *)
(* no row of another.                                                      *)
(***************************************************************************)
EXTENDS EventStore, AnomalyRuleProofs, FiniteSetTheorems, Functions, TLAPS

----------------------------------------------------------------------------
(* The invariant. *)

\* Every persisted state is consistent and was last evaluated by some batch.
StatesAgree ==
    \A k \in DOMAIN saved : Consistent(saved[k]) /\ saved[k].lastSample \in 1 .. now

\* The rows are those of the batches so far, one a key and batch; a state has seen all of its
\* key's that were evaluated.
RowsAgree ==
    /\ lastId \in Nat
    /\ IsFiniteSet(raw)
    /\ \A r \in raw : r.at \in 1 .. now
    /\ \A r, q \in raw : r.key = q.key /\ r.at = q.at => r = q
    /\ \A r \in evaluated : r.key \in DOMAIN saved /\ r.at <= saved[r.key].lastSample

\* A candidate, and an event, started no later than their last sample.
TimesAgree ==
    /\ \A k \in DOMAIN saved :
          saved[k].phase = "pending" => saved[k].pending.since <= saved[k].lastSample
    /\ \A id \in DOMAIN events :
          /\ events[id].startedAt <= events[id].detectedAt
          /\ events[id].detectedAt <= events[id].lastSample
          /\ events[id].lastSample <= now

\* The samples of a pending candidate are counted as those of an event are, and its peak is
\* one of them.
SamplesSince(rows, k, since) == {r \in rows : r.key = k /\ r.at >= since}

PendingIsCounted ==
    \A k \in DOMAIN saved : saved[k].phase = "pending" =>
        /\ saved[k].pending.samples
              = Cardinality(SamplesSince(evaluated, k, saved[k].pending.since))
        /\ \A r \in SamplesSince(evaluated, k, saved[k].pending.since) : r.value <= saved[k].peak
        /\ \E r \in evaluated :
              r.key = k /\ r.at = saved[k].peakAt /\ r.value = saved[k].peak

\* The rows R of evidence, and the rows of metric_samples, tell the history of the event row.
Tells(row, R, rows) ==
    /\ \A r \in R :
          /\ [key |-> row.key, at |-> r.at, value |-> r.value] \in rows
          /\ r.at <= row.lastSample
          /\ r.kind = "prelude" <=> r.at < row.detectedAt
          /\ r.kind = "trigger" => r.at = row.detectedAt
          /\ r.kind = "escalation" => r.value >= CriticalThreshold
          /\ r.kind = "recovery" => row.status = "closed" /\ r.at = row.endedAt
    /\ \A r, q \in R :
          r.at = q.at \/ (r.kind = q.kind /\ r.kind \in {"escalation", "peak"}) => r = q
    /\ \E r \in R : r.kind = "trigger"
    /\ row.status = "closed" => \E r \in R : r.kind = "recovery"
    /\ row.severity = "critical" <=>
          \E r \in R : r.kind \in {"trigger", "escalation"} /\ r.value >= CriticalThreshold

HistoryIsTold == \A id \in DOMAIN events : Tells(events[id], EvidenceOf({id}), raw)

\* The peak is beyond the prelude, or among the evidence R.
Unreached(row, rows) ==
    \/ row.peakAt < row.detectedAt - Prelude
    \/ Cardinality({r \in rows : /\ r.key = row.key /\ row.peakAt <= r.at
                                 /\ r.at < row.detectedAt}) > PreludeLimit

HasPeak(row, R, rows) ==
    Unreached(row, rows) \/ \E r \in R : r.at = row.peakAt /\ r.value = row.peak

PeaksAreKept == \A id \in DOMAIN events : HasPeak(events[id], EvidenceOf({id}), raw)

\* The state's last_evidence is no older than the interval, nor newer than the evidence.
EvidenceIsFresh ==
    \A k \in DOMAIN saved : saved[k].event # None =>
        /\ saved[k].lastEvidence # None
        /\ saved[k].lastSample - saved[k].lastEvidence < EvidenceInterval
        /\ \E r \in evidence : /\ r.event = saved[k].event
                               /\ r.kind # "prelude" /\ r.at >= saved[k].lastEvidence

StoreInv ==
    /\ TypeOK /\ EngineMatchesStore
    /\ StatesAgree /\ EventMatchesState
    /\ RowsAgree /\ TimesAgree

----------------------------------------------------------------------------
(* What one evaluation e, on the state s, means for the event: the next state is n. *)

After(e, id, t) == IF e.transition = "open" THEN AttachEvent(e.next, id, t) ELSE e.next

\* r has the peak of s and of the new sample.
PeakWith(s, t, v, r) ==
    IF v > s.peak THEN r.peak = v /\ r.peakAt = t
    ELSE r.peak = s.peak /\ r.peakAt = s.peakAt

\* A candidate c begins with the new sample, or is the pending one extended by it.
Counts(s, t, v, r, c) ==
    \/ c = NewCandidate(t) /\ r.peak = v /\ r.peakAt = t
    \/ /\ s.phase = "pending"
       /\ c \in {NewCandidate(t), ExtendCandidate(s.pending)}
       /\ PeakWith(s, t, v, r)

Opens(s, t, v, id, e, n) ==
    /\ s.event = None /\ e.transition = "open"
    /\ e.state.severity = BreachedSeverity(v) /\ e.state.severity \in Severity
    /\ n.phase # "pending" /\ n.event = id /\ n.lastEvidence = t
    /\ n.severity = e.state.severity /\ n.gaps = e.state.gaps
    /\ n.peak = e.state.peak /\ n.peakAt = e.state.peakAt
    /\ Counts(s, t, v, n, [since |-> e.startedAt, samples |-> e.triggerSamples])

StaysOutside(s, t, v, e, n) ==
    /\ s.event = None /\ e.transition = "none"
    /\ n.event = None
    /\ n.phase = "pending" => Counts(s, t, v, n, n.pending)

StaysInEvent(s, t, v, e, n) ==
    /\ s.event # None /\ n.phase # "pending"
    /\ e.transition \in {"none", "escalate", "close"}
    /\ e.newPeak <=> v > s.peak
    /\ PeakWith(s, t, v, e.state)
    /\ e.state.gaps = IF e.dataGap THEN s.gaps + 1 ELSE s.gaps
    /\ e.state.severity \in Severity
    /\ IF e.transition = "escalate"
         THEN /\ s.severity = "warning" /\ e.state.severity = "critical"
              /\ v >= CriticalThreshold
         ELSE e.state.severity = s.severity
    /\ e.periodic <=> e.transition # "close" /\ EvidenceDue(s, t)
    /\ IF e.transition = "close"
         THEN n.event = None
         ELSE /\ n = e.state /\ n.event = s.event
              /\ n.lastEvidence = IF e.periodic THEN t ELSE s.lastEvidence

\* A gap leaves an event open, counts itself and drops the candidates only.
LEMMA GapInEvent ==
    ASSUME NEW s \in RuleState, InEvent(s), NEW t
    PROVE  LET g == AfterGap(s, t)
           IN  /\ g.severity = s.severity /\ g.lastEvidence = s.lastEvidence
               /\ g.peak = s.peak /\ g.peakAt = s.peakAt
               /\ g.gaps = IF DataGap(s, t) THEN s.gaps + 1 ELSE s.gaps
<1> DEFINE c == WithPhase(ClearRecovery(ClearCritical(s)), "open")
<1>1. /\ c \in RuleState /\ c.severity = s.severity /\ c.lastEvidence = s.lastEvidence
      /\ c.peak = s.peak /\ c.peakAt = s.peakAt /\ c.gaps = s.gaps
  <2>1. c \in RuleState
    BY CandidateTypes, AssignmentTypes DEF ClearRecovery, ClearCritical, Phase
  <2>2. /\ c.severity = s.severity /\ c.lastEvidence = s.lastEvidence
        /\ c.peak = s.peak /\ c.peakAt = s.peakAt /\ c.gaps = s.gaps
    BY DEF WithPhase, ClearRecovery, ClearCritical, WithRecovery, WithCritical, RuleState
  <2> QED BY <2>1, <2>2
<1> HIDE DEF c
<1>2. /\ CountGap(c).severity = c.severity /\ CountGap(c).lastEvidence = c.lastEvidence
      /\ CountGap(c).peak = c.peak /\ CountGap(c).peakAt = c.peakAt
      /\ CountGap(c).gaps = c.gaps + 1
  BY <1>1 DEF CountGap, RuleState
<1>3. AfterGap(s, t) = IF DataGap(s, t) THEN CountGap(c) ELSE s
  BY DEF AfterGap, InEvent, c
<1> QED BY <1>1, <1>2, <1>3

LEMMA SampleKeeps ==
    ASSUME NEW g \in RuleState, NEW t \in Nat, NEW v \in Nat
    PROVE  LET seen == WithSample(g, t, v)
           IN  /\ seen.gaps = g.gaps /\ seen.lastEvidence = g.lastEvidence
               /\ g.phase # "normal" => PeakWith(g, t, v, seen)
<1> DEFINE l == WithLast(g, t)
<1>1. l \in RuleState
  BY AssignmentTypes
<1>2. /\ l.gaps = g.gaps /\ l.lastEvidence = g.lastEvidence
      /\ l.peak = g.peak /\ l.peakAt = g.peakAt
  BY DEF WithLast, RuleState
<1> HIDE DEF l
<1>3. /\ WithPeak(l, t, v).gaps = l.gaps /\ WithPeak(l, t, v).lastEvidence = l.lastEvidence
      /\ WithPeak(l, t, v).peak = v /\ WithPeak(l, t, v).peakAt = t
  BY <1>1 DEF WithPeak, RuleState
<1>4. WithSample(g, t, v) = IF g.phase # "normal" /\ v > g.peak THEN WithPeak(l, t, v) ELSE l
  BY DEF WithSample, l
<1> QED BY <1>2, <1>3, <1>4 DEF PeakWith

Means(s, t, v, id, e, n) ==
    /\ e.state \in RuleState /\ n \in RuleState /\ Consistent(n)
    /\ n.lastSample = t /\ e.event = s.event
    /\ e.startedAt \in Nat /\ e.triggerSamples \in Nat
    /\ \/ Opens(s, t, v, id, e, n)
       \/ StaysOutside(s, t, v, e, n)
       \/ StaysInEvent(s, t, v, e, n)

LEMMA EvaluationMeans ==
    ASSUME NEW s \in RuleState, Consistent(s), NEW t \in Nat \ {0}, NEW v \in Nat,
           NEW id \in Nat \ {0}, NEW e, e = Evaluate(s, t, v), NEW n, n = After(e, id, t)
    PROVE  Means(s, t, v, id, e, n)
<1> DEFINE g == AfterGap(s, t)
           seen == WithSample(g, t, v)
           r == Dispatch(seen, t, v)
           x == r.state
           due == e.periodic
           final == IF due THEN WithEvidence(x, t) ELSE x
           kept == IF r.transition = "close" THEN ResetToNormal(final) ELSE final
           opened == IF seen.phase = "pending" /\ seen.pendingSeverity = BreachedSeverity(v)
                       THEN ExtendCandidate(seen.pending)
                     ELSE NewCandidate(t)
<1>1. /\ n \in RuleState /\ Consistent(n) /\ n.lastSample = t
      /\ e.startedAt \in Nat /\ e.triggerSamples \in Nat
  BY EvaluateGood DEF After
<1>2. g \in RuleState /\ Consistent(g) /\ g.event = s.event
  BY AfterGapAgrees
<1>3. seen \in RuleState /\ Consistent(seen) /\ seen.event = s.event
  BY <1>2, WithSampleAgrees
<1>4. /\ e.event = s.event /\ e.transition = r.transition
      /\ e.state = final /\ e.next = kept
      /\ e.periodic <=> s.event # None /\ r.transition # "close" /\ EvidenceDue(s, t)
      /\ e.newPeak <=> s.event # None /\ final.peak # s.peak
      /\ e.dataGap <=> DataGap(s, t)
      /\ e.transition = "open" => /\ e.startedAt = opened.since
                                  /\ e.triggerSamples = opened.samples
  BY DEF Evaluate
<1>5. /\ GoodOutcome(seen, r)
      /\ PeakCarried(seen, x, t, v)
      /\ SeverityCarried(seen, r, v)
  BY <1>3, DispatchGood, DispatchCarries, DispatchSeverity DEF Consistent
<1>6. SameCandidates(seen, g) /\ seen.gaps = g.gaps /\ seen.lastEvidence = g.lastEvidence
         /\ (g.phase # "normal" => PeakWith(g, t, v, seen))
  BY <1>2, WithSampleSame, SampleKeeps
<1> HIDE DEF seen, r
<1>7. final \in RuleState /\ Noted(final, x) /\ final.event = x.event /\ final.gaps = x.gaps
         /\ final.lastEvidence = (IF due THEN t ELSE x.lastEvidence)
  <2>1. x \in RuleState
    BY <1>5 DEF GoodOutcome
  <2>2. /\ WithEvidence(x, t) \in RuleState /\ Noted(WithEvidence(x, t), x)
        /\ WithEvidence(x, t).event = x.event /\ WithEvidence(x, t).gaps = x.gaps
        /\ WithEvidence(x, t).lastEvidence = t
    BY <2>1, AssignmentTypes, NotedIs DEF WithEvidence, RuleState
  <2>3. Noted(x, x)
    BY DEF Noted, SameCandidates
  <2> HIDE DEF x, due
  <2> QED BY <2>1, <2>2, <2>3
<1>8. e.state \in RuleState
  BY <1>4, <1>7
<1> HIDE DEF x, due, final, kept, opened
<1>9. ASSUME InEvent(s) PROVE StaysInEvent(s, t, v, e, n)
  <2>1. /\ s.event # None /\ InEvent(g) /\ InEvent(seen)
        /\ g.phase # "normal" /\ seen.phase # "normal" /\ seen.phase # "pending"
    BY <1>2, <1>3, <1>9 DEF Consistent, InEvent
  <2>2. /\ seen.severity = s.severity /\ seen.lastEvidence = s.lastEvidence
        /\ seen.gaps = IF e.dataGap THEN s.gaps + 1 ELSE s.gaps
    BY <1>4, <1>6, <1>9, GapInEvent DEF SameCandidates
  <2>3. PeakWith(s, t, v, seen)
    BY <1>6, <1>9, <2>1, GapInEvent DEF PeakWith
  <2>4. /\ r.transition \in {"none", "escalate", "close"}
        /\ x.phase # "normal" /\ x.event = s.event
    BY <1>3, <1>5, <2>1 DEF GoodOutcome, InEvent, Transition, x
  <2>5. /\ x.peak = seen.peak /\ x.peakAt = seen.peakAt /\ x.gaps = seen.gaps
        /\ x.lastEvidence = seen.lastEvidence /\ x.phase # "pending"
    BY <1>5, <2>1, <2>4 DEF PeakCarried
  <2>6. /\ PeakWith(s, t, v, e.state)
        /\ e.state.gaps = IF e.dataGap THEN s.gaps + 1 ELSE s.gaps
        /\ e.state.phase # "pending" /\ e.state.event = s.event
        /\ e.state.lastEvidence = IF e.periodic THEN t ELSE s.lastEvidence
        /\ e.state.severity = x.severity
    BY <1>4, <1>7, <2>2, <2>3, <2>4, <2>5 DEF PeakWith, Noted, SameCandidates, due
  <2>7. IF e.transition = "escalate"
          THEN s.severity = "warning" /\ x.severity = "critical" /\ v >= CriticalThreshold
          ELSE x.severity = s.severity
    BY <1>4, <1>5, <2>1, <2>2 DEF SeverityCarried, x
  <2>8. s.severity \in Severity
    BY <1>9 DEF Consistent, CandidatesAgree, RuleState, Severity
  <2>9. e.newPeak <=> v > s.peak
    <3>1. s.peak \in Nat
      BY DEF RuleState
    <3>2. e.newPeak <=> e.state.peak # s.peak
      BY <1>4, <2>1
    <3> QED BY <2>6, <3>1, <3>2 DEF PeakWith
  <2>10. n = IF e.transition = "close" THEN ResetToNormal(final) ELSE e.state
    BY <1>4, <2>4 DEF After, kept
  <2>11. ResetToNormal(final).event = None /\ ResetToNormal(final).phase = "normal"
    BY DEF ResetToNormal, DefaultState
  <2>12. e.state.severity \in Severity
    BY <2>6, <2>7, <2>8 DEF Severity
  <2>13. e.periodic <=> e.transition # "close" /\ EvidenceDue(s, t)
    BY <1>4, <2>1
  <2>14. n.phase # "pending" /\ (IF e.transition = "close"
            THEN n.event = None
            ELSE /\ n = e.state /\ n.event = s.event
                 /\ n.lastEvidence = IF e.periodic THEN t ELSE s.lastEvidence)
    BY <2>6, <2>10, <2>11
  <2>15. StaysInEvent(s, t, v, e, n)
    BY <1>4, <2>1, <2>4, <2>6, <2>7, <2>9, <2>12, <2>13, <2>14 DEF StaysInEvent
  <2> QED BY <2>15
<1>10. ASSUME ~InEvent(s) PROVE Opens(s, t, v, id, e, n) \/ StaysOutside(s, t, v, e, n)
  <2>1. /\ s.event = None /\ ~InEvent(g) /\ ~InEvent(seen)
        /\ seen.phase \in {"normal", "pending"}
    BY <1>2, <1>3, <1>10 DEF Consistent, InEvent, RuleState, Phase
  <2>2. ~e.periodic /\ e.state = x
    BY <1>4, <2>1 DEF final, due
  <2>3. /\ r.transition \in {"none", "open"} /\ x.event = None
        /\ r.transition = "open" => x.severity = BreachedSeverity(v)
        /\ r.transition = "open" => InEvent(x)
        /\ r.transition # "open" => ~InEvent(x)
        /\ x \in RuleState /\ CandidatesAgree(x)
    BY <1>3, <1>5, <2>1 DEF GoodOutcome, SeverityCarried, x
  <2>4. e.next = x /\ n = IF r.transition = "open" THEN AttachEvent(x, id, t) ELSE x
    BY <1>4, <2>2, <2>3 DEF After, kept
  <2>5. ASSUME x.phase # "normal", NEW c,
               seen.phase = "normal" => c = NewCandidate(t),
               seen.phase = "pending" => c \in {NewCandidate(t), ExtendCandidate(seen.pending)}
        PROVE  Counts(s, t, v, x, c)
    <3>1. CASE seen.phase = "normal"
      BY <1>5, <2>5, <3>1 DEF PeakCarried, Counts
    <3>2. CASE seen.phase = "pending"
      <4>1. g.phase = "pending" /\ g.pending = seen.pending
        BY <1>6, <3>2 DEF SameCandidates
      <4>2. s.phase = "pending" /\ g.pending = s.pending /\ g.peak = s.peak /\ g.peakAt = s.peakAt
        BY <4>1, GapPeak
      <4>3. PeakWith(s, t, v, seen)
        BY <1>6, <4>1, <4>2 DEF PeakWith
      <4>4. x.peak = seen.peak /\ x.peakAt = seen.peakAt
        BY <1>5, <2>5, <3>2 DEF PeakCarried
      <4> QED BY <2>5, <3>2, <4>1, <4>2, <4>3, <4>4 DEF Counts, PeakWith
    <3> QED BY <2>1, <3>1, <3>2
  <2>6. CASE r.transition = "open"
    <3> DEFINE c == [since |-> e.startedAt, samples |-> e.triggerSamples]
    <3>1. opened \in CandidateState
      BY <1>3, CandidateTypes DEF opened, RuleState
    <3>2. c = opened
      BY <1>4, <2>6, <3>1 DEF CandidateState
    <3>3. Counts(s, t, v, x, c)
      BY <2>3, <2>5, <2>6, <3>2 DEF opened, InEvent
    <3> DEFINE a == [x EXCEPT !.event = id]
    <3>4. /\ a \in RuleState /\ a.event = id /\ a.phase = x.phase /\ a.severity = x.severity
          /\ a.gaps = x.gaps /\ a.peak = x.peak /\ a.peakAt = x.peakAt
      BY <2>3 DEF RuleState
    <3>5. n = WithEvidence(a, t)
      BY <2>4, <2>6 DEF AttachEvent
    <3> HIDE DEF a
    <3>6. /\ n.event = id /\ n.phase = x.phase /\ n.severity = x.severity /\ n.gaps = x.gaps
          /\ n.peak = x.peak /\ n.peakAt = x.peakAt /\ n.lastEvidence = t
      BY <3>4, <3>5 DEF WithEvidence, RuleState
    <3>7. x.severity \in Severity
      BY <2>3, <2>6 DEF CandidatesAgree, RuleState, Severity
    <3>8. Counts(s, t, v, n, c)
      BY <3>3, <3>6 DEF Counts, PeakWith
    <3>9. x.phase # "pending"
      BY <2>3, <2>6 DEF InEvent
    <3>10. Opens(s, t, v, id, e, n)
      BY <1>4, <2>1, <2>2, <2>3, <2>6, <3>6, <3>7, <3>8, <3>9 DEF Opens
    <3> QED BY <3>10
  <2>7. CASE r.transition # "open"
    <3>1. n = x /\ e.transition = "none"
      BY <1>4, <2>3, <2>4, <2>7
    <3>2. x.phase = "pending" => Counts(s, t, v, x, x.pending)
      BY <1>5, <2>1, <2>5 DEF PeakCarried
    <3>3. StaysOutside(s, t, v, e, n)
      BY <2>1, <2>3, <3>1, <3>2 DEF StaysOutside
    <3> QED BY <3>3
  <2> QED BY <2>6, <2>7
<1> QED BY <1>1, <1>4, <1>8, <1>9, <1>10 DEF Means

----------------------------------------------------------------------------
(* What a batch does to the tables, key by key. *)

Before(k) == IF k \in DOMAIN saved THEN saved[k] ELSE DefaultState
Judged(k, t, batch) == Evaluate(Before(k), t, batch[k])
OpeningIn(D, t, batch) == {k \in D : Judged(k, t, batch).transition = "open"}
ActiveIn(D) == {k \in D : Before(k).event # None}

\* The evidence that is dropped, that tells an opening, and that is added to an open event.
Dropped(r, D, t, batch) ==
    \E k \in ActiveIn(D) : r \in Superseded(Before(k).event, Judged(k, t, batch))
Told(r, D, ids, t, batch) ==
    \E k \in OpeningIn(D, t, batch) : r \in OpeningEvidence(raw', ids[k], k, t, batch[k])
Added(r, D, t, batch) ==
    \E k \in ActiveIn(D) :
        r \in AddedEvidence(Before(k).event, Judged(k, t, batch), t, batch[k])

\* The keys of D are evaluated, and ids are the events that they open.
InsertedAs(t, batch, D, ids) ==
    /\ t \in Nat \ {0} /\ now < t /\ now' = t
    /\ D \in SUBSET Keys /\ D \subseteq DOMAIN batch /\ D \subseteq rules
    /\ DOMAIN batch \subseteq Keys /\ \A k \in DOMAIN batch : batch[k] \in Nat \ {0}
    /\ UNCHANGED <<writer, rules>>
    /\ DOMAIN saved' = DOMAIN saved \cup D
    /\ \A k \in D : saved'[k] = After(Judged(k, t, batch), ids[k], t)
    /\ \A k \in DOMAIN saved \ D : saved'[k] = saved[k]
    /\ live' = Only(saved', rules)
    /\ lastId' \in Nat /\ lastId <= lastId'
    /\ ids \in [D -> Nat \ {0}]
    /\ \A k \in OpeningIn(D, t, batch) : ids[k] \in lastId + 1 .. lastId'
    /\ \A j, k \in OpeningIn(D, t, batch) : ids[j] = ids[k] => j = k
    /\ DOMAIN events' = DOMAIN events \cup {ids[k] : k \in OpeningIn(D, t, batch)}
    /\ \A k \in OpeningIn(D, t, batch) : events'[ids[k]] = OpenedEvent(k, Judged(k, t, batch), t)
    /\ \A k \in ActiveIn(D) :
          events'[Before(k).event]
              = UpdatedEvent(events[Before(k).event], Judged(k, t, batch), t, batch[k])
    /\ \A id \in DOMAIN events :
          (\A k \in ActiveIn(D) : Before(k).event # id) => events'[id] = events[id]
    /\ \A r : r \in evidence' <=> \/ r \in evidence /\ ~Dropped(r, D, t, batch)
                                  \/ Told(r, D, ids, t, batch)
                                  \/ Added(r, D, t, batch)
    /\ raw' = raw \cup RowsOf(batch, t)
    /\ evaluated' = evaluated \cup RowsOf(Only(batch, D), t)

LEMMA DefaultIsConsistent == DefaultState \in RuleState /\ Consistent(DefaultState)
BY CandidateTypes DEF DefaultState, RuleState, Consistent, CandidatesAgree, InEvent, Phase, None,
   NoCandidate, CandidateState, Severity

\* The state that a key is judged in, and its event.
LEMMA BeforeIs ==
    ASSUME StoreInv, NEW k \in Keys
    PROVE  /\ Before(k) \in RuleState /\ Consistent(Before(k))
           /\ Before(k).lastSample \in 0 .. now
           /\ k \in rules => StateOf(k) = Before(k)
           /\ Before(k).event # None =>
                 /\ k \in DOMAIN saved
                 /\ Before(k).event \in DOMAIN events
                 /\ events[Before(k).event].key = k
                 /\ events[Before(k).event].status = "open"
<1>1. DefaultState.event = None /\ DefaultState.lastSample = 0
  BY DEF DefaultState, None
<1>2. Before(k) \in RuleState /\ Consistent(Before(k))
  BY DefaultIsConsistent DEF StoreInv, TypeOK, StatesAgree, Before
<1>3. Before(k).lastSample \in 0 .. now
  <2>1. now \in Nat
    BY EventStoreAssumption DEF StoreInv, TypeOK
  <2> QED BY <1>1, <2>1 DEF StoreInv, StatesAgree, Before
<1>4. k \in rules => StateOf(k) = Before(k)
  BY DEF StateOf, Before, StoreInv, EngineMatchesStore, load_engine, Only
<1>5. ASSUME Before(k).event # None
      PROVE  /\ k \in DOMAIN saved
             /\ Before(k).event \in DOMAIN events
             /\ events[Before(k).event].key = k
             /\ events[Before(k).event].status = "open"
  <2>1. k \in DOMAIN saved /\ saved[k].event = Before(k).event
    BY <1>1, <1>5 DEF Before
  <2>2. OpenEventsOf(k) = {saved[k].event}
    BY <1>5, <2>1 DEF StoreInv, EventMatchesState
  <2> QED BY <2>1, <2>2 DEF OpenEventsOf
<1> QED BY <1>2, <1>3, <1>4, <1>5

LEMMA BatchIs ==
    ASSUME NEW batch \in Batches
    PROVE  /\ DOMAIN batch \subseteq Keys
           /\ \A k \in DOMAIN batch : batch[k] \in Nat \ {0}
<1>1. \A k \in DOMAIN batch : batch[k] \in Values[k]
  BY DEF Batches
<1>2. PICK S \in SUBSET Keys : batch \in [S -> UNION {Values[k] : k \in Keys}]
  BY DEF Batches
<1>3. DOMAIN batch \subseteq Keys
  BY <1>2
<1>4. \A k \in Keys : Values[k] \in SUBSET (Nat \ {0})
  BY EventStoreAssumption
<1> QED BY <1>1, <1>3, <1>4

LEMMA InsertIs ==
    ASSUME StoreInv, NEW t \in now + 1 .. now + MaxStep, NEW batch \in Batches,
           InsertBatch(t, batch)
    PROVE  \E D, ids : InsertedAs(t, batch, D, ids)
<1> DEFINE evaluations == evaluate_batch(t, batch)
           D == DOMAIN evaluations
           rows == raw \cup RowsOf(batch, t)
           active == Active(evaluations)
           opening == Opening(evaluations)
<1>1. /\ t \in Nat \ {0} /\ now < t /\ lastId \in Nat
  BY EventStoreAssumption DEF StoreInv, TypeOK, RowsAgree
<1>2. D = {k \in DOMAIN batch \cap rules : Accepts(StateOf(k), t)}
  BY DEF evaluate_batch
<1>3. D \subseteq DOMAIN batch /\ D \subseteq rules /\ D \in SUBSET Keys
  BY <1>2, BatchIs
<1>4. \A k \in D : evaluations[k] = Judged(k, t, batch)
  <2>1. \A k \in D : evaluations[k] = Evaluate(StateOf(k), t, batch[k])
    BY <1>2 DEF evaluate_batch
  <2>2. \A k \in D : StateOf(k) = Before(k)
    BY <1>3, BeforeIs
  <2> QED BY <2>1, <2>2 DEF Judged
<1>5. \A k \in D : evaluations[k].event = Before(k).event
  BY <1>4 DEF Judged, Evaluate
<1>6. opening = OpeningIn(D, t, batch) /\ active = ActiveIn(D)
  BY <1>4, <1>5 DEF Opening, OpeningIn, Active, ActiveIn
<1>7. PICK new \in [opening -> lastId + 1 .. lastId + Cardinality(opening)] :
         /\ \A j, k \in DOMAIN new : new[j] = new[k] => j = k
         /\ live' = Override(live, NextStates(evaluations, new, t))
         /\ saved' = Override(saved, live')
         /\ lastId' = lastId + Cardinality(DOMAIN new)
         /\ events' =
               [id \in DOMAIN events \cup {new[k] : k \in DOMAIN new} |->
                   IF \E k \in DOMAIN new : new[k] = id
                     THEN LET k == CHOOSE k \in DOMAIN new : new[k] = id
                          IN  OpenedEvent(k, evaluations[k], t)
                   ELSE IF \E k \in active : evaluations[k].event = id
                     THEN LET k == CHOOSE k \in active : evaluations[k].event = id
                          IN  UpdatedEvent(events[id], evaluations[k], t, batch[k])
                   ELSE events[id]]
         /\ evidence' = (evidence \ DroppedBy(evaluations)) \cup ToldBy(new, rows, t, batch)
                           \cup AddedBy(evaluations, t, batch)
  BY DEF InsertBatch
<1> DEFINE next == NextStates(evaluations, new, t)
           ids == [k \in D |-> IF k \in opening THEN new[k] ELSE 1]
<1>8. DOMAIN new = opening /\ lastId' \in Nat /\ lastId' = lastId + Cardinality(opening)
         /\ lastId <= lastId'
  <2>1. DOMAIN new = opening
    BY <1>7
  <2>2. IsFiniteSet(opening)
    <3>1. opening \subseteq Keys
      BY <1>3 DEF Opening
    <3> QED BY <3>1, EventStoreAssumption, FS_Subset
  <2>3. Cardinality(opening) \in Nat
    BY <2>2, FS_CardinalityType
  <2> QED BY <1>1, <1>7, <2>1, <2>3
<1>9. /\ \A k \in opening : new[k] \in Nat \ {0} /\ new[k] \in lastId + 1 .. lastId'
      /\ \A k \in opening : new[k] > lastId
  BY <1>1, <1>7, <1>8
<1>10. opening \subseteq D /\ ids \in [D -> Nat \ {0}] /\ \A k \in opening : ids[k] = new[k]
  <2>1. opening \subseteq D
    BY DEF Opening
  <2> HIDE DEF opening, D
  <2> QED BY <1>9, <2>1
<1>11. DOMAIN next = D /\ \A k \in D : next[k] = After(Judged(k, t, batch), ids[k], t)
  <2>1. \A k \in opening : evaluations[k].transition = "open"
    BY DEF Opening
  <2>2. \A k \in D \ opening : evaluations[k].transition # "open"
    BY DEF Opening
  <2>3. DOMAIN next = D
    BY DEF NextStates
  <2>4. \A k \in D : next[k] = IF k \in opening THEN AttachEvent(evaluations[k].next, new[k], t)
                               ELSE evaluations[k].next
    BY <1>8 DEF NextStates
  <2> HIDE DEF next, opening, D, evaluations, ids
  <2> QED BY <1>4, <1>10, <2>1, <2>2, <2>3, <2>4 DEF After
<1> HIDE DEF next, opening, evaluations, rows
<1>12. DOMAIN live' = DOMAIN live \cup D /\ (\A k \in D : live'[k] = next[k])
          /\ \A k \in DOMAIN live \ D : live'[k] = live[k]
  <2>1. live' = Override(live, next)
    BY <1>7 DEF next
  <2> QED BY ONLY <1>11, <2>1 DEF Override
<1>13. DOMAIN live = DOMAIN saved \cap rules /\ \A k \in DOMAIN live : live[k] = saved[k]
  BY DEF StoreInv, EngineMatchesStore, load_engine, Only
<1>14. DOMAIN saved' = DOMAIN saved \cup DOMAIN live'
          /\ (\A k \in DOMAIN live' : saved'[k] = live'[k])
          /\ \A k \in DOMAIN saved \ DOMAIN live' : saved'[k] = saved[k]
  <2>1. saved' = Override(saved, live')
    BY <1>7
  <2> QED BY ONLY <2>1 DEF Override
<1>15. /\ DOMAIN saved' = DOMAIN saved \cup D
       /\ \A k \in D : saved'[k] = next[k]
       /\ \A k \in DOMAIN saved \ D : saved'[k] = saved[k]
  BY <1>12, <1>13, <1>14
<1>16. live' = Only(saved', rules)
  <2>1. live' = [k \in DOMAIN live' |-> live'[k]]
    BY <1>7 DEF Override
  <2>2. DOMAIN live' = DOMAIN saved' \cap rules
    BY <1>3, <1>12, <1>13, <1>15
  <2>3. \A k \in DOMAIN live' : live'[k] = saved'[k]
    BY <1>14
  <2> QED BY <2>1, <2>2, <2>3 DEF Only
<1>17. \A k \in active : /\ evaluations[k].event \in DOMAIN events
                         /\ events[evaluations[k].event].key = k
  <2>1. \A k \in active : k \in D /\ Before(k).event # None
    BY <1>5 DEF Active
  <2> QED BY <1>3, <1>5, <2>1, BeforeIs
<1>18. \A id \in DOMAIN events : id <= lastId
  BY <1>1 DEF StoreInv, TypeOK
<1>19. DOMAIN events' = DOMAIN events \cup {new[k] : k \in opening}
  BY <1>7, <1>8
<1>20. ASSUME NEW k \in opening
       PROVE  events'[new[k]] = OpenedEvent(k, evaluations[k], t)
  <2>1. (CHOOSE j \in opening : new[j] = new[k]) = k
    BY <1>7, <1>8
  <2> QED BY <1>7, <1>8, <2>1
<1>21. ASSUME NEW id \in DOMAIN events PROVE \A k \in opening : new[k] # id
  BY <1>1, <1>9, <1>18 DEF StoreInv, TypeOK
<1>22. ASSUME NEW k \in active
       PROVE  events'[evaluations[k].event]
                 = UpdatedEvent(events[evaluations[k].event], evaluations[k], t, batch[k])
  <2> DEFINE id == evaluations[k].event
  <2>1. (CHOOSE j \in active : evaluations[j].event = id) = k
    BY <1>17
  <2>2. id \in DOMAIN events /\ ~\E j \in opening : new[j] = id
    BY <1>17, <1>21
  <2> QED BY <1>7, <1>8, <2>1, <2>2
<1>23. ASSUME NEW id \in DOMAIN events, \A k \in active : evaluations[k].event # id
       PROVE  events'[id] = events[id]
  BY <1>7, <1>8, <1>21, <1>23
<1>24. /\ raw' = rows /\ evaluated' = evaluated \cup RowsOf(Only(batch, D), t)
       /\ now' = t /\ UNCHANGED <<writer, rules>>
  BY DEF InsertBatch, evaluations, rows
<1>25. ASSUME NEW r
       PROVE  r \in evidence' <=> \/ r \in evidence /\ ~Dropped(r, D, t, batch)
                                  \/ Told(r, D, ids, t, batch)
                                  \/ Added(r, D, t, batch)
  <2>1. r \in evidence' <=> \/ r \in evidence /\ r \notin DroppedBy(evaluations)
                            \/ r \in ToldBy(new, rows, t, batch)
                            \/ r \in AddedBy(evaluations, t, batch)
    BY <1>7
  <2> HIDE DEF ids
  <2>2. Dropped(r, D, t, batch) <=> r \in DroppedBy(evaluations)
    BY <1>4, <1>5, <1>6 DEF Dropped, DroppedBy, ActiveIn
  <2>3. Told(r, D, ids, t, batch) <=> r \in ToldBy(new, rows, t, batch)
    BY <1>6, <1>8, <1>10, <1>24 DEF Told, ToldBy
  <2>4. Added(r, D, t, batch) <=> r \in AddedBy(evaluations, t, batch)
    BY <1>4, <1>5, <1>6 DEF Added, AddedBy, ActiveIn
  <2> QED BY <2>1, <2>2, <2>3, <2>4
<1>26. /\ D \in SUBSET Keys /\ D \subseteq DOMAIN batch /\ D \subseteq rules
       /\ DOMAIN batch \subseteq Keys /\ \A k \in DOMAIN batch : batch[k] \in Nat \ {0}
  BY <1>3, BatchIs
<1>27. /\ \A k \in OpeningIn(D, t, batch) : ids[k] \in lastId + 1 .. lastId'
       /\ \A j, k \in OpeningIn(D, t, batch) : ids[j] = ids[k] => j = k
       /\ DOMAIN events' = DOMAIN events \cup {ids[k] : k \in OpeningIn(D, t, batch)}
  <2>1. \A k \in opening : ids[k] \in lastId + 1 .. lastId'
    BY <1>9, <1>10
  <2>2. \A j, k \in opening : new[j] = new[k] => j = k
    BY <1>7, <1>8
  <2>3. \A j, k \in opening : ids[j] = ids[k] => j = k
    BY <1>10, <2>2
  <2>4. {ids[k] : k \in opening} = {new[k] : k \in opening}
    BY <1>10
  <2> HIDE DEF ids
  <2> QED BY <1>6, <1>19, <2>1, <2>3, <2>4
<1>28. \A k \in OpeningIn(D, t, batch) :
          events'[ids[k]] = OpenedEvent(k, Judged(k, t, batch), t)
  BY <1>4, <1>6, <1>10, <1>20
<1>29. \A k \in ActiveIn(D) :
          events'[Before(k).event]
              = UpdatedEvent(events[Before(k).event], Judged(k, t, batch), t, batch[k])
  <2>1. \A k \in active : k \in D
    BY DEF Active
  <2> HIDE DEF active, D
  <2> QED BY <1>4, <1>5, <1>6, <1>22, <2>1
<1>30. \A id \in DOMAIN events :
          (\A k \in ActiveIn(D) : Before(k).event # id) => events'[id] = events[id]
  <2>1. \A k \in active : k \in D
    BY DEF Active
  <2> HIDE DEF active, D
  <2> QED BY <1>5, <1>6, <1>23, <2>1
<1> HIDE DEF ids, active, D
<1>31. raw' = raw \cup RowsOf(batch, t)
  BY <1>24 DEF rows
<1>32. \A k \in D : saved'[k] = After(Judged(k, t, batch), ids[k], t)
  BY <1>11, <1>15
<1>33. InsertedAs(t, batch, D, ids)
  BY ONLY <1>1, <1>8, <1>10, <1>11, <1>15, <1>16, <1>24, <1>25, <1>26, <1>27, <1>28, <1>29, <1>30,
     <1>31, <1>32 DEF InsertedAs
<1> QED BY <1>33

\* What an update of an open event's row changes.
Updates(row, e, t, v, u) ==
    /\ u.key = row.key /\ u.startedAt = row.startedAt /\ u.detectedAt = row.detectedAt
    /\ u.severity = e.state.severity /\ u.lastSample = t
    /\ u.samples = row.samples + 1
    /\ u.gaps = IF e.dataGap THEN row.gaps + 1 ELSE row.gaps
    /\ PeakWith(row, t, v, u)
    /\ IF e.transition = "close" THEN u.status = "closed" /\ u.endedAt = t
       ELSE u.status = "open" /\ u.endedAt = row.endedAt

LEMMA UpdatedIs ==
    ASSUME NEW row \in Event, row.status = "open", NEW e, NEW t \in Nat, NEW v \in Nat,
           e.state.severity \in Severity, NEW u, u = UpdatedEvent(row, e, t, v)
    PROVE  u \in Event /\ Updates(row, e, t, v, u)
<1> DEFINE gaps == IF e.dataGap THEN row.gaps + 1 ELSE row.gaps
           peak == IF v > row.peak THEN v ELSE row.peak
           peakAt == IF v > row.peak THEN t ELSE row.peakAt
           severity == e.state.severity
           a == [row EXCEPT !.severity = severity]
           b == [a EXCEPT !.lastSample = t]
           c == [b EXCEPT !.samples = row.samples + 1]
           d == [c EXCEPT !.gaps = gaps]
           f == [d EXCEPT !.peak = peak]
           g == [f EXCEPT !.peakAt = peakAt]
           h == [g EXCEPT !.status = "closed"]
           i == [h EXCEPT !.endedAt = t]
<1>1. u = IF e.transition = "close" THEN i ELSE g
  BY DEF UpdatedEvent, Event
<1>2. gaps \in Nat /\ peak \in Nat /\ peakAt \in Nat /\ severity \in Severity
  BY DEF Event
<1> HIDE DEF gaps, peak, peakAt, severity
<1>3. /\ a \in Event /\ a.severity = severity
      /\ a.key = row.key /\ a.startedAt = row.startedAt /\ a.detectedAt = row.detectedAt
      /\ a.status = row.status /\ a.endedAt = row.endedAt
  BY <1>2 DEF Event
<1> HIDE DEF a
<1>4. /\ b \in Event /\ b.severity = severity /\ b.lastSample = t
      /\ b.key = row.key /\ b.startedAt = row.startedAt /\ b.detectedAt = row.detectedAt
      /\ b.status = row.status /\ b.endedAt = row.endedAt
  BY <1>3 DEF Event
<1> HIDE DEF b
<1>5. /\ c \in Event /\ c.severity = severity /\ c.lastSample = t /\ c.samples = row.samples + 1
      /\ c.key = row.key /\ c.startedAt = row.startedAt /\ c.detectedAt = row.detectedAt
      /\ c.status = row.status /\ c.endedAt = row.endedAt
  <2>1. row.samples + 1 \in Nat
    BY DEF Event
  <2> QED BY <1>4, <2>1 DEF Event
<1> HIDE DEF c
<1>6. /\ d \in Event /\ d.severity = severity /\ d.lastSample = t /\ d.samples = row.samples + 1
      /\ d.key = row.key /\ d.startedAt = row.startedAt /\ d.detectedAt = row.detectedAt
      /\ d.status = row.status /\ d.endedAt = row.endedAt /\ d.gaps = gaps
  BY <1>2, <1>5 DEF Event
<1> HIDE DEF d
<1>7. /\ f \in Event /\ f.severity = severity /\ f.lastSample = t /\ f.samples = row.samples + 1
      /\ f.key = row.key /\ f.startedAt = row.startedAt /\ f.detectedAt = row.detectedAt
      /\ f.status = row.status /\ f.endedAt = row.endedAt /\ f.gaps = gaps /\ f.peak = peak
  BY <1>2, <1>6 DEF Event
<1> HIDE DEF f
<1>8. /\ g \in Event /\ g.severity = severity /\ g.lastSample = t /\ g.samples = row.samples + 1
      /\ g.key = row.key /\ g.startedAt = row.startedAt /\ g.detectedAt = row.detectedAt
      /\ g.status = row.status /\ g.endedAt = row.endedAt /\ g.gaps = gaps /\ g.peak = peak
      /\ g.peakAt = peakAt
  BY <1>2, <1>7 DEF Event
<1> HIDE DEF g
<1>9. /\ h \in Event /\ h.severity = severity /\ h.lastSample = t /\ h.samples = row.samples + 1
      /\ h.key = row.key /\ h.startedAt = row.startedAt /\ h.detectedAt = row.detectedAt
      /\ h.status = "closed" /\ h.gaps = gaps /\ h.peak = peak /\ h.peakAt = peakAt
  BY <1>8 DEF Event
<1> HIDE DEF h
<1>10. /\ i \in Event /\ i.severity = severity /\ i.lastSample = t /\ i.samples = row.samples + 1
       /\ i.key = row.key /\ i.startedAt = row.startedAt /\ i.detectedAt = row.detectedAt
       /\ i.status = "closed" /\ i.gaps = gaps /\ i.peak = peak /\ i.peakAt = peakAt
       /\ i.endedAt = t
  BY <1>9 DEF Event
<1> HIDE DEF i
<1>11. /\ u \in Event /\ u.severity = severity /\ u.lastSample = t /\ u.samples = row.samples + 1
       /\ u.key = row.key /\ u.startedAt = row.startedAt /\ u.detectedAt = row.detectedAt
       /\ u.gaps = gaps /\ u.peak = peak /\ u.peakAt = peakAt
       /\ IF e.transition = "close" THEN u.status = "closed" /\ u.endedAt = t
          ELSE u.status = "open" /\ u.endedAt = row.endedAt
  BY <1>1, <1>8, <1>10
<1> QED BY <1>11 DEF gaps, peak, peakAt, severity, PeakWith, Updates

\* The evaluation of one key of a batch.
LEMMA KeyIs ==
    ASSUME StoreInv, NEW t, NEW batch, NEW D, NEW ids, InsertedAs(t, batch, D, ids), NEW k \in D
    PROVE  LET s == Before(k)
               e == Judged(k, t, batch)
               n == saved'[k]
           IN  /\ k \in Keys /\ batch[k] \in Nat \ {0} /\ s \in RuleState /\ s.lastSample < t
               /\ e.state \in RuleState /\ e.startedAt \in Nat /\ e.triggerSamples \in Nat
               /\ n \in RuleState /\ Consistent(n) /\ n.lastSample = t
               /\ k \in OpeningIn(D, t, batch) => Opens(s, t, batch[k], ids[k], e, n)
               /\ k \in ActiveIn(D) => StaysInEvent(s, t, batch[k], e, n)
               /\ k \notin OpeningIn(D, t, batch) /\ k \notin ActiveIn(D)
                     => StaysOutside(s, t, batch[k], e, n)
<1> DEFINE s == Before(k)
           v == batch[k]
           e == Judged(k, t, batch)
           n == saved'[k]
           id == ids[k]
<1>1. /\ t \in Nat \ {0} /\ now < t /\ k \in Keys /\ v \in Nat \ {0} /\ id \in Nat \ {0}
      /\ n = After(e, id, t)
  BY DEF InsertedAs
<1>2. s \in RuleState /\ Consistent(s) /\ s.lastSample \in 0 .. now
  BY <1>1, BeforeIs
<1>3. now \in Nat
  BY EventStoreAssumption DEF StoreInv, TypeOK
<1>4. s.lastSample < t
  BY <1>1, <1>2, <1>3
<1>5. e = Evaluate(s, t, v)
  BY DEF Judged
<1>6. k \in OpeningIn(D, t, batch) <=> e.transition = "open"
  BY DEF OpeningIn
<1>7. k \in ActiveIn(D) <=> s.event # None
  BY DEF ActiveIn
<1> HIDE DEF s, v, e, n, id
<1>8. /\ e.state \in RuleState /\ e.startedAt \in Nat /\ e.triggerSamples \in Nat
      /\ n \in RuleState /\ Consistent(n) /\ n.lastSample = t
      /\ \/ Opens(s, t, v, id, e, n)
         \/ StaysOutside(s, t, v, e, n)
         \/ StaysInEvent(s, t, v, e, n)
  <2>1. Means(s, t, v, id, e, n)
    BY <1>1, <1>2, <1>5, EvaluationMeans
  <2> QED BY <2>1 DEF Means
<1>9. /\ e.transition = "open" => Opens(s, t, v, id, e, n)
      /\ s.event # None => StaysInEvent(s, t, v, e, n)
      /\ e.transition # "open" /\ s.event = None => StaysOutside(s, t, v, e, n)
  BY <1>8 DEF Opens, StaysOutside, StaysInEvent
<1> QED BY <1>1, <1>2, <1>4, <1>6, <1>7, <1>8, <1>9 DEF s, v, e, n, id

\* The rows after a batch: opened, updated or untouched.
OpenedRow(id, k, t, batch, D, ids) ==
    /\ k \in OpeningIn(D, t, batch) /\ id = ids[k] /\ id \notin DOMAIN events
    /\ events'[id] = OpenedEvent(k, Judged(k, t, batch), t)

UpdatedRow(id, k, t, batch, D) ==
    /\ k \in ActiveIn(D) /\ id = Before(k).event /\ id \in DOMAIN events
    /\ k \in DOMAIN saved /\ events[id].key = k /\ events[id].status = "open"
    /\ events'[id] = UpdatedEvent(events[id], Judged(k, t, batch), t, batch[k])

SameRow(id, D) ==
    /\ id \in DOMAIN events /\ events'[id] = events[id]
    /\ \A k \in ActiveIn(D) : Before(k).event # id

LEMMA RowIs ==
    ASSUME StoreInv, NEW t, NEW batch, NEW D, NEW ids, InsertedAs(t, batch, D, ids),
           NEW id \in DOMAIN events'
    PROVE  \/ \E k \in D : OpenedRow(id, k, t, batch, D, ids)
           \/ \E k \in D : UpdatedRow(id, k, t, batch, D)
           \/ SameRow(id, D)
<1>1. \A j \in DOMAIN events : j \in Nat /\ j <= lastId
  BY DEF StoreInv, TypeOK, RowsAgree
<1>2. CASE id \notin DOMAIN events
  <2>1. PICK k \in OpeningIn(D, t, batch) : id = ids[k]
    BY <1>2 DEF InsertedAs
  <2>2. events'[ids[k]] = OpenedEvent(k, Judged(k, t, batch), t) /\ k \in D
    BY DEF InsertedAs, OpeningIn
  <2> QED BY <1>2, <2>1, <2>2 DEF OpenedRow
<1>3. CASE id \in DOMAIN events /\ \E k \in ActiveIn(D) : Before(k).event = id
  <2>1. PICK k \in ActiveIn(D) : Before(k).event = id
    BY <1>3
  <2>2. k \in D /\ k \in Keys /\ Before(k).event # None
    BY DEF ActiveIn, InsertedAs
  <2>3. events'[id] = UpdatedEvent(events[id], Judged(k, t, batch), t, batch[k])
    BY <2>1 DEF InsertedAs
  <2> QED BY <1>3, <2>1, <2>2, <2>3, BeforeIs DEF UpdatedRow
<1>4. CASE id \in DOMAIN events /\ \A k \in ActiveIn(D) : Before(k).event # id
  <2>1. events'[id] = events[id]
    BY <1>4 DEF InsertedAs
  <2> QED BY <1>4, <2>1 DEF SameRow
<1> QED BY <1>2, <1>3, <1>4

\* The rows opened and updated are there.
LEMMA RowsOfKeys ==
    ASSUME StoreInv, NEW t, NEW batch, NEW D, NEW ids, InsertedAs(t, batch, D, ids), NEW k \in D
    PROVE  /\ k \in OpeningIn(D, t, batch) =>
                 ids[k] \in DOMAIN events' /\ OpenedRow(ids[k], k, t, batch, D, ids)
           /\ k \in ActiveIn(D) =>
                 /\ Before(k).event \in DOMAIN events'
                 /\ UpdatedRow(Before(k).event, k, t, batch, D)
<1>1. lastId \in Nat /\ \A j \in DOMAIN events : j \in Nat /\ j <= lastId
  BY DEF StoreInv, TypeOK, RowsAgree
<1>2. ASSUME k \in OpeningIn(D, t, batch)
      PROVE  ids[k] \in DOMAIN events' /\ OpenedRow(ids[k], k, t, batch, D, ids)
  <2>1. /\ ids[k] \in lastId + 1 .. lastId' /\ ids[k] \in DOMAIN events' /\ lastId' \in Nat
        /\ events'[ids[k]] = OpenedEvent(k, Judged(k, t, batch), t)
    BY <1>2 DEF InsertedAs
  <2>2. ids[k] \notin DOMAIN events
    BY <1>1, <2>1
  <2> QED BY <1>2, <2>1, <2>2 DEF OpenedRow
<1>3. ASSUME k \in ActiveIn(D)
      PROVE  Before(k).event \in DOMAIN events' /\ UpdatedRow(Before(k).event, k, t, batch, D)
  <2>1. k \in Keys /\ Before(k).event # None
    BY <1>3 DEF ActiveIn, InsertedAs
  <2>2. events'[Before(k).event]
           = UpdatedEvent(events[Before(k).event], Judged(k, t, batch), t, batch[k])
    BY <1>3 DEF InsertedAs
  <2>3. Before(k).event \in DOMAIN events => Before(k).event \in DOMAIN events'
    BY DEF InsertedAs
  <2> QED BY <1>3, <2>1, <2>2, <2>3, BeforeIs DEF UpdatedRow
<1> QED BY <1>2, <1>3

\* The fields of a new row, and those of an updated one.
LEMMA OpenedFields ==
    ASSUME StoreInv, NEW t, NEW batch, NEW D, NEW ids, InsertedAs(t, batch, D, ids), NEW k \in D,
           NEW id, OpenedRow(id, k, t, batch, D, ids)
    PROVE  LET u == events'[id]
               n == saved'[k]
           IN  /\ Opens(Before(k), t, batch[k], id, Judged(k, t, batch), n)
               /\ u \in Event /\ u.key = k /\ u.status = "open" /\ u.severity = n.severity
               /\ u.startedAt = Judged(k, t, batch).startedAt /\ u.detectedAt = t
               /\ u.peak = n.peak /\ u.peakAt = n.peakAt /\ u.gaps = n.gaps
               /\ u.lastSample = t /\ u.samples = Judged(k, t, batch).triggerSamples
<1> DEFINE e == Judged(k, t, batch)
           n == saved'[k]
<1>1. /\ Opens(Before(k), t, batch[k], id, e, n)
      /\ k \in Keys /\ e.state \in RuleState /\ e.startedAt \in Nat /\ e.triggerSamples \in Nat
  BY KeyIs DEF OpenedRow
<1>2. e.state.severity \in Severity /\ n.severity = e.state.severity /\ n.gaps = e.state.gaps
         /\ n.peak = e.state.peak /\ n.peakAt = e.state.peakAt
  BY <1>1 DEF Opens
<1>3. events'[id] = OpenedEvent(k, e, t) /\ t \in Nat
  BY DEF OpenedRow, InsertedAs
<1> HIDE DEF e, n
<1>4. /\ e.state.peak \in Nat /\ e.state.peakAt \in Nat /\ e.state.gaps \in Nat
  BY <1>1 DEF RuleState
<1>5. OpenedEvent(k, e, t) \in Event
  BY <1>1, <1>2, <1>3, <1>4 DEF OpenedEvent, Event, None
<1> QED BY <1>1, <1>2, <1>3, <1>5 DEF OpenedEvent, e, n

LEMMA UpdatedFields ==
    ASSUME StoreInv, NEW t, NEW batch, NEW D, NEW ids, InsertedAs(t, batch, D, ids), NEW k \in D,
           NEW id, UpdatedRow(id, k, t, batch, D)
    PROVE  LET u == events'[id]
               row == events[id]
               e == Judged(k, t, batch)
           IN  /\ StaysInEvent(Before(k), t, batch[k], e, saved'[k])
               /\ u \in Event /\ row \in Event /\ Updates(row, e, t, batch[k], u)
<1> DEFINE e == Judged(k, t, batch)
           row == events[id]
           v == batch[k]
           u == events'[id]
<1>1. StaysInEvent(Before(k), t, v, e, saved'[k]) /\ v \in Nat
  BY KeyIs DEF UpdatedRow
<1>2. e.state.severity \in Severity
  BY <1>1 DEF StaysInEvent
<1>3. row \in Event /\ row.status = "open" /\ t \in Nat /\ u = UpdatedEvent(row, e, t, v)
  BY DEF UpdatedRow, StoreInv, TypeOK, InsertedAs
<1> HIDE DEF e, row, v, u
<1>4. u \in Event /\ Updates(row, e, t, v, u)
  BY <1>1, <1>2, <1>3, UpdatedIs
<1> QED BY <1>1, <1>3, <1>4 DEF e, row, v, u

\* A row of a key that is not evaluated is left alone.
LEMMA RowOfKey ==
    ASSUME StoreInv, NEW t, NEW batch, NEW D, NEW ids, InsertedAs(t, batch, D, ids),
           NEW id \in DOMAIN events'
    PROVE  LET k == events'[id].key
           IN  \/ k \in D /\ OpenedRow(id, k, t, batch, D, ids)
               \/ k \in D /\ UpdatedRow(id, k, t, batch, D)
               \/ SameRow(id, D)
<1>1. ASSUME NEW k \in D, OpenedRow(id, k, t, batch, D, ids)
      PROVE  events'[id].key = k
  BY <1>1, OpenedFields
<1>2. ASSUME NEW k \in D, UpdatedRow(id, k, t, batch, D)
      PROVE  events'[id].key = k
  <2>1. events'[id].key = events[id].key
    BY <1>2, UpdatedFields DEF Updates
  <2> QED BY <1>2, <2>1 DEF UpdatedRow
<1> QED BY <1>1, <1>2, RowIs

LEMMA OtherRowsStay ==
    ASSUME StoreInv, NEW t, NEW batch, NEW D, NEW ids, InsertedAs(t, batch, D, ids),
           NEW id \in DOMAIN events, events[id].key \notin D
    PROVE  SameRow(id, D) /\ id \in DOMAIN events'
<1>1. \A k \in ActiveIn(D) : events[Before(k).event].key = k /\ k \in D
  BY BeforeIs DEF ActiveIn, InsertedAs
<1>2. \A k \in ActiveIn(D) : Before(k).event # id
  BY <1>1
<1> QED BY <1>2 DEF SameRow, InsertedAs

----------------------------------------------------------------------------
(* A batch keeps the types and the agreement of states and rows. *)

\* The rows of evidence that a batch adds.
LEMMA ToldIs ==
    ASSUME NEW rows, NEW id, NEW k, NEW t, NEW v, NEW r \in OpeningEvidence(rows, id, k, t, v)
    PROVE  \/ r = EvidenceRow(id, t, v, "trigger")
           \/ \E q \in rows : /\ q \in PreludeRows(rows, k, t)
                              /\ r = EvidenceRow(id, q.at, q.value, "prelude")
BY DEF OpeningEvidence, PreludeRows, Newest, PreludeWindow

LEMMA AddedIs ==
    ASSUME NEW id, NEW e, NEW t, NEW v, NEW r \in AddedEvidence(id, e, t, v)
    PROVE  /\ r = EvidenceRow(id, t, v, r.kind) /\ r.kind \in EvidenceKind(e)
           /\ r.kind \in Kind
BY DEF AddedEvidence, EvidenceRow, EvidenceKind, Kind

LEMMA BatchRowsTyped ==
    ASSUME StoreInv, NEW t, NEW batch, NEW D, NEW ids, InsertedAs(t, batch, D, ids)
    PROVE  /\ raw' \subseteq Row /\ evaluated' \subseteq raw'
           /\ \A r \in RowsOf(batch, t) :
                 r.at = t /\ r.key \in DOMAIN batch /\ r.value = batch[r.key]
           /\ \A r \in RowsOf(Only(batch, D), t) :
                 r.at = t /\ r.key \in D /\ r.value = batch[r.key]
<1>1. /\ t \in Nat /\ D \subseteq DOMAIN batch /\ DOMAIN batch \subseteq Keys
      /\ \A k \in DOMAIN batch : batch[k] \in Nat
      /\ raw' = raw \cup RowsOf(batch, t) /\ evaluated' = evaluated \cup RowsOf(Only(batch, D), t)
  BY DEF InsertedAs
<1>2. raw \subseteq Row /\ evaluated \subseteq raw
  BY DEF StoreInv, TypeOK
<1>3. RowsOf(batch, t) \subseteq Row
  BY <1>1 DEF RowsOf, Row
<1>4. /\ RowsOf(Only(batch, D), t) \subseteq RowsOf(batch, t)
      /\ \A r \in RowsOf(Only(batch, D), t) : r.key \in D
  BY <1>1 DEF RowsOf, Only
<1>5. \A r \in RowsOf(batch, t) : r.at = t /\ r.key \in DOMAIN batch /\ r.value = batch[r.key]
  BY DEF RowsOf
<1> QED BY <1>1, <1>2, <1>3, <1>4, <1>5

LEMMA InsertTyped ==
    ASSUME StoreInv, NEW t, NEW batch, NEW D, NEW ids, InsertedAs(t, batch, D, ids),
           t <= MaxTime
    PROVE  TypeOK'
<1>1. /\ t \in Nat \ {0} /\ now' = t /\ writer' = writer /\ rules' = rules
      /\ live' = Only(saved', rules) /\ DOMAIN saved' = DOMAIN saved \cup D
      /\ D \subseteq Keys
      /\ \A k \in DOMAIN saved \ D : saved'[k] = saved[k]
  BY DEF InsertedAs
<1>2. /\ writer \in {"running", "stopped"} /\ rules \subseteq Keys
      /\ DOMAIN saved \subseteq Keys /\ \A k \in DOMAIN saved : saved[k] \in RuleState
  BY DEF StoreInv, TypeOK
<1>3. now' \in 0 .. MaxTime
  BY <1>1, EventStoreAssumption
<1>4. \A k \in DOMAIN saved' : saved'[k] \in RuleState
  <2>1. \A k \in D : saved'[k] \in RuleState
    BY KeyIs
  <2> QED BY <1>1, <1>2, <2>1
<1>5. DOMAIN live' \subseteq rules' /\ \A k \in DOMAIN live' : live'[k] \in RuleState
  BY <1>1, <1>4 DEF Only
<1>6. DOMAIN events' \subseteq 1 .. lastId'
  <2>1. DOMAIN events \subseteq 1 .. lastId /\ lastId \in Nat
    BY DEF StoreInv, TypeOK, RowsAgree
  <2>2. lastId' \in Nat /\ lastId <= lastId'
    BY DEF InsertedAs
  <2>3. \A k \in OpeningIn(D, t, batch) : ids[k] \in lastId + 1 .. lastId'
    BY DEF InsertedAs
  <2>4. DOMAIN events' = DOMAIN events \cup {ids[k] : k \in OpeningIn(D, t, batch)}
    BY DEF InsertedAs
  <2> QED BY <2>1, <2>2, <2>3, <2>4
<1>7. ASSUME NEW id \in DOMAIN events' PROVE events'[id] \in Event
  <2>1. CASE SameRow(id, D)
    BY <2>1 DEF SameRow, StoreInv, TypeOK
  <2> QED BY <2>1, RowIs, OpenedFields, UpdatedFields
<1>8. ASSUME NEW r \in evidence' PROVE r \in Evidence /\ r.event \in DOMAIN events'
  <2>1. CASE r \in evidence
    BY <2>1 DEF StoreInv, TypeOK, InsertedAs
  <2>2. CASE Told(r, D, ids, t, batch)
    <3>1. PICK k \in OpeningIn(D, t, batch) : r \in OpeningEvidence(raw', ids[k], k, t, batch[k])
      BY <2>2 DEF Told
    <3>2. k \in D /\ batch[k] \in Nat /\ t \in Nat
      BY <1>1, KeyIs DEF OpeningIn
    <3>3. ids[k] \in DOMAIN events' /\ ids[k] \in Nat
      BY <3>2, RowsOfKeys DEF InsertedAs
    <3>4. CASE r = EvidenceRow(ids[k], t, batch[k], "trigger")
      BY <3>2, <3>3, <3>4 DEF EvidenceRow, Evidence, Kind
    <3>5. ASSUME NEW q \in raw', r = EvidenceRow(ids[k], q.at, q.value, "prelude")
          PROVE  r \in Evidence /\ r.event \in DOMAIN events'
      <4>1. q.at \in Nat /\ q.value \in Nat
        BY BatchRowsTyped DEF Row
      <4> QED BY <3>3, <3>5, <4>1 DEF EvidenceRow, Evidence, Kind
    <3> QED BY <3>1, <3>4, <3>5, ToldIs
  <2>3. CASE Added(r, D, t, batch)
    <3>1. PICK k \in ActiveIn(D) :
             r \in AddedEvidence(Before(k).event, Judged(k, t, batch), t, batch[k])
      BY <2>3 DEF Added
    <3>2. k \in D /\ batch[k] \in Nat /\ t \in Nat
      BY <1>1, KeyIs DEF ActiveIn
    <3>3. Before(k).event \in DOMAIN events' /\ Before(k).event \in Nat
      BY <3>2, RowsOfKeys, KeyIs DEF RuleState
    <3>4. r = EvidenceRow(Before(k).event, t, batch[k], r.kind) /\ r.kind \in Kind
      BY <3>1, AddedIs
    <3> QED BY <3>2, <3>3, <3>4 DEF EvidenceRow, Evidence
  <2> QED BY <2>1, <2>2, <2>3 DEF InsertedAs
<1>9. raw' \subseteq Row /\ evaluated' \subseteq raw'
  BY BatchRowsTyped
<1> QED BY <1>1, <1>2, <1>3, <1>4, <1>5, <1>6, <1>7, <1>8, <1>9 DEF TypeOK

LEMMA InsertStates ==
    ASSUME StoreInv, NEW t, NEW batch, NEW D, NEW ids, InsertedAs(t, batch, D, ids)
    PROVE  EngineMatchesStore' /\ StatesAgree'
<1>1. /\ t \in Nat \ {0} /\ now < t /\ now' = t /\ rules' = rules
      /\ live' = Only(saved', rules) /\ DOMAIN saved' = DOMAIN saved \cup D
      /\ \A k \in DOMAIN saved \ D : saved'[k] = saved[k]
  BY DEF InsertedAs
<1>2. now \in Nat
  BY EventStoreAssumption DEF StoreInv, TypeOK
<1>3. ASSUME NEW k \in DOMAIN saved'
      PROVE  Consistent(saved'[k]) /\ saved'[k].lastSample \in 1 .. now'
  <2>1. CASE k \in D
    BY <1>1, <2>1, KeyIs
  <2>2. CASE k \notin D
    <3>1. k \in DOMAIN saved /\ saved'[k] = saved[k]
      BY <1>1, <2>2
    <3>2. Consistent(saved[k]) /\ saved[k].lastSample \in 1 .. now
      BY <3>1 DEF StoreInv, StatesAgree
    <3> QED BY <1>1, <1>2, <3>1, <3>2
  <2> QED BY <2>1, <2>2
<1> QED BY <1>1, <1>3 DEF EngineMatchesStore, load_engine, StatesAgree

\* The rows of one batch are finitely many.
LEMMA FiniteRows ==
    ASSUME NEW batch, DOMAIN batch \subseteq Keys, NEW t
    PROVE  IsFiniteSet(RowsOf(batch, t))
<1>1. IsFiniteSet(DOMAIN batch)
  BY EventStoreAssumption, FS_Subset
<1> DEFINE f == [k \in DOMAIN batch |-> [key |-> k, at |-> t, value |-> batch[k]]]
<1>2. f \in Surjection(DOMAIN batch, RowsOf(batch, t))
  BY DEF RowsOf, Surjection
<1> HIDE DEF f
<1> QED BY <1>1, <1>2, FS_Surjection

LEMMA InsertRows ==
    ASSUME StoreInv, NEW t, NEW batch, NEW D, NEW ids, InsertedAs(t, batch, D, ids)
    PROVE  RowsAgree'
<1>1. /\ t \in Nat \ {0} /\ now < t /\ now' = t /\ lastId' \in Nat
      /\ D \subseteq Keys /\ DOMAIN batch \subseteq Keys
      /\ DOMAIN saved' = DOMAIN saved \cup D
      /\ \A k \in DOMAIN saved \ D : saved'[k] = saved[k]
      /\ raw' = raw \cup RowsOf(batch, t) /\ evaluated' = evaluated \cup RowsOf(Only(batch, D), t)
  BY DEF InsertedAs
<1>2. now \in Nat
  BY EventStoreAssumption DEF StoreInv, TypeOK
<1>3. /\ \A r \in RowsOf(batch, t) : r.at = t /\ r.key \in DOMAIN batch /\ r.value = batch[r.key]
      /\ \A r \in RowsOf(Only(batch, D), t) : r.at = t /\ r.key \in D
  BY BatchRowsTyped
<1>4. \A r, q \in RowsOf(batch, t) : r.key = q.key => r = q
  BY DEF RowsOf
<1>5. /\ IsFiniteSet(raw)
      /\ \A r \in raw : r.at \in 1 .. now
      /\ \A r, q \in raw : r.key = q.key /\ r.at = q.at => r = q
      /\ \A r \in evaluated : r.key \in DOMAIN saved /\ r.at <= saved[r.key].lastSample
  BY DEF StoreInv, RowsAgree
<1>6. IsFiniteSet(raw')
  BY <1>1, <1>5, FiniteRows, FS_Union
<1>7. \A r \in raw' : r.at \in 1 .. now'
  BY <1>1, <1>2, <1>3, <1>5
<1>8. ASSUME NEW r \in raw', NEW q \in raw', r.key = q.key, r.at = q.at
      PROVE  r = q
  <2>1. \A x \in raw, y \in RowsOf(batch, t) : x.at # y.at
    BY <1>1, <1>2, <1>3, <1>5
  <2> QED BY <1>1, <1>4, <1>5, <1>8, <2>1
<1>9. ASSUME NEW r \in evaluated'
      PROVE  r.key \in DOMAIN saved' /\ r.at <= saved'[r.key].lastSample
  <2>1. CASE r \in RowsOf(Only(batch, D), t)
    <3>1. r.at = t /\ r.key \in D
      BY <1>3, <2>1
    <3>2. saved'[r.key].lastSample = t
      BY <3>1, KeyIs
    <3> QED BY <1>1, <3>1, <3>2
  <2>2. CASE r \in evaluated
    <3>1. r.key \in DOMAIN saved /\ r.at <= saved[r.key].lastSample /\ r.at \in 1 .. now
      BY <1>5, <2>2 DEF StoreInv, TypeOK
    <3>2. CASE r.key \in D
      <4>1. saved'[r.key].lastSample = t
        BY <3>2, KeyIs
      <4> QED BY <1>1, <1>2, <3>1, <4>1
    <3>3. CASE r.key \notin D
      BY <1>1, <3>1, <3>3
    <3> QED BY <3>2, <3>3
  <2> QED BY <1>1, <2>1, <2>2
<1> QED BY <1>1, <1>6, <1>7, <1>8, <1>9 DEF RowsAgree

\* A candidate that counts from some sample counts from one that has been seen.
LEMMA CountsSince ==
    ASSUME StoreInv, NEW k \in Keys, NEW t \in Nat, now < t, NEW v, NEW n, NEW c,
           Counts(Before(k), t, v, n, c)
    PROVE  c.since <= t
<1> DEFINE s == Before(k)
<1>1. /\ s \in RuleState /\ s.lastSample \in 0 .. now
      /\ s.phase = "pending" => s.pending.since <= s.lastSample
  <2>1. DefaultState.phase # "pending"
    BY DEF DefaultState
  <2>2. s = IF k \in DOMAIN saved THEN saved[k] ELSE DefaultState
    BY DEF Before
  <2>3. s.phase = "pending" => s.pending.since <= s.lastSample
    BY <2>1, <2>2 DEF StoreInv, TimesAgree
  <2> QED BY <2>3, BeforeIs
<1>2. now \in Nat
  BY EventStoreAssumption DEF StoreInv, TypeOK
<1> HIDE DEF s
<1>3. s.pending \in CandidateState /\ s.pending.since \in Nat
  BY <1>1 DEF RuleState, CandidateState
<1>4. NewCandidate(t).since = t
  BY DEF NewCandidate
<1>5. ExtendCandidate(s.pending).since = s.pending.since
  BY <1>3 DEF ExtendCandidate, CandidateState
<1>6. c.since = t \/ (s.phase = "pending" /\ c.since = s.pending.since)
  BY <1>4, <1>5 DEF Counts, s
<1> QED BY <1>1, <1>2, <1>3, <1>6

LEMMA InsertTimes ==
    ASSUME StoreInv, NEW t, NEW batch, NEW D, NEW ids, InsertedAs(t, batch, D, ids)
    PROVE  TimesAgree'
<1>1. /\ t \in Nat \ {0} /\ now < t /\ now' = t /\ now \in Nat /\ D \subseteq Keys
      /\ DOMAIN saved' = DOMAIN saved \cup D
      /\ \A k \in DOMAIN saved \ D : saved'[k] = saved[k]
  BY EventStoreAssumption DEF InsertedAs, StoreInv, TypeOK
<1>2. ASSUME NEW k \in DOMAIN saved', saved'[k].phase = "pending"
      PROVE  saved'[k].pending.since <= saved'[k].lastSample
  <2>1. CASE k \in D
    <3>1. saved'[k].lastSample = t /\ k \in Keys
      BY <2>1, KeyIs
    <3>2. StaysOutside(Before(k), t, batch[k], Judged(k, t, batch), saved'[k])
      BY <1>2, <2>1, KeyIs DEF Opens, StaysInEvent
    <3>3. Counts(Before(k), t, batch[k], saved'[k], saved'[k].pending)
      BY <1>2, <3>2 DEF StaysOutside
    <3> QED BY <1>1, <3>1, <3>3, CountsSince
  <2>2. CASE k \notin D
    BY <1>1, <1>2, <2>2 DEF StoreInv, TimesAgree
  <2> QED BY <2>1, <2>2
<1>3. ASSUME NEW id \in DOMAIN events'
      PROVE  /\ events'[id].startedAt <= events'[id].detectedAt
             /\ events'[id].detectedAt <= events'[id].lastSample
             /\ events'[id].lastSample <= now'
  <2>1. ASSUME NEW k \in D, OpenedRow(id, k, t, batch, D, ids)
        PROVE  /\ events'[id].startedAt <= t
               /\ events'[id].detectedAt = t /\ events'[id].lastSample = t
    <3> DEFINE c == [since |-> Judged(k, t, batch).startedAt,
                     samples |-> Judged(k, t, batch).triggerSamples]
    <3>1. /\ Opens(Before(k), t, batch[k], id, Judged(k, t, batch), saved'[k])
          /\ events'[id].startedAt = c.since
          /\ events'[id].detectedAt = t /\ events'[id].lastSample = t
      BY <2>1, OpenedFields
    <3>2. Counts(Before(k), t, batch[k], saved'[k], c)
      BY <3>1 DEF Opens
    <3> HIDE DEF c
    <3>3. c.since <= t
      BY <1>1, <3>2, CountsSince
    <3> QED BY <3>1, <3>3
  <2>2. ASSUME NEW k \in D, UpdatedRow(id, k, t, batch, D)
        PROVE  /\ events'[id].startedAt <= events'[id].detectedAt
               /\ events'[id].detectedAt <= t /\ events'[id].lastSample = t
    <3>1. /\ events'[id].startedAt = events[id].startedAt
          /\ events'[id].detectedAt = events[id].detectedAt
          /\ events'[id].lastSample = t
          /\ events[id] \in Event
      BY <2>2, UpdatedFields DEF Updates
    <3>2. id \in DOMAIN events
      BY <2>2 DEF UpdatedRow
    <3>3. /\ events[id].startedAt <= events[id].detectedAt
          /\ events[id].detectedAt <= events[id].lastSample
          /\ events[id].lastSample <= now
      BY <3>2 DEF StoreInv, TimesAgree
    <3>4. /\ events[id].detectedAt \in Nat /\ events[id].lastSample \in Nat
      BY <3>1 DEF Event
    <3> QED BY <1>1, <3>1, <3>3, <3>4
  <2>3. CASE SameRow(id, D)
    <3>1. id \in DOMAIN events /\ events'[id] = events[id] /\ events[id] \in Event
      BY <2>3 DEF SameRow, StoreInv, TypeOK
    <3>2. /\ events[id].startedAt <= events[id].detectedAt
          /\ events[id].detectedAt <= events[id].lastSample
          /\ events[id].lastSample <= now
      BY <3>1 DEF StoreInv, TimesAgree
    <3>3. events[id].lastSample \in Nat
      BY <3>1 DEF Event
    <3> QED BY <1>1, <3>1, <3>2, <3>3
  <2>4. t <= t
    BY <1>1
  <2> QED BY <1>1, <2>1, <2>2, <2>3, <2>4, RowIs
<1> QED BY <1>2, <1>3 DEF TimesAgree

\* A row agrees with the state that it is kept beside.
RowMatches(row, s) ==
    /\ row.severity = s.severity /\ row.peak = s.peak /\ row.peakAt = s.peakAt
    /\ row.gaps = s.gaps /\ row.lastSample = s.lastSample

\* EventMatchesState for one key, whose open events are ids.
KeyMatches(ids, s, rows) ==
    IF s.event # None THEN ids = {s.event} /\ RowMatches(rows[s.event], s) ELSE ids = {}

LEMMA EventMatchesStateByKey ==
    /\ EventMatchesState <=> \A k \in Keys : KeyMatches(OpenEventsOf(k), Before(k), events)
    /\ EventMatchesState' <=>
          \A k \in Keys : KeyMatches(OpenEventsOf(k)', Before(k)', events')
<1>1. DefaultState.event = None
  BY DEF DefaultState
<1>2. ASSUME NEW k \in Keys
      PROVE  KeyMatches(OpenEventsOf(k), Before(k), events) <=>
                IF k \in DOMAIN saved /\ saved[k].event # None
                  THEN /\ OpenEventsOf(k) = {saved[k].event}
                       /\ RowMatches(events[saved[k].event], saved[k])
                  ELSE OpenEventsOf(k) = {}
  BY <1>1 DEF KeyMatches, Before
<1>3. ASSUME NEW k \in Keys
      PROVE  KeyMatches(OpenEventsOf(k)', Before(k)', events') <=>
                IF k \in DOMAIN saved' /\ saved'[k].event # None
                  THEN /\ OpenEventsOf(k)' = {saved'[k].event}
                       /\ RowMatches(events'[saved'[k].event], saved'[k])
                  ELSE OpenEventsOf(k)' = {}
  BY <1>1 DEF KeyMatches, Before
<1>4. EventMatchesState <=> \A k \in Keys : KeyMatches(OpenEventsOf(k), Before(k), events)
  BY <1>2 DEF EventMatchesState, RowMatches
<1>5. EventMatchesState' <=>
         \A k \in Keys : KeyMatches(OpenEventsOf(k)', Before(k)', events')
  BY <1>3 DEF EventMatchesState, RowMatches
<1> QED BY <1>4, <1>5

\* The open events of an evaluated key are the one it opened, or the one it stays in.
LEMMA OpenEventsAfter ==
    ASSUME StoreInv, NEW t, NEW batch, NEW D, NEW ids, InsertedAs(t, batch, D, ids), NEW k \in D,
           NEW id
    PROVE  id \in OpenEventsOf(k)' <=>
              /\ id \in DOMAIN events' /\ events'[id].status = "open"
              /\ \/ OpenedRow(id, k, t, batch, D, ids)
                 \/ UpdatedRow(id, k, t, batch, D)
<1>1. id \in OpenEventsOf(k)' <=>
         id \in DOMAIN events' /\ events'[id].key = k /\ events'[id].status = "open"
  BY DEF OpenEventsOf
<1>2. ASSUME id \in DOMAIN events', events'[id].key = k, events'[id].status = "open"
      PROVE  ~SameRow(id, D)
  <2>1. SUFFICES ASSUME SameRow(id, D) PROVE FALSE
    OBVIOUS
  <2>2. id \in DOMAIN events /\ events[id].key = k /\ events[id].status = "open"
    BY <1>2, <2>1 DEF SameRow
  <2>3. id \in OpenEventsOf(k) /\ k \in Keys
    BY <2>2, KeyIs DEF OpenEventsOf
  <2>4. KeyMatches(OpenEventsOf(k), Before(k), events)
    BY <2>3, EventMatchesStateByKey DEF StoreInv
  <2>5. Before(k).event # None /\ Before(k).event = id
    BY <2>3, <2>4 DEF KeyMatches
  <2>6. k \in ActiveIn(D)
    BY <2>5 DEF ActiveIn
  <2> QED BY <2>1, <2>5, <2>6 DEF SameRow
<1>3. ASSUME OpenedRow(id, k, t, batch, D, ids) PROVE events'[id].key = k
  BY <1>3, OpenedFields
<1>4. ASSUME UpdatedRow(id, k, t, batch, D) PROVE events'[id].key = k
  BY <1>4, UpdatedFields DEF UpdatedRow, Updates
<1> QED BY <1>1, <1>2, <1>3, <1>4, RowOfKey

LEMMA InsertMatches ==
    ASSUME StoreInv, NEW t, NEW batch, NEW D, NEW ids, InsertedAs(t, batch, D, ids)
    PROVE  EventMatchesState'
<1>1. /\ DOMAIN saved' = DOMAIN saved \cup D
      /\ \A k \in DOMAIN saved \ D : saved'[k] = saved[k]
      /\ D \subseteq Keys
  BY DEF InsertedAs
<1>2. ASSUME NEW k \in Keys
      PROVE  KeyMatches(OpenEventsOf(k), Before(k), events)
  BY EventMatchesStateByKey DEF StoreInv
<1>3. ASSUME NEW k \in Keys
      PROVE  KeyMatches(OpenEventsOf(k)', Before(k)', events')
  <2>1. CASE k \notin D
    <3>1. Before(k)' = Before(k)
      BY <1>1, <2>1 DEF Before
    <3>2. ASSUME NEW id \in DOMAIN events' \cup DOMAIN events,
                 id \in OpenEventsOf(k) \/ id \in OpenEventsOf(k)'
          PROVE  /\ id \in OpenEventsOf(k) /\ id \in OpenEventsOf(k)'
                 /\ events'[id] = events[id]
      <4>1. CASE id \in OpenEventsOf(k)
        <5>1. id \in DOMAIN events /\ events[id].key = k
          BY <4>1 DEF OpenEventsOf
        <5>2. SameRow(id, D) /\ id \in DOMAIN events'
          BY <2>1, <5>1, OtherRowsStay
        <5> QED BY <4>1, <5>1, <5>2 DEF OpenEventsOf, SameRow
      <4>2. CASE id \in OpenEventsOf(k)'
        <5>1. id \in DOMAIN events' /\ events'[id].key = k
          BY <4>2 DEF OpenEventsOf
        <5>2. SameRow(id, D)
          BY <2>1, <5>1, RowOfKey
        <5> QED BY <4>2, <5>1, <5>2 DEF OpenEventsOf, SameRow
      <4> QED BY <3>2, <4>1, <4>2
    <3>3. OpenEventsOf(k) \subseteq DOMAIN events /\ OpenEventsOf(k)' \subseteq DOMAIN events'
      BY DEF OpenEventsOf
    <3>4. OpenEventsOf(k)' = OpenEventsOf(k) /\ \A id \in OpenEventsOf(k) : events'[id] = events[id]
      BY <3>2, <3>3
    <3> QED BY <1>2, <3>1, <3>4 DEF KeyMatches
  <2>2. ASSUME k \in D
        PROVE  KeyMatches(OpenEventsOf(k)', Before(k)', events')
    <3> DEFINE n == saved'[k]
               e == Judged(k, t, batch)
               v == batch[k]
    <3>1. Before(k)' = n /\ n.lastSample = t /\ n \in RuleState
      BY <1>1, <2>2, KeyIs DEF Before
    <3>2. CASE k \in OpeningIn(D, t, batch)
      <4>1. ids[k] \in DOMAIN events' /\ OpenedRow(ids[k], k, t, batch, D, ids)
        BY <2>2, <3>2, RowsOfKeys
      <4>2. Opens(Before(k), t, v, ids[k], e, n) /\ events'[ids[k]].status = "open"
               /\ RowMatches(events'[ids[k]], n)
        BY <2>2, <3>1, <4>1, OpenedFields DEF RowMatches
      <4>3. Before(k).event = None /\ n.event = ids[k] /\ ids[k] # None
        BY <2>2, <4>2 DEF Opens, InsertedAs, None
      <4>4. k \notin ActiveIn(D)
        BY <4>3 DEF ActiveIn
      <4>5. \A id : ~UpdatedRow(id, k, t, batch, D)
        BY <4>4 DEF UpdatedRow
      <4>6. \A id : OpenedRow(id, k, t, batch, D, ids) => id = ids[k]
        BY DEF OpenedRow
      <4>7. \A id : id \in OpenEventsOf(k)' <=> id = ids[k]
        BY <2>2, <4>1, <4>2, <4>5, <4>6, OpenEventsAfter
      <4>8. OpenEventsOf(k)' = {ids[k]}
        BY <4>7
      <4> QED BY <3>1, <4>2, <4>3, <4>8 DEF KeyMatches
    <3>3. CASE k \in ActiveIn(D)
      <4> DEFINE j == Before(k).event
                 row == events[j]
                 u == events'[j]
      <4>1. j \in DOMAIN events' /\ UpdatedRow(j, k, t, batch, D) /\ j # None
        BY <2>2, <3>3, RowsOfKeys DEF ActiveIn
      <4>2. /\ StaysInEvent(Before(k), t, v, e, n)
            /\ Updates(row, e, t, v, u)
        BY <2>2, <4>1, UpdatedFields
      <4>3. RowMatches(row, Before(k))
        BY <1>2, <4>1 DEF KeyMatches
      <4>4. k \notin OpeningIn(D, t, batch)
        BY <4>2 DEF StaysInEvent, OpeningIn
      <4>5. \A id : ~OpenedRow(id, k, t, batch, D, ids)
        BY <4>4 DEF OpenedRow
      <4>6. \A id : UpdatedRow(id, k, t, batch, D) => id = j
        BY DEF UpdatedRow
      <4>7. \A id : id \in OpenEventsOf(k)' <=> id = j /\ u.status = "open"
        BY <2>2, <4>1, <4>5, <4>6, OpenEventsAfter
      <4>8. CASE e.transition = "close"
        <5>1. u.status # "open" /\ n.event = None
          BY <4>2, <4>8 DEF StaysInEvent, Updates
        <5>2. OpenEventsOf(k)' = {}
          BY <4>7, <5>1
        <5> QED BY <3>1, <5>1, <5>2 DEF KeyMatches
      <4>9. CASE e.transition # "close"
        <5>1. u.status = "open" /\ n.event = j /\ n = e.state
          BY <4>2, <4>9 DEF StaysInEvent, Updates
        <5>2. OpenEventsOf(k)' = {j}
          BY <4>7, <5>1
        <5>3. /\ u.severity = n.severity /\ u.lastSample = n.lastSample /\ u.gaps = n.gaps
              /\ PeakWith(row, t, v, u) /\ PeakWith(Before(k), t, v, n)
          BY <3>1, <4>2, <4>3, <5>1 DEF StaysInEvent, Updates, RowMatches
        <5>4. u.peak = n.peak /\ u.peakAt = n.peakAt
          BY <4>3, <5>3 DEF PeakWith, RowMatches
        <5> QED BY <3>1, <4>1, <5>1, <5>2, <5>3, <5>4 DEF KeyMatches, RowMatches
      <4> QED BY <4>8, <4>9
    <3>4. CASE k \notin OpeningIn(D, t, batch) /\ k \notin ActiveIn(D)
      <4>1. n.event = None
        BY <2>2, <3>4, KeyIs DEF StaysOutside
      <4>2. \A id : ~OpenedRow(id, k, t, batch, D, ids) /\ ~UpdatedRow(id, k, t, batch, D)
        BY <3>4 DEF OpenedRow, UpdatedRow
      <4>3. OpenEventsOf(k)' = {}
        BY <2>2, <4>2, OpenEventsAfter
      <4> QED BY <3>1, <4>1, <4>3 DEF KeyMatches
    <3> QED BY <3>2, <3>3, <3>4
  <2> QED BY <2>1, <2>2
<1> QED BY <1>3, EventMatchesStateByKey

----------------------------------------------------------------------------
(* The invariant holds. *)

LEMMA StoreInit == Init => StoreInv
<1> SUFFICES ASSUME Init PROVE StoreInv
  OBVIOUS
<1>1. TypeOK
  BY EventStoreAssumption DEF Init, TypeOK
<1>2. EngineMatchesStore
  BY DEF Init, EngineMatchesStore, load_engine, Only
<1>3. StatesAgree /\ EventMatchesState /\ TimesAgree
  BY DEF Init, StatesAgree, EventMatchesState, OpenEventsOf, TimesAgree
<1>4. RowsAgree
  BY FS_EmptySet DEF Init, RowsAgree
<1> QED BY <1>1, <1>2, <1>3, <1>4 DEF StoreInv

LEMMA InsertStep ==
    ASSUME StoreInv, NEW t \in now + 1 .. now + MaxStep, NEW batch \in Batches, t <= MaxTime,
           InsertBatch(t, batch)
    PROVE  StoreInv'
<1>1. PICK D, ids : InsertedAs(t, batch, D, ids)
  BY InsertIs
<1> QED BY <1>1, InsertTyped, InsertStates, InsertRows, InsertTimes, InsertMatches DEF StoreInv

\* The clock moves on, the tables and the engine stay.
LEMMA FailsStep ==
    ASSUME StoreInv, NEW t \in now + 1 .. now + MaxStep, NEW batch, t <= MaxTime,
           InsertFails(t, batch)
    PROVE  StoreInv'
<1>1. /\ now' = t /\ writer' = "stopped"
      /\ UNCHANGED <<rules, live, saved, events, lastId, evidence, raw, evaluated>>
  BY DEF InsertFails, tables
<1>2. now \in Nat /\ t \in Nat /\ now < t
  BY EventStoreAssumption DEF StoreInv, TypeOK
<1>3. TypeOK'
  BY <1>1, <1>2, EventStoreAssumption DEF StoreInv, TypeOK
<1>4. EngineMatchesStore' /\ EventMatchesState'
  BY <1>1 DEF StoreInv, EngineMatchesStore, load_engine, EventMatchesState, OpenEventsOf
<1>5. StatesAgree'
  BY <1>1, <1>2 DEF StoreInv, StatesAgree
<1>6. RowsAgree'
  BY <1>1, <1>2 DEF StoreInv, RowsAgree
<1>7. TimesAgree'
  <2>1. ASSUME NEW id \in DOMAIN events PROVE events[id].lastSample <= t
    <3>1. events[id].lastSample \in Nat
      BY DEF StoreInv, TypeOK, Event
    <3> QED BY <1>2, <3>1 DEF StoreInv, TimesAgree
  <2> QED BY <1>1, <2>1 DEF StoreInv, TimesAgree
<1> QED BY <1>3, <1>4, <1>5, <1>6, <1>7 DEF StoreInv

\* Only closed events, which no state is in, go, and their evidence with them.
LEMMA DeleteStep ==
    ASSUME StoreInv, DeleteClosedEvents
    PROVE  StoreInv'
<1>1. /\ UNCHANGED <<now, writer, rules, live, saved, lastId, raw, evaluated>>
  BY DEF DeleteClosedEvents
<1>2. PICK ids \in SUBSET Expired :
         /\ events' = Only(events, DOMAIN events \ ids)
         /\ evidence' = evidence \ EvidenceOf(ids)
  BY DEF DeleteClosedEvents
<1>3. /\ DOMAIN events' = DOMAIN events \ ids
      /\ \A id \in DOMAIN events' : events'[id] = events[id]
  BY <1>2 DEF Only
<1>4. \A r \in evidence' : r \in evidence /\ r.event \notin ids
  BY <1>2 DEF EvidenceOf
<1>5. TypeOK'
  BY <1>1, <1>3, <1>4 DEF StoreInv, TypeOK
<1>6. EngineMatchesStore' /\ StatesAgree' /\ RowsAgree' /\ TimesAgree'
  BY <1>1, <1>3 DEF StoreInv, EngineMatchesStore, load_engine, StatesAgree, RowsAgree, TimesAgree
<1>7. ASSUME NEW k \in Keys PROVE OpenEventsOf(k)' = OpenEventsOf(k)
  <2>1. \A id \in ids : events[id].status = "closed"
    BY DEF Expired
  <2> QED BY <1>3, <2>1 DEF OpenEventsOf
<1>8. EventMatchesState'
  <2>1. ASSUME NEW k \in Keys, NEW id \in OpenEventsOf(k) PROVE events'[id] = events[id]
    BY <1>3, <1>7, <2>1 DEF OpenEventsOf
  <2>2. ASSUME NEW k \in Keys PROVE KeyMatches(OpenEventsOf(k)', Before(k)', events')
    <3>1. KeyMatches(OpenEventsOf(k), Before(k), events)
      BY EventMatchesStateByKey DEF StoreInv
    <3>2. Before(k)' = Before(k)
      BY <1>1 DEF Before
    <3> QED BY <1>7, <2>1, <3>1, <3>2 DEF KeyMatches
  <2> QED BY <2>2, EventMatchesStateByKey
<1> QED BY <1>5, <1>6, <1>8 DEF StoreInv

LEMMA RestartStep ==
    ASSUME StoreInv, NEW configured \in Configurations, Restart(configured)
    PROVE  StoreInv'
<1>1. /\ writer' = "running" /\ rules' = configured /\ live' = Only(saved, configured)
      /\ UNCHANGED <<now, saved, events, lastId, evidence, raw, evaluated>>
  BY DEF Restart, load_engine, tables
<1>2. configured \subseteq Keys
  BY EventStoreAssumption
<1>3. TypeOK'
  BY <1>1, <1>2 DEF StoreInv, TypeOK, Only
<1>4. EngineMatchesStore'
  BY <1>1 DEF EngineMatchesStore, load_engine
<1>5. StatesAgree' /\ RowsAgree' /\ TimesAgree' /\ EventMatchesState'
  BY <1>1 DEF StoreInv, StatesAgree, RowsAgree, TimesAgree, EventMatchesState, OpenEventsOf
<1> QED BY <1>3, <1>4, <1>5 DEF StoreInv

LEMMA StoreInvariant == Spec => []StoreInv
<1>1. StoreInv /\ [Next]_vars => StoreInv'
  <2> SUFFICES ASSUME StoreInv, [Next]_vars PROVE StoreInv'
    OBVIOUS
  <2>1. ASSUME NEW t \in now + 1 .. now + MaxStep, NEW batch \in Batches, t <= MaxTime,
               InsertBatch(t, batch) \/ InsertFails(t, batch)
        PROVE  StoreInv'
    BY <2>1, InsertStep, FailsStep
  <2>2. CASE DeleteClosedEvents
    BY <2>2, DeleteStep
  <2>3. ASSUME NEW configured \in Configurations, Restart(configured) PROVE StoreInv'
    BY <2>3, RestartStep
  <2>4. CASE UNCHANGED vars
    BY <2>4 DEF vars, StoreInv, TypeOK, EngineMatchesStore, load_engine, StatesAgree, RowsAgree,
                TimesAgree, EventMatchesState, OpenEventsOf
  <2> QED BY <2>1, <2>2, <2>3, <2>4 DEF Next
<1> QED BY <1>1, StoreInit, PTL DEF Spec

\* Every state and row is of its type, and no evidence, whatever batches fail, restarts change
\* the rules and maintenance deletes, refers to an event that is not there (apply_evaluation,
\* insert_evidence, delete_closed_events).
THEOREM TypeCorrect == Spec => []TypeOK
<1>1. StoreInv => TypeOK
  BY DEF StoreInv
<1> QED BY <1>1, StoreInvariant, PTL

\* The engine in memory is at any time the one that load_engine would build from the table, so
\* neither a batch that failed (insert_batch works on a clone) nor a restart loses or repeats
\* a sample's effect.
THEOREM EngineAgrees == Spec => []EngineMatchesStore
<1>1. StoreInv => EngineMatchesStore
  BY DEF StoreInv
<1> QED BY <1>1, StoreInvariant, PTL

\* A key has at most one open event, exactly if its persisted state is in one, and the
\* event's row, counted up by apply_evaluation, agrees with the state that the engine counts.
THEOREM EventMatches == Spec => []EventMatchesState
<1>1. StoreInv => EventMatchesState
  BY DEF StoreInv
<1> QED BY <1>1, StoreInvariant, PTL

----------------------------------------------------------------------------
(* The samples are counted. *)

CountInv == StoreInv /\ SamplesAreCounted /\ PendingIsCounted

Sample(k, t, batch) == [key |-> k, at |-> t, value |-> batch[k]]

\* The samples of k that are evaluated after a batch: its own, and those before, which are
\* older and which its state has seen.
LEMMA EvaluatedOf ==
    ASSUME StoreInv, NEW t, NEW batch, NEW D, NEW ids, InsertedAs(t, batch, D, ids)
    PROVE  /\ IsFiniteSet(evaluated) /\ IsFiniteSet(evaluated')
           /\ \A r \in evaluated : r.at \in Nat /\ r.at <= now /\ r.at < t
           /\ \A r \in evaluated' : r.at \in Nat /\ r.at <= t /\ r.value \in Nat
           /\ \A r \in evaluated : r.value \in Nat /\ r \in evaluated'
           /\ \A r : r \in evaluated' <=>
                 r \in evaluated \/ \E k \in D : r = Sample(k, t, batch)
<1>1. /\ t \in Nat \ {0} /\ now < t /\ now' = t /\ D \subseteq DOMAIN batch
      /\ evaluated' = evaluated \cup RowsOf(Only(batch, D), t)
  BY DEF InsertedAs
<1>2. now \in Nat
  BY EventStoreAssumption DEF StoreInv, TypeOK
<1>3. IsFiniteSet(evaluated) /\ \A r \in evaluated : r.at \in 1 .. now
  BY FS_Subset DEF StoreInv, TypeOK, RowsAgree
<1>4. IsFiniteSet(evaluated') /\ \A r \in evaluated' : r.at \in 1 .. t
  BY <1>1, InsertRows, BatchRowsTyped, FS_Subset DEF RowsAgree
<1>5. \A r : r \in RowsOf(Only(batch, D), t) <=> \E k \in D : r = Sample(k, t, batch)
  BY <1>1 DEF RowsOf, Only, Sample
<1>6. \A r \in evaluated' : r.value \in Nat
  BY BatchRowsTyped DEF Row
<1> QED BY <1>1, <1>2, <1>3, <1>4, <1>5, <1>6

\* What a candidate counts stays counted: the sample that begins it, or that it is extended by.
LEMMA CountsAfter ==
    ASSUME CountInv, NEW t, NEW batch, NEW D, NEW ids, InsertedAs(t, batch, D, ids), NEW k \in D,
           NEW n, NEW c, Counts(Before(k), t, batch[k], n, c)
    PROVE  /\ c.samples = Cardinality(SamplesSince(evaluated', k, c.since))
           /\ \A r \in SamplesSince(evaluated', k, c.since) : r.value <= n.peak
           /\ \E r \in evaluated' : r.key = k /\ r.at = n.peakAt /\ r.value = n.peak
<1> DEFINE s == Before(k)
           v == batch[k]
           q == Sample(k, t, batch)
<1>1. /\ t \in Nat /\ v \in Nat /\ s \in RuleState /\ StoreInv
  BY KeyIs DEF CountInv, InsertedAs
<1>2. /\ IsFiniteSet(evaluated)
      /\ \A r \in evaluated : r.at \in Nat /\ r.at < t /\ r.value \in Nat /\ r \in evaluated'
      /\ \A r : r \in evaluated' <=> r \in evaluated \/ \E j \in D : r = Sample(j, t, batch)
  BY <1>1, EvaluatedOf
<1>3. q.key = k /\ q.at = t /\ q.value = v /\ q \in evaluated'
  BY <1>2 DEF Sample
<1>4. \A r \in evaluated' : r.key = k => r \in evaluated \/ r = q
  BY <1>2 DEF Sample
<1>5. s.phase = "pending" =>
         /\ s.pending.samples = Cardinality(SamplesSince(evaluated, k, s.pending.since))
         /\ \A r \in SamplesSince(evaluated, k, s.pending.since) : r.value <= s.peak
         /\ \E r \in evaluated : r.key = k /\ r.at = s.peakAt /\ r.value = s.peak
  <2>1. DefaultState.phase # "pending"
    BY DEF DefaultState
  <2> QED BY <2>1 DEF CountInv, PendingIsCounted, Before
<1> HIDE DEF q, s, v
<1>6. s.peak \in Nat /\ s.pending \in CandidateState
  BY <1>1 DEF RuleState
<1>7. CASE c = NewCandidate(t)
  <2>1. c.since = t /\ c.samples = 1
    BY <1>7 DEF NewCandidate
  <2>2. SamplesSince(evaluated', k, c.since) = {q}
    <3>1. \A r : r \in SamplesSince(evaluated', k, c.since)
                    <=> r \in evaluated' /\ r.key = k /\ r.at >= t
      BY <2>1 DEF SamplesSince
    <3> QED BY <1>1, <1>2, <1>3, <1>4, <3>1
  <2>3. Cardinality({q}) = 1
    BY FS_Singleton
  <2>4. n.peak \in Nat /\ v <= n.peak
    BY <1>1, <1>6 DEF Counts, PeakWith, s, v
  <2>5. \E r \in evaluated' : r.key = k /\ r.at = n.peakAt /\ r.value = n.peak
    <3>1. CASE n.peak = v /\ n.peakAt = t
      BY <1>3, <3>1
    <3>2. CASE s.phase = "pending" /\ n.peak = s.peak /\ n.peakAt = s.peakAt
      BY <1>2, <1>5, <3>2
    <3> QED BY <3>1, <3>2 DEF Counts, PeakWith, s, v
  <2> QED BY <1>3, <2>1, <2>2, <2>3, <2>4, <2>5
<1>8. CASE c = ExtendCandidate(s.pending) /\ s.phase = "pending" /\ PeakWith(s, t, v, n)
  <2>1. c.since = s.pending.since /\ c.samples = s.pending.samples + 1 /\ c.since \in Nat
    BY <1>6, <1>8 DEF ExtendCandidate, CandidateState
  <2>2. c.since <= t
    <3>1. k \in Keys /\ now < t
      BY DEF InsertedAs
    <3> QED BY <1>1, <3>1, CountsSince
  <2> DEFINE before == SamplesSince(evaluated, k, c.since)
  <2>3. /\ before \subseteq evaluated
        /\ \A r : r \in before <=> r \in evaluated /\ r.key = k /\ r.at >= c.since
    BY DEF SamplesSince
  <2>4. \A r : r \in SamplesSince(evaluated', k, c.since)
                  <=> r \in evaluated' /\ r.key = k /\ r.at >= c.since
    BY DEF SamplesSince
  <2>5. q \notin before
    BY <1>1, <1>2, <1>3, <2>3
  <2>6. SamplesSince(evaluated', k, c.since) = before \cup {q}
    BY <1>1, <1>2, <1>3, <1>4, <2>1, <2>2, <2>3, <2>4
  <2>7. s.pending.samples = Cardinality(before) /\ \A r \in before : r.value <= s.peak
    BY <1>5, <1>8, <2>1
  <2>8. IsFiniteSet(before)
    BY <1>2, <2>3, FS_Subset
  <2> HIDE DEF before
  <2>9. Cardinality(before \cup {q}) = Cardinality(before) + 1
    BY <2>5, <2>8, FS_AddElement
  <2>10. n.peak \in Nat /\ v <= n.peak /\ s.peak <= n.peak
    BY <1>1, <1>6, <1>8 DEF PeakWith
  <2>11. \A r \in before \cup {q} : r.value <= n.peak
    <3>1. \A r \in before : r.value \in Nat
      BY <1>2, <2>3
    <3> QED BY <1>3, <1>6, <2>7, <2>10, <3>1
  <2>12. \E r \in evaluated' : r.key = k /\ r.at = n.peakAt /\ r.value = n.peak
    <3>1. CASE v > s.peak
      BY <1>3, <1>8, <3>1 DEF PeakWith
    <3>2. CASE ~(v > s.peak)
      BY <1>2, <1>5, <1>8, <3>2 DEF PeakWith
    <3> QED BY <3>1, <3>2
  <2> QED BY <2>1, <2>6, <2>7, <2>9, <2>11, <2>12
<1> QED BY <1>7, <1>8 DEF Counts, s, v

LEMMA InsertCounts ==
    ASSUME CountInv, NEW t, NEW batch, NEW D, NEW ids, InsertedAs(t, batch, D, ids)
    PROVE  SamplesAreCounted' /\ PendingIsCounted'
<1>1. StoreInv /\ t \in Nat /\ now \in Nat /\ now < t /\ D \subseteq Keys
  BY EventStoreAssumption DEF CountInv, InsertedAs, StoreInv, TypeOK
<1>2. /\ IsFiniteSet(evaluated)
      /\ \A r \in evaluated : r.at \in Nat /\ r.at < t /\ r.value \in Nat /\ r \in evaluated'
      /\ \A r \in evaluated' : r.at <= t
      /\ \A r : r \in evaluated' <=> r \in evaluated \/ \E j \in D : r = Sample(j, t, batch)
  BY <1>1, EvaluatedOf
<1>3. \A j : Sample(j, t, batch).key = j /\ Sample(j, t, batch).at = t
                /\ Sample(j, t, batch).value = batch[j]
  BY DEF Sample
<1>4. ASSUME NEW k \in DOMAIN saved', saved'[k].phase = "pending"
      PROVE  /\ saved'[k].pending.samples
                   = Cardinality(SamplesSince(evaluated', k, saved'[k].pending.since))
             /\ \A r \in SamplesSince(evaluated', k, saved'[k].pending.since) :
                   r.value <= saved'[k].peak
             /\ \E r \in evaluated' :
                   r.key = k /\ r.at = saved'[k].peakAt /\ r.value = saved'[k].peak
  <2>1. CASE k \in D
    <3>1. StaysOutside(Before(k), t, batch[k], Judged(k, t, batch), saved'[k])
      BY <1>1, <1>4, <2>1, KeyIs DEF Opens, StaysInEvent
    <3>2. Counts(Before(k), t, batch[k], saved'[k], saved'[k].pending)
      BY <1>4, <3>1 DEF StaysOutside
    <3> QED BY <2>1, <3>2, CountsAfter
  <2>2. CASE k \notin D
    <3>1. k \in DOMAIN saved /\ saved'[k] = saved[k]
      BY <2>2 DEF InsertedAs
    <3>2. \A r : r.key = k => (r \in evaluated' <=> r \in evaluated)
      BY <1>2, <1>3, <2>2
    <3>3. SamplesSince(evaluated', k, saved'[k].pending.since)
             = SamplesSince(evaluated, k, saved[k].pending.since)
      BY <3>1, <3>2 DEF SamplesSince
    <3> QED BY <1>2, <1>4, <3>1, <3>3 DEF CountInv, PendingIsCounted
  <2> QED BY <2>1, <2>2
<1>5. ASSUME NEW id \in DOMAIN events'
      PROVE  /\ events'[id].samples = Cardinality(SamplesOf(id)')
             /\ \A r \in SamplesOf(id)' : r.value <= events'[id].peak
             /\ events'[id].status = "closed" => events'[id].endedAt = events'[id].lastSample
  <2>1. \A r : r \in SamplesOf(id)' <=>
           /\ r \in evaluated' /\ r.key = events'[id].key
           /\ events'[id].startedAt <= r.at /\ r.at <= events'[id].lastSample
    BY DEF SamplesOf
  <2>2. \A r : r \in SamplesOf(id) <=>
           /\ r \in evaluated /\ r.key = events[id].key
           /\ events[id].startedAt <= r.at /\ r.at <= events[id].lastSample
    BY DEF SamplesOf
  <2>3. ASSUME NEW k \in D, OpenedRow(id, k, t, batch, D, ids)
        PROVE  /\ events'[id].samples = Cardinality(SamplesOf(id)')
               /\ \A r \in SamplesOf(id)' : r.value <= events'[id].peak
               /\ events'[id].status = "open"
    <3> DEFINE e == Judged(k, t, batch)
               c == [since |-> e.startedAt, samples |-> e.triggerSamples]
    <3>1. /\ Opens(Before(k), t, batch[k], id, e, saved'[k])
          /\ events'[id].key = k /\ events'[id].status = "open"
          /\ events'[id].startedAt = c.since /\ events'[id].lastSample = t
          /\ events'[id].samples = c.samples /\ events'[id].peak = saved'[k].peak
          /\ events'[id] \in Event
      BY <1>1, <2>3, OpenedFields
    <3>2. Counts(Before(k), t, batch[k], saved'[k], c)
      BY <3>1 DEF Opens
    <3>3. c.since \in Nat
      BY <3>1 DEF Event
    <3> HIDE DEF c
    <3>4. \A r : r \in SamplesSince(evaluated', k, c.since)
                    <=> r \in evaluated' /\ r.key = k /\ r.at >= c.since
      BY DEF SamplesSince
    <3>5. SamplesOf(id)' = SamplesSince(evaluated', k, c.since)
      <4>1. \A r \in evaluated' : r.at \in Nat
        BY <1>1, EvaluatedOf
      <4> QED BY <1>2, <2>1, <3>1, <3>3, <3>4, <4>1
    <3> QED BY <3>1, <3>2, <3>5, CountsAfter
  <2>4. ASSUME NEW k \in D, UpdatedRow(id, k, t, batch, D)
        PROVE  /\ events'[id].samples = Cardinality(SamplesOf(id)')
               /\ \A r \in SamplesOf(id)' : r.value <= events'[id].peak
               /\ events'[id].status = "closed" => events'[id].endedAt = events'[id].lastSample
    <3> DEFINE q == Sample(k, t, batch)
    <3>1. /\ Updates(events[id], Judged(k, t, batch), t, batch[k], events'[id])
          /\ events[id] \in Event /\ batch[k] \in Nat /\ k \in Keys
      BY <1>1, <2>4, UpdatedFields, KeyIs
    <3>2. /\ id \in DOMAIN events /\ events[id].key = k /\ k \in DOMAIN saved
          /\ Before(k).event = id /\ Before(k).event # None
      BY <2>4 DEF UpdatedRow, ActiveIn
    <3>3. events[id].lastSample = saved[k].lastSample
      <4>1. KeyMatches(OpenEventsOf(k), Before(k), events)
        BY <1>1, <3>1, EventMatchesStateByKey DEF StoreInv
      <4> QED BY <3>2, <4>1 DEF KeyMatches, RowMatches, Before
    <3>4. \A r \in evaluated : r.key = k => r.at <= events[id].lastSample
      BY <1>1, <3>3 DEF StoreInv, RowsAgree
    <3>5. /\ events'[id].key = k /\ events'[id].startedAt = events[id].startedAt
          /\ events'[id].lastSample = t /\ events'[id].samples = events[id].samples + 1
          /\ PeakWith(events[id], t, batch[k], events'[id])
          /\ events'[id].status = "closed" => events'[id].endedAt = t
      BY <3>1, <3>2 DEF Updates
    <3>6. /\ events[id].startedAt \in Nat /\ events[id].lastSample \in Nat
          /\ events[id].peak \in Nat
          /\ events[id].startedAt <= events[id].lastSample /\ events[id].lastSample <= now
      <4>1. /\ events[id].startedAt \in Nat /\ events[id].lastSample \in Nat
            /\ events[id].peak \in Nat /\ events[id].detectedAt \in Nat
        BY <3>1 DEF Event
      <4>2. /\ events[id].startedAt <= events[id].detectedAt
            /\ events[id].detectedAt <= events[id].lastSample
            /\ events[id].lastSample <= now
        BY <1>1, <3>2 DEF StoreInv, TimesAgree
      <4> QED BY <4>1, <4>2
    <3>7. q.key = k /\ q.at = t /\ q.value = batch[k] /\ q \in evaluated'
      BY <1>2, <1>3
    <3>8. \A r \in evaluated' : r.key = k => r \in evaluated \/ r = q
      BY <1>2, <1>3
    <3> HIDE DEF q
    <3>9. SamplesOf(id)' = SamplesOf(id) \cup {q}
      BY <1>1, <1>2, <2>1, <2>2, <3>2, <3>4, <3>5, <3>6, <3>7, <3>8
    <3>10. q \notin SamplesOf(id)
      BY <1>1, <2>2, <3>6, <3>7
    <3>11. IsFiniteSet(SamplesOf(id))
      BY <1>2, FS_Subset DEF SamplesOf
    <3>12. Cardinality(SamplesOf(id) \cup {q}) = Cardinality(SamplesOf(id)) + 1
      BY <3>10, <3>11, FS_AddElement
    <3>13. /\ events[id].samples = Cardinality(SamplesOf(id))
           /\ \A r \in SamplesOf(id) : r.value <= events[id].peak
      BY <3>2 DEF CountInv, SamplesAreCounted
    <3>14. events'[id].peak \in Nat /\ batch[k] <= events'[id].peak
              /\ events[id].peak <= events'[id].peak
      BY <3>1, <3>5, <3>6 DEF PeakWith
    <3>15. \A r \in SamplesOf(id) \cup {q} : r.value <= events'[id].peak
      <4>1. \A r \in SamplesOf(id) : r.value \in Nat
        BY <1>2, <2>2
      <4> QED BY <3>6, <3>7, <3>13, <3>14, <4>1
    <3> QED BY <3>5, <3>9, <3>12, <3>13, <3>15
  <2>5. CASE SameRow(id, D)
    <3>1. /\ id \in DOMAIN events /\ events'[id] = events[id]
          /\ events[id].lastSample \in Nat /\ events[id].lastSample <= now
      BY <1>1, <2>5 DEF SameRow, StoreInv, TypeOK, TimesAgree, Event
    <3>2. \A r \in evaluated' : r \in evaluated \/ r.at = t
      BY <1>2, <1>3
    <3>3. ~(t <= events[id].lastSample)
      BY <1>1, <3>1
    <3>4. SamplesOf(id)' = SamplesOf(id)
      BY <1>2, <2>1, <2>2, <3>1, <3>2, <3>3
    <3> QED BY <3>1, <3>4 DEF CountInv, SamplesAreCounted
  <2> QED BY <1>1, <2>3, <2>4, <2>5, RowIs
<1> QED BY <1>4, <1>5 DEF SamplesAreCounted, PendingIsCounted

\* Whatever else happens leaves the samples, and the events that stay, alone.
LEMMA OtherCounts ==
    ASSUME CountInv, UNCHANGED <<saved, evaluated>>, DOMAIN events' \subseteq DOMAIN events,
           \A id \in DOMAIN events' : events'[id] = events[id]
    PROVE  SamplesAreCounted' /\ PendingIsCounted'
<1>1. \A id \in DOMAIN events' : SamplesOf(id)' = SamplesOf(id)
  BY DEF SamplesOf
<1>2. SamplesAreCounted'
  BY <1>1 DEF CountInv, SamplesAreCounted
<1>3. PendingIsCounted'
  BY DEF CountInv, PendingIsCounted
<1> QED BY <1>2, <1>3

\* Only a batch that is inserted opens or updates a row.
LEMMA OtherSteps ==
    ASSUME StoreInv, [Next]_vars
    PROVE  \/ \E t, batch, D, ids : InsertedAs(t, batch, D, ids)
           \/ /\ UNCHANGED <<saved, lastId, raw, evaluated>>
              /\ DOMAIN events' \subseteq DOMAIN events
              /\ \A id \in DOMAIN events' : events'[id] = events[id]
              /\ \A id \in DOMAIN events \ DOMAIN events' : events[id].status = "closed"
              /\ \A r : r \in evidence' <=> r \in evidence /\ r.event \in DOMAIN events'
<1>1. \A r \in evidence : r.event \in DOMAIN events
  BY DEF StoreInv, TypeOK
<1>2. ASSUME NEW t \in now + 1 .. now + MaxStep, NEW batch \in Batches, InsertBatch(t, batch)
      PROVE  \E D, ids : InsertedAs(t, batch, D, ids)
  BY <1>2, InsertIs
<1>3. ASSUME UNCHANGED <<saved, lastId, raw, evaluated, events, evidence>>
      PROVE  /\ UNCHANGED <<saved, lastId, raw, evaluated>>
             /\ DOMAIN events' \subseteq DOMAIN events
             /\ \A id \in DOMAIN events' : events'[id] = events[id]
             /\ \A id \in DOMAIN events \ DOMAIN events' : events[id].status = "closed"
             /\ \A r : r \in evidence' <=> r \in evidence /\ r.event \in DOMAIN events'
  BY <1>1, <1>3
<1>4. ASSUME DeleteClosedEvents
      PROVE  /\ UNCHANGED <<saved, lastId, raw, evaluated>>
             /\ DOMAIN events' \subseteq DOMAIN events
             /\ \A id \in DOMAIN events' : events'[id] = events[id]
             /\ \A id \in DOMAIN events \ DOMAIN events' : events[id].status = "closed"
             /\ \A r : r \in evidence' <=> r \in evidence /\ r.event \in DOMAIN events'
  <2>1. PICK ids \in SUBSET Expired :
           /\ events' = Only(events, DOMAIN events \ ids)
           /\ evidence' = evidence \ EvidenceOf(ids)
    BY <1>4 DEF DeleteClosedEvents
  <2>2. /\ DOMAIN events' = DOMAIN events \ ids
        /\ \A id \in DOMAIN events' : events'[id] = events[id]
    BY <2>1 DEF Only
  <2>3. \A id \in ids : events[id].status = "closed"
    BY <2>1 DEF Expired
  <2>4. \A r : r \in evidence' <=> r \in evidence /\ r.event \in DOMAIN events'
    BY <1>1, <2>1, <2>2 DEF EvidenceOf
  <2> QED BY <1>4, <2>2, <2>3, <2>4 DEF DeleteClosedEvents
<1>5. ASSUME NEW t, NEW batch, InsertFails(t, batch)
      PROVE  UNCHANGED <<saved, lastId, raw, evaluated, events, evidence>>
  BY <1>5 DEF InsertFails, tables
<1>6. ASSUME NEW configured, Restart(configured)
      PROVE  UNCHANGED <<saved, lastId, raw, evaluated, events, evidence>>
  BY <1>6 DEF Restart, tables
<1>7. ASSUME UNCHANGED vars
      PROVE  UNCHANGED <<saved, lastId, raw, evaluated, events, evidence>>
  BY <1>7 DEF vars
<1>8. CASE \E t \in now + 1 .. now + MaxStep, batch \in Batches :
              t <= MaxTime /\ InsertBatch(t, batch)
  BY <1>2, <1>8
<1>9. CASE \/ \E t, batch : InsertFails(t, batch)
           \/ \E configured : Restart(configured)
           \/ UNCHANGED vars
  BY <1>3, <1>5, <1>6, <1>7, <1>9
<1>10. CASE DeleteClosedEvents
  BY <1>4, <1>10
<1> QED BY <1>8, <1>9, <1>10 DEF Next

LEMMA CountInvariant == Spec => []CountInv
<1>1. Init => SamplesAreCounted /\ PendingIsCounted
  BY DEF Init, SamplesAreCounted, PendingIsCounted
<1>2. CountInv /\ [Next]_vars => SamplesAreCounted' /\ PendingIsCounted'
  <2> SUFFICES ASSUME CountInv, [Next]_vars PROVE SamplesAreCounted' /\ PendingIsCounted'
    OBVIOUS
  <2>1. StoreInv
    BY DEF CountInv
  <2>2. ASSUME NEW t, NEW batch, NEW D, NEW ids, InsertedAs(t, batch, D, ids)
        PROVE  SamplesAreCounted' /\ PendingIsCounted'
    BY <2>2, InsertCounts
  <2> QED BY <2>1, <2>2, OtherSteps, OtherCounts
<1>3. Init => CountInv
  BY <1>1, StoreInit DEF CountInv
<1>4. CountInv <=> StoreInv /\ SamplesAreCounted /\ PendingIsCounted
  BY DEF CountInv
<1> QED BY <1>1, <1>2, <1>4, StoreInvariant, PTL DEF Spec

\* An event's sample_count is the number of samples evaluated from its start to its end, those
\* of the candidate that opened it and the one that closed it included, and no sample exceeds
\* its peak_value: across batches, failed batches and restarts, none is lost or counted twice.
THEOREM SamplesCounted == Spec => []SamplesAreCounted
<1>1. CountInv => SamplesAreCounted
  BY DEF CountInv
<1> QED BY <1>1, CountInvariant, PTL

----------------------------------------------------------------------------
(* The evidence tells the history. *)

HistoryInv == CountInv /\ HistoryIsTold /\ PeaksAreKept /\ EvidenceIsFresh

LEMMA EvidenceOfOne == \A id, r : r \in EvidenceOf({id}) <=> r \in evidence /\ r.event = id
BY DEF EvidenceOf

LEMMA EvidenceOfOneAfter == \A id, r : r \in EvidenceOf({id})' <=> r \in evidence' /\ r.event = id
BY DEF EvidenceOf

LEMMA EvidenceRowIs ==
    ASSUME NEW id, NEW t, NEW v, NEW kind
    PROVE  /\ EvidenceRow(id, t, v, kind).event = id /\ EvidenceRow(id, t, v, kind).at = t
           /\ EvidenceRow(id, t, v, kind).value = v /\ EvidenceRow(id, t, v, kind).kind = kind
BY DEF EvidenceRow

\* Which event the rows are of that a batch drops and adds.
LEMMA DroppedIs ==
    ASSUME StoreInv, NEW t, NEW batch, NEW D, NEW ids, InsertedAs(t, batch, D, ids), NEW r
    PROVE  /\ Dropped(r, D, t, batch) =>
                 \E k \in D : /\ k \in ActiveIn(D) /\ r.event = Before(k).event /\ r.kind = "peak"
                              /\ EvidenceKind(Judged(k, t, batch)) = {"peak"}
           /\ Told(r, D, ids, t, batch) =>
                 \E k \in D : k \in OpeningIn(D, t, batch) /\ r.event = ids[k]
           /\ Added(r, D, t, batch) =>
                 \E k \in D : k \in ActiveIn(D) /\ r.event = Before(k).event
<1>1. ASSUME Dropped(r, D, t, batch)
      PROVE  \E k \in D : /\ k \in ActiveIn(D) /\ r.event = Before(k).event /\ r.kind = "peak"
                          /\ EvidenceKind(Judged(k, t, batch)) = {"peak"}
  BY <1>1 DEF Dropped, Superseded, ActiveIn
<1>2. ASSUME Told(r, D, ids, t, batch)
      PROVE  \E k \in D : k \in OpeningIn(D, t, batch) /\ r.event = ids[k]
  <2>1. PICK k \in OpeningIn(D, t, batch) : r \in OpeningEvidence(raw', ids[k], k, t, batch[k])
    BY <1>2 DEF Told
  <2>2. r.event = ids[k]
    BY <2>1, ToldIs, EvidenceRowIs
  <2> QED BY <2>1, <2>2 DEF OpeningIn
<1>3. ASSUME Added(r, D, t, batch)
      PROVE  \E k \in D : k \in ActiveIn(D) /\ r.event = Before(k).event
  <2>1. PICK k \in ActiveIn(D) :
           r \in AddedEvidence(Before(k).event, Judged(k, t, batch), t, batch[k])
    BY <1>3 DEF Added
  <2>2. r.event = Before(k).event
    BY <2>1, AddedIs, EvidenceRowIs
  <2> QED BY <2>1, <2>2 DEF ActiveIn
<1> QED BY <1>1, <1>2, <1>3

\* An event whose row stays keeps its evidence.
LEMMA SameEvidence ==
    ASSUME StoreInv, NEW t, NEW batch, NEW D, NEW ids, InsertedAs(t, batch, D, ids),
           NEW id, SameRow(id, D)
    PROVE  \A r : r.event = id => (r \in evidence' <=> r \in evidence)
<1>1. id \in DOMAIN events /\ \A k \in ActiveIn(D) : Before(k).event # id
  BY DEF SameRow
<1>2. \A k \in D : k \in OpeningIn(D, t, batch) => ids[k] # id
  BY <1>1, RowsOfKeys DEF OpenedRow
<1>3. \A r : r.event = id => /\ ~Dropped(r, D, t, batch) /\ ~Told(r, D, ids, t, batch)
                             /\ ~Added(r, D, t, batch)
  BY <1>1, <1>2, DroppedIs
<1> QED BY <1>3 DEF InsertedAs

\* An updated event gets at most one row, in the place of its peak if that is a new peak.
LEMMA UpdatedEvidence ==
    ASSUME StoreInv, NEW t, NEW batch, NEW D, NEW ids, InsertedAs(t, batch, D, ids),
           NEW k \in D, NEW id, UpdatedRow(id, k, t, batch, D), NEW r
    PROVE  r \in evidence' /\ r.event = id <=>
              \/ /\ r \in evidence /\ r.event = id
                 /\ ~(r.kind = "peak" /\ EvidenceKind(Judged(k, t, batch)) = {"peak"})
              \/ \E kind \in EvidenceKind(Judged(k, t, batch)) :
                    r = EvidenceRow(id, t, batch[k], kind)
<1>1. /\ id \in DOMAIN events /\ id = Before(k).event /\ k \in ActiveIn(D)
      /\ events[id].key = k
  BY DEF UpdatedRow
<1>2. \A j \in D : j \in OpeningIn(D, t, batch) => ids[j] # id
  BY <1>1, RowsOfKeys DEF OpenedRow
<1>3. \A j \in ActiveIn(D) : Before(j).event = id => j = k
  <2>1. \A j \in ActiveIn(D) : j \in Keys /\ Before(j).event # None
    BY DEF ActiveIn, InsertedAs
  <2> QED BY <1>1, <2>1, BeforeIs
<1>4. ~(r.event = id /\ Told(r, D, ids, t, batch))
  BY <1>2, DroppedIs
<1>5. r \in evidence /\ r.event = id =>
         (Dropped(r, D, t, batch) <=>
             r.kind = "peak" /\ EvidenceKind(Judged(k, t, batch)) = {"peak"})
  BY <1>1, <1>3 DEF Dropped, Superseded
<1>6. r.event = id =>
         (Added(r, D, t, batch) <=> r \in AddedEvidence(id, Judged(k, t, batch), t, batch[k]))
  <2>1. ASSUME r.event = id, Added(r, D, t, batch)
        PROVE  r \in AddedEvidence(id, Judged(k, t, batch), t, batch[k])
    <3>1. PICK j \in ActiveIn(D) :
             r \in AddedEvidence(Before(j).event, Judged(j, t, batch), t, batch[j])
      BY <2>1 DEF Added
    <3>2. Before(j).event = id
      BY <2>1, <3>1, AddedIs, EvidenceRowIs
    <3> QED BY <1>1, <1>3, <3>1, <3>2
  <2> QED BY <1>1, <2>1 DEF Added
<1>7. r \in AddedEvidence(id, Judged(k, t, batch), t, batch[k]) <=>
         \E kind \in EvidenceKind(Judged(k, t, batch)) : r = EvidenceRow(id, t, batch[k], kind)
  BY DEF AddedEvidence
<1>8. r \in AddedEvidence(id, Judged(k, t, batch), t, batch[k]) => r.event = id
  BY AddedIs, EvidenceRowIs
<1>9. r \in evidence' <=> \/ r \in evidence /\ ~Dropped(r, D, t, batch)
                          \/ Told(r, D, ids, t, batch)
                          \/ Added(r, D, t, batch)
  BY DEF InsertedAs
<1> QED BY <1>4, <1>5, <1>6, <1>7, <1>8, <1>9

\* A new event has its prelude and its trigger.
LEMMA OpenedEvidence ==
    ASSUME StoreInv, NEW t, NEW batch, NEW D, NEW ids, InsertedAs(t, batch, D, ids),
           NEW k \in D, NEW id, OpenedRow(id, k, t, batch, D, ids), NEW r
    PROVE  r \in evidence' /\ r.event = id <=> r \in OpeningEvidence(raw', id, k, t, batch[k])
<1>1. /\ id \notin DOMAIN events /\ id = ids[k] /\ k \in OpeningIn(D, t, batch)
  BY DEF OpenedRow
<1>2. r \in evidence => r.event # id
  BY <1>1 DEF StoreInv, TypeOK
<1>3. r.event = id => ~Added(r, D, t, batch)
  <2>1. \A j \in ActiveIn(D) : j \in Keys /\ Before(j).event # None
    BY DEF ActiveIn, InsertedAs
  <2>2. \A j \in ActiveIn(D) : Before(j).event # id
    BY <1>1, <2>1, BeforeIs
  <2> QED BY <2>2, DroppedIs
<1>4. r.event = id =>
         (Told(r, D, ids, t, batch) <=> r \in OpeningEvidence(raw', id, k, t, batch[k]))
  <2>1. ASSUME r.event = id, Told(r, D, ids, t, batch)
        PROVE  r \in OpeningEvidence(raw', id, k, t, batch[k])
    <3>1. PICK j \in OpeningIn(D, t, batch) :
             r \in OpeningEvidence(raw', ids[j], j, t, batch[j])
      BY <2>1 DEF Told
    <3>2. ids[j] = id
      BY <2>1, <3>1, ToldIs, EvidenceRowIs
    <3>3. j = k
      BY <1>1, <3>2 DEF InsertedAs
    <3> QED BY <3>1, <3>2, <3>3
  <2> QED BY <1>1, <2>1 DEF Told
<1>5. r \in OpeningEvidence(raw', id, k, t, batch[k]) => r.event = id
  BY ToldIs, EvidenceRowIs
<1>6. r \in evidence' <=> \/ r \in evidence /\ ~Dropped(r, D, t, batch)
                          \/ Told(r, D, ids, t, batch)
                          \/ Added(r, D, t, batch)
  BY DEF InsertedAs
<1> QED BY <1>2, <1>3, <1>4, <1>5, <1>6

\* The one row that an evaluation adds, and when.
LEMMA KindIs ==
    ASSUME NEW e
    PROVE  /\ e.transition = "escalate" <=> EvidenceKind(e) = {"escalation"}
           /\ e.transition = "close" <=> EvidenceKind(e) = {"recovery"}
           /\ \/ EvidenceKind(e) = {}
              \/ \E kind \in {"escalation", "recovery", "peak", "periodic"} :
                    EvidenceKind(e) = {kind}
           /\ e.newPeak \/ e.periodic => EvidenceKind(e) # {}
           /\ EvidenceKind(e) = {"peak"} => e.newPeak
<1>1. EvidenceKind(e) \in {{"escalation"}, {"recovery"}, {"peak"}, {"periodic"}, {}}
  BY DEF EvidenceKind
<1> QED BY <1>1 DEF EvidenceKind

\* A row that is updated and the evidence S after it still tell the history.
LEMMA TellsMore ==
    ASSUME NEW row \in Event, row.status = "open", NEW e, NEW t \in Nat, NEW v \in Nat, NEW u,
           Updates(row, e, t, v, u), row.lastSample < t, row.detectedAt <= row.lastSample,
           IF e.transition = "escalate"
             THEN /\ row.severity = "warning" /\ e.state.severity = "critical"
                  /\ v >= CriticalThreshold
             ELSE e.state.severity = row.severity,
           NEW rows, NEW more, rows \subseteq more,
           [key |-> row.key, at |-> t, value |-> v] \in more,
           NEW R \in SUBSET Evidence, Tells(row, R, rows), NEW id, NEW S,
           \A r : r \in S <=>
              \/ r \in R /\ ~(r.kind = "peak" /\ EvidenceKind(e) = {"peak"})
              \/ \E kind \in EvidenceKind(e) : r = EvidenceRow(id, t, v, kind)
    PROVE  Tells(u, S, more)
<1>1. /\ \A r \in R :
            /\ [key |-> row.key, at |-> r.at, value |-> r.value] \in rows
            /\ r.at <= row.lastSample
            /\ r.kind = "prelude" <=> r.at < row.detectedAt
            /\ r.kind = "trigger" => r.at = row.detectedAt
            /\ r.kind = "escalation" => r.value >= CriticalThreshold
            /\ r.kind = "recovery" => row.status = "closed" /\ r.at = row.endedAt
      /\ \A r, q \in R :
            r.at = q.at \/ (r.kind = q.kind /\ r.kind \in {"escalation", "peak"}) => r = q
      /\ \E r \in R : r.kind = "trigger"
      /\ row.severity = "critical" <=>
            \E r \in R : r.kind \in {"trigger", "escalation"} /\ r.value >= CriticalThreshold
  BY DEF Tells
<1>2. /\ u.key = row.key /\ u.detectedAt = row.detectedAt /\ u.severity = e.state.severity
      /\ u.lastSample = t
      /\ IF e.transition = "close" THEN u.status = "closed" /\ u.endedAt = t
         ELSE u.status = "open"
  BY DEF Updates
<1>3. /\ row.detectedAt \in Nat /\ row.lastSample \in Nat
      /\ \A r \in R : r.at \in Nat /\ r.at < t /\ r.value \in Nat
  <2>1. row.detectedAt \in Nat /\ row.lastSample \in Nat
    BY DEF Event
  <2>2. \A r \in R : r.at \in Nat /\ r.value \in Nat
    BY DEF Evidence
  <2>3. \A r \in R : r.at <= row.lastSample
    BY <1>1
  <2> QED BY <2>1, <2>2, <2>3
<1> DEFINE new(kind) == EvidenceRow(id, t, v, kind)
<1>4. \A kind : new(kind).at = t /\ new(kind).value = v /\ new(kind).kind = kind
  BY EvidenceRowIs
<1>5. \A r \in S : r \in R \/ \E kind \in EvidenceKind(e) : r = new(kind)
  OBVIOUS
<1>6. \A r \in R : r.kind # "peak" => r \in S
  OBVIOUS
<1>7. \A kind \in EvidenceKind(e) : new(kind) \in S
  OBVIOUS
<1>8. \A kind, other \in EvidenceKind(e) : kind = other
  BY KindIs
<1>9. \A kind \in EvidenceKind(e) :
         /\ kind \in {"escalation", "recovery", "peak", "periodic"}
         /\ kind = "escalation" <=> e.transition = "escalate"
         /\ kind = "recovery" <=> e.transition = "close"
  BY KindIs
<1>10. /\ e.transition = "escalate" => "escalation" \in EvidenceKind(e)
       /\ e.transition = "close" => "recovery" \in EvidenceKind(e)
  BY KindIs
<1>11. \A r \in S : r \in R => ~(r.kind = "peak" /\ EvidenceKind(e) = {"peak"})
  <2>1. ASSUME NEW r \in S, r \in R, r.kind = "peak", EvidenceKind(e) = {"peak"} PROVE FALSE
    <3>1. PICK kind \in EvidenceKind(e) : r = new(kind)
      BY <2>1
    <3> QED BY <1>3, <1>4, <2>1, <3>1
  <2> QED BY <2>1
<1> HIDE DEF new
<1>12. ASSUME NEW r \in S
       PROVE  /\ [key |-> u.key, at |-> r.at, value |-> r.value] \in more
              /\ r.at <= u.lastSample
              /\ r.kind = "prelude" <=> r.at < u.detectedAt
              /\ r.kind = "trigger" => r.at = u.detectedAt
              /\ r.kind = "escalation" => r.value >= CriticalThreshold
              /\ r.kind = "recovery" => u.status = "closed" /\ r.at = u.endedAt
  <2>1. CASE r \in R
    BY <1>1, <1>2, <1>3, <2>1
  <2>2. ASSUME NEW kind \in EvidenceKind(e), r = new(kind)
        PROVE  /\ [key |-> u.key, at |-> r.at, value |-> r.value] \in more
               /\ r.at <= u.lastSample
               /\ r.kind = "prelude" <=> r.at < u.detectedAt
               /\ r.kind = "trigger" => r.at = u.detectedAt
               /\ r.kind = "escalation" => r.value >= CriticalThreshold
               /\ r.kind = "recovery" => u.status = "closed" /\ r.at = u.endedAt
    <3>1. r.at = t /\ r.value = v /\ r.kind = kind /\ kind \notin {"prelude", "trigger"}
      BY <1>4, <1>9, <2>2
    <3>2. /\ kind = "escalation" => v >= CriticalThreshold
          /\ kind = "recovery" => u.status = "closed" /\ u.endedAt = t
      BY <1>2, <1>9
    <3> QED BY <1>2, <1>3, <3>1, <3>2
  <2> QED BY <1>5, <2>1, <2>2
<1>13. ASSUME NEW r \in S, NEW q \in S,
              r.at = q.at \/ (r.kind = q.kind /\ r.kind \in {"escalation", "peak"})
       PROVE  r = q
  <2>1. CASE r \in R /\ q \in R
    BY <1>1, <1>13, <2>1
  <2>2. ASSUME NEW kind \in EvidenceKind(e), NEW other \in EvidenceKind(e), r = new(kind),
               q = new(other)
        PROVE  r = q
    BY <1>8, <2>2
  <2>3. ASSUME NEW x \in S, x \in R, NEW kind \in EvidenceKind(e), NEW y, y = new(kind)
        PROVE  /\ x.at # y.at
               /\ ~(x.kind = y.kind /\ x.kind \in {"escalation", "peak"})
    <3>1. y.at = t /\ y.kind = kind
      BY <1>4, <2>3
    <3>2. x.kind = "escalation" => kind # "escalation"
      BY <1>1, <1>9, <2>3
    <3>3. x.kind = "peak" => kind # "peak"
      BY <1>11, <2>3, KindIs
    <3> QED BY <1>3, <2>3, <3>1, <3>2, <3>3
  <2> QED BY <1>5, <1>13, <2>1, <2>2, <2>3
<1>14. \E r \in S : r.kind = "trigger"
  BY <1>1, <1>6
<1>15. u.status = "closed" => \E r \in S : r.kind = "recovery"
  BY <1>2, <1>4, <1>7, <1>10
<1>16. u.severity = "critical" <=>
          \E r \in S : r.kind \in {"trigger", "escalation"} /\ r.value >= CriticalThreshold
  <2>1. CASE e.transition = "escalate"
    <3>1. u.severity = "critical" /\ v >= CriticalThreshold
      BY <1>2, <2>1
    <3>2. new("escalation") \in S /\ new("escalation").kind = "escalation"
             /\ new("escalation").value = v
      BY <1>4, <1>7, <1>10, <2>1
    <3> QED BY <3>1, <3>2
  <2>2. CASE e.transition # "escalate"
    <3>1. u.severity = row.severity
      BY <1>2, <2>2
    <3>2. \A r : r.kind \in {"trigger", "escalation"} => (r \in S <=> r \in R)
      <4>1. ASSUME NEW r \in S, r.kind \in {"trigger", "escalation"} PROVE r \in R
        BY <1>4, <1>5, <1>9, <2>2, <4>1
      <4> QED BY <1>6, <4>1
    <3> QED BY <1>1, <3>1, <3>2
  <2> QED BY <2>1, <2>2
<1> QED BY <1>12, <1>13, <1>14, <1>15, <1>16 DEF Tells

LEMMA PreludeIs ==
    ASSUME NEW rows, NEW k, NEW t, NEW q
    PROVE  q \in PreludeRows(rows, k, t) <=>
              /\ q \in PreludeWindow(rows, k, t)
              /\ Cardinality({x \in PreludeWindow(rows, k, t) : x.at > q.at}) < PreludeLimit
BY DEF PreludeRows, Newest

LEMMA WindowIs ==
    ASSUME NEW rows, NEW k, NEW t, NEW q
    PROVE  q \in PreludeWindow(rows, k, t) <=>
              q \in rows /\ q.key = k /\ t - Prelude <= q.at /\ q.at < t
BY DEF PreludeWindow

\* A new row and its evidence S tell the history.
LEMMA TellsFirst ==
    ASSUME NEW t \in Nat, NEW v \in Nat, NEW k, NEW u, u.key = k, u.status = "open",
           u.severity = BreachedSeverity(v), u.detectedAt = t, u.lastSample = t,
           NEW rows \in SUBSET Row, [key |-> k, at |-> t, value |-> v] \in rows,
           \A r, q \in rows : r.key = q.key /\ r.at = q.at => r = q,
           NEW id, NEW S, \A r : r \in S <=> r \in OpeningEvidence(rows, id, k, t, v)
    PROVE  Tells(u, S, rows)
<1> DEFINE trigger == EvidenceRow(id, t, v, "trigger")
<1>1. trigger.at = t /\ trigger.value = v /\ trigger.kind = "trigger" /\ trigger.event = id
  BY EvidenceRowIs
<1>2. trigger \in S
  BY DEF OpeningEvidence
<1>3. ASSUME NEW r \in S
      PROVE  \/ r = trigger
             \/ \E q \in rows : /\ q.key = k /\ q.at < t
                                /\ r = EvidenceRow(id, q.at, q.value, "prelude")
  <2>1. r \in OpeningEvidence(rows, id, k, t, v)
    BY <1>3
  <2>2. ASSUME NEW q \in rows, q \in PreludeRows(rows, k, t) PROVE q.key = k /\ q.at < t
    <3>1. q \in PreludeWindow(rows, k, t)
      BY <2>2 DEF PreludeRows, Newest
    <3> QED BY <3>1, WindowIs
  <2> QED BY <2>1, <2>2, ToldIs
<1> HIDE DEF trigger
<1>4. \A q \in rows : q.at \in Nat /\ q = [key |-> q.key, at |-> q.at, value |-> q.value]
  BY DEF Row
<1>5. ASSUME NEW r \in S
      PROVE  \/ r = trigger
             \/ /\ r.at < t /\ r.at \in Nat /\ r.kind = "prelude" /\ r.event = id
                /\ [key |-> k, at |-> r.at, value |-> r.value] \in rows
                /\ r = EvidenceRow(id, r.at, r.value, "prelude")
  BY <1>3, <1>4, EvidenceRowIs
<1>6. ASSUME NEW r \in S, NEW q \in S, r.at = q.at PROVE r = q
  <2>1. CASE r # trigger /\ q # trigger
    <3>1. [key |-> k, at |-> r.at, value |-> r.value] = [key |-> k, at |-> q.at, value |-> q.value]
      BY <1>5, <1>6, <2>1
    <3>2. r.value = q.value
      BY <3>1
    <3> QED BY <1>5, <1>6, <2>1, <3>2
  <2>2. \A x \in S : x # trigger => x.at < t /\ x.at \in Nat
    BY <1>5
  <2>3. \A x \in S : x # trigger => x.at # trigger.at
    BY <1>1, <2>2
  <2> QED BY <1>6, <2>1, <2>3
<1>7. u.severity = "critical" <=> v >= CriticalThreshold
  BY DEF BreachedSeverity
<1>8. \A r \in S :
         /\ [key |-> u.key, at |-> r.at, value |-> r.value] \in rows
         /\ r.at <= u.lastSample
         /\ r.kind = "prelude" <=> r.at < u.detectedAt
         /\ r.kind = "trigger" => r = trigger
         /\ r.kind \in {"prelude", "trigger"}
  BY <1>1, <1>5
<1>9. u.severity = "critical" <=>
         \E r \in S : r.kind \in {"trigger", "escalation"} /\ r.value >= CriticalThreshold
  BY <1>1, <1>2, <1>7, <1>8
<1> QED BY <1>1, <1>2, <1>6, <1>8, <1>9 DEF Tells

\* Rows of later samples are beyond any window that ends at an earlier detection.
LEMMA UnreachedSame ==
    ASSUME NEW row, NEW u, u.key = row.key, u.detectedAt = row.detectedAt, u.peakAt = row.peakAt,
           NEW t \in Nat, row.detectedAt \in Nat, row.detectedAt < t,
           NEW rows, NEW more, rows \subseteq more, \A r \in more : r \in rows \/ r.at = t
    PROVE  Unreached(u, more) <=> Unreached(row, rows)
<1>1. {r \in more : r.key = u.key /\ u.peakAt <= r.at /\ r.at < u.detectedAt}
         = {r \in rows : r.key = row.key /\ row.peakAt <= r.at /\ r.at < row.detectedAt}
  OBVIOUS
<1> QED BY <1>1 DEF Unreached

LEMMA PeakMore ==
    ASSUME NEW row \in Event, NEW e, NEW t \in Nat, NEW v \in Nat, NEW u,
           Updates(row, e, t, v, u), row.detectedAt < t,
           v > row.peak => EvidenceKind(e) # {}, EvidenceKind(e) = {"peak"} => v > row.peak,
           NEW rows, NEW more, rows \subseteq more, \A r \in more : r \in rows \/ r.at = t,
           NEW R, HasPeak(row, R, rows), NEW id, NEW S,
           \A r : r \in S <=>
              \/ r \in R /\ ~(r.kind = "peak" /\ EvidenceKind(e) = {"peak"})
              \/ \E kind \in EvidenceKind(e) : r = EvidenceRow(id, t, v, kind)
    PROVE  HasPeak(u, S, more)
<1>1. u.key = row.key /\ u.detectedAt = row.detectedAt /\ PeakWith(row, t, v, u)
  BY DEF Updates
<1>2. CASE v > row.peak
  <2>1. PICK kind : kind \in EvidenceKind(e)
    BY <1>2
  <2>2. EvidenceRow(id, t, v, kind) \in S
    BY <2>1
  <2>3. u.peak = v /\ u.peakAt = t
    BY <1>1, <1>2 DEF PeakWith
  <2> QED BY <2>2, <2>3, EvidenceRowIs DEF HasPeak
<1>3. CASE ~(v > row.peak)
  <2>1. u.peak = row.peak /\ u.peakAt = row.peakAt /\ EvidenceKind(e) # {"peak"}
    BY <1>1, <1>3 DEF PeakWith
  <2>2. row.detectedAt \in Nat
    BY DEF Event
  <2>3. Unreached(u, more) <=> Unreached(row, rows)
    BY <1>1, <2>1, <2>2, UnreachedSame
  <2>4. \A r \in R : r \in S
    BY <2>1
  <2> QED BY <2>1, <2>3, <2>4 DEF HasPeak
<1> QED BY <1>2, <1>3

\* The peak of an event that opens is its trigger, in its prelude, or beyond that.
LEMMA PeakFirst ==
    ASSUME NEW t \in Nat, NEW v \in Nat, NEW k, NEW u, u.key = k, u.detectedAt = t,
           NEW rows \in SUBSET Row, IsFiniteSet(rows),
           NEW p \in rows, p.key = k, p.at = u.peakAt, p.value = u.peak, p.at <= t,
           p.at = t => p.value = v,
           NEW id, NEW S, \A r : r \in S <=> r \in OpeningEvidence(rows, id, k, t, v)
    PROVE  HasPeak(u, S, rows)
<1>1. CASE p.at = t
  <2>1. EvidenceRow(id, t, v, "trigger") \in S
    BY DEF OpeningEvidence
  <2> QED BY <1>1, <2>1, EvidenceRowIs DEF HasPeak
<1>2. CASE p.at < t
  <2> DEFINE window == PreludeWindow(rows, k, t)
             newer == {x \in window : x.at > p.at}
             since == {r \in rows : r.key = k /\ u.peakAt <= r.at /\ r.at < t}
  <2>1. p.at \in Nat /\ \A r \in rows : r.at \in Nat
    BY DEF Row
  <2>2. Prelude \in Nat /\ PreludeLimit \in Nat
    BY EventStoreAssumption
  <2>3. CASE p.at < t - Prelude
    BY <2>3 DEF HasPeak, Unreached
  <2>4. CASE ~(p.at < t - Prelude) /\ Cardinality(newer) < PreludeLimit
    <3>1. p \in window
      BY <1>2, <2>1, <2>2, <2>4, WindowIs
    <3>2. p \in PreludeRows(rows, k, t)
      BY <2>4, <3>1 DEF PreludeRows, Newest
    <3>3. EvidenceRow(id, p.at, p.value, "prelude") \in S
      BY <3>2 DEF OpeningEvidence
    <3> QED BY <3>3, EvidenceRowIs DEF HasPeak
  <2>5. CASE ~(Cardinality(newer) < PreludeLimit)
    <3>1. newer \subseteq rows /\ newer \subseteq since /\ p \in since /\ p \notin newer
             /\ since \subseteq rows
      BY <1>2, <2>1, WindowIs
    <3> HIDE DEF newer, since
    <3>2. IsFiniteSet(newer) /\ IsFiniteSet(since)
      BY <3>1, FS_Subset
    <3>3. IsFiniteSet(newer \cup {p}) /\ Cardinality(newer \cup {p}) = Cardinality(newer) + 1
      BY <3>1, <3>2, FS_AddElement
    <3>4. newer \cup {p} \in SUBSET since
      BY <3>1
    <3>5. Cardinality(newer \cup {p}) <= Cardinality(since)
      BY <3>2, <3>4, FS_Subset
    <3>6. Cardinality(newer) \in Nat /\ Cardinality(since) \in Nat
      BY <3>2, FS_CardinalityType
    <3>7. Cardinality(since) > PreludeLimit
      BY <2>2, <2>5, <3>3, <3>5, <3>6
    <3>8. Unreached(u, rows)
      BY <3>7 DEF Unreached, since
    <3> QED BY <3>8 DEF HasPeak
  <2> QED BY <2>3, <2>4, <2>5
<1>3. p.at \in Nat
  BY DEF Row
<1> QED BY <1>1, <1>2, <1>3

\* The rows before a batch are older than its own.
LEMMA RawAfter ==
    ASSUME StoreInv, NEW t, NEW batch, NEW D, NEW ids, InsertedAs(t, batch, D, ids)
    PROVE  /\ t \in Nat \ {0} /\ now \in Nat /\ now < t
           /\ raw \subseteq raw' /\ raw' \in SUBSET Row /\ IsFiniteSet(raw')
           /\ evaluated' \subseteq raw'
           /\ \A r \in raw' : r \in raw \/ r.at = t
           /\ \A r, q \in raw' : r.key = q.key /\ r.at = q.at => r = q
           /\ \A k \in D : [key |-> k, at |-> t, value |-> batch[k]] \in raw'
<1>1. /\ t \in Nat \ {0} /\ now < t /\ D \subseteq DOMAIN batch
      /\ raw' = raw \cup RowsOf(batch, t)
  BY DEF InsertedAs
<1>2. now \in Nat
  BY EventStoreAssumption DEF StoreInv, TypeOK
<1>3. \A k \in D : [key |-> k, at |-> t, value |-> batch[k]] \in RowsOf(batch, t)
  BY <1>1 DEF RowsOf
<1>4. raw' \subseteq Row /\ evaluated' \subseteq raw' /\ \A r \in RowsOf(batch, t) : r.at = t
  BY BatchRowsTyped
<1>5. IsFiniteSet(raw') /\ \A r, q \in raw' : r.key = q.key /\ r.at = q.at => r = q
  BY InsertRows DEF RowsAgree
<1> QED BY <1>1, <1>2, <1>3, <1>4, <1>5

LEMMA EvidenceTyped == ASSUME StoreInv, NEW id PROVE EvidenceOf({id}) \in SUBSET Evidence
BY DEF StoreInv, TypeOK, EvidenceOf

\* The state of an updated row's key, and the row.
LEMMA UpdatedAgrees ==
    ASSUME StoreInv, NEW t, NEW batch, NEW D, NEW ids, InsertedAs(t, batch, D, ids),
           NEW k \in D, NEW id, UpdatedRow(id, k, t, batch, D)
    PROVE  LET row == events[id]
               e == Judged(k, t, batch)
           IN  /\ row \in Event /\ row.status = "open" /\ row.key = k
               /\ RowMatches(row, Before(k))
               /\ StaysInEvent(Before(k), t, batch[k], e, saved'[k])
               /\ Updates(row, e, t, batch[k], events'[id])
               /\ row.lastSample < t /\ row.detectedAt <= row.lastSample /\ row.detectedAt < t
               /\ batch[k] \in Nat /\ k \in Keys
<1>1. /\ id \in DOMAIN events /\ events[id].status = "open" /\ events[id].key = k
      /\ Before(k).event = id /\ Before(k).event # None
  BY DEF UpdatedRow, ActiveIn
<1>2. /\ StaysInEvent(Before(k), t, batch[k], Judged(k, t, batch), saved'[k])
      /\ Updates(events[id], Judged(k, t, batch), t, batch[k], events'[id])
      /\ events[id] \in Event
  BY UpdatedFields
<1>3. k \in Keys /\ batch[k] \in Nat
  BY KeyIs
<1>4. RowMatches(events[id], Before(k))
  <2>1. KeyMatches(OpenEventsOf(k), Before(k), events)
    BY <1>3, EventMatchesStateByKey DEF StoreInv
  <2> QED BY <1>1, <2>1 DEF KeyMatches
<1>5. events[id].detectedAt \in Nat /\ events[id].lastSample \in Nat
  BY <1>2 DEF Event
<1>6. events[id].detectedAt <= events[id].lastSample /\ events[id].lastSample <= now
  BY <1>1 DEF StoreInv, TimesAgree
<1> QED BY <1>1, <1>2, <1>3, <1>4, <1>5, <1>6, RawAfter

LEMMA InsertTells ==
    ASSUME HistoryInv, NEW t, NEW batch, NEW D, NEW ids, InsertedAs(t, batch, D, ids)
    PROVE  HistoryIsTold' /\ PeaksAreKept'
<1>1. StoreInv /\ CountInv
  BY DEF HistoryInv, CountInv
<1>2. /\ t \in Nat \ {0} /\ now \in Nat /\ now < t
      /\ raw \subseteq raw' /\ raw' \in SUBSET Row /\ IsFiniteSet(raw')
      /\ evaluated' \subseteq raw'
      /\ \A r \in raw' : r \in raw \/ r.at = t
      /\ \A r, q \in raw' : r.key = q.key /\ r.at = q.at => r = q
      /\ \A k \in D : [key |-> k, at |-> t, value |-> batch[k]] \in raw'
  BY <1>1, RawAfter
<1>3. ASSUME NEW id \in DOMAIN events
      PROVE  Tells(events[id], EvidenceOf({id}), raw) /\ HasPeak(events[id], EvidenceOf({id}), raw)
  BY DEF HistoryInv, HistoryIsTold, PeaksAreKept
<1>4. ASSUME NEW id \in DOMAIN events'
      PROVE  /\ Tells(events'[id], EvidenceOf({id})', raw')
             /\ HasPeak(events'[id], EvidenceOf({id})', raw')
  <2>1. ASSUME NEW k \in D, OpenedRow(id, k, t, batch, D, ids)
        PROVE  /\ Tells(events'[id], EvidenceOf({id})', raw')
               /\ HasPeak(events'[id], EvidenceOf({id})', raw')
    <3> DEFINE u == events'[id]
               v == batch[k]
               S == EvidenceOf({id})'
               e == Judged(k, t, batch)
               n == saved'[k]
               c == [since |-> e.startedAt, samples |-> e.triggerSamples]
               rows == raw'
    <3>1. /\ Opens(Before(k), t, v, id, e, n)
          /\ u.key = k /\ u.status = "open" /\ u.severity = n.severity
          /\ u.detectedAt = t /\ u.lastSample = t /\ u.peak = n.peak /\ u.peakAt = n.peakAt
      BY <1>1, <2>1, OpenedFields
    <3>2. u.severity = BreachedSeverity(v) /\ Counts(Before(k), t, v, n, c)
      BY <3>1 DEF Opens
    <3>3. v \in Nat /\ k \in DOMAIN batch
      BY <1>1, KeyIs DEF InsertedAs
    <3>4. \A r : r \in S <=> r \in OpeningEvidence(rows, id, k, t, v)
      <4>1. \A r : r \in evidence' /\ r.event = id
                      <=> r \in OpeningEvidence(raw', id, k, t, batch[k])
        BY <1>1, <2>1, OpenedEvidence
      <4> QED BY <4>1, EvidenceOfOneAfter
    <3> HIDE DEF c
    <3>5. PICK p \in evaluated' : p.key = k /\ p.at = n.peakAt /\ p.value = n.peak
      <4>1. Counts(Before(k), t, batch[k], saved'[k], c)
        BY <3>2
      <4>2. /\ c.samples = Cardinality(SamplesSince(evaluated', k, c.since))
            /\ \A r \in SamplesSince(evaluated', k, c.since) : r.value <= saved'[k].peak
            /\ \E r \in evaluated' :
                  r.key = k /\ r.at = saved'[k].peakAt /\ r.value = saved'[k].peak
        BY <1>1, <4>1, CountsAfter
      <4> QED BY <4>2
    <3>6. p \in rows /\ p.at <= t /\ (p.at = t => p.value = v)
      <4>1. p.at <= t /\ (p \in evaluated \/ \E j \in D : p = Sample(j, t, batch))
        BY <1>1, EvaluatedOf
      <4>2. p \in evaluated => p.at < t
        BY <1>1, EvaluatedOf
      <4>3. \A j : Sample(j, t, batch).key = j /\ Sample(j, t, batch).value = batch[j]
        BY DEF Sample
      <4>4. p \in evaluated => p.at # t
        BY <1>2, <4>2
      <4> QED BY <1>2, <3>5, <4>1, <4>3, <4>4
    <3>7. [key |-> k, at |-> t, value |-> v] \in rows
      BY <1>2
    <3> HIDE DEF u, v, S, e, n, rows
    <3>8. rows \in SUBSET Row /\ IsFiniteSet(rows) /\ t \in Nat
             /\ \A r, q \in rows : r.key = q.key /\ r.at = q.at => r = q
      BY <1>2 DEF rows
    <3>9. Tells(u, S, rows)
      BY <3>1, <3>2, <3>3, <3>4, <3>7, <3>8, TellsFirst
    <3>10. HasPeak(u, S, rows)
      BY <3>1, <3>3, <3>4, <3>5, <3>6, <3>8, PeakFirst
    <3> QED BY <3>9, <3>10 DEF u, S, rows
  <2>2. ASSUME NEW k \in D, UpdatedRow(id, k, t, batch, D)
        PROVE  /\ Tells(events'[id], EvidenceOf({id})', raw')
               /\ HasPeak(events'[id], EvidenceOf({id})', raw')
    <3> DEFINE u == events'[id]
               row == events[id]
               v == batch[k]
               R == EvidenceOf({id})
               S == EvidenceOf({id})'
               e == Judged(k, t, batch)
               s == Before(k)
               rows == raw
               more == raw'
    <3>1. /\ row \in Event /\ row.status = "open" /\ row.key = k
          /\ RowMatches(row, s) /\ StaysInEvent(s, t, v, e, saved'[k])
          /\ Updates(row, e, t, v, u)
          /\ row.lastSample < t /\ row.detectedAt <= row.lastSample /\ row.detectedAt < t
          /\ v \in Nat
      BY <1>1, <2>2, UpdatedAgrees
    <3>2. /\ e.newPeak <=> v > row.peak
          /\ IF e.transition = "escalate"
               THEN /\ row.severity = "warning" /\ e.state.severity = "critical"
                    /\ v >= CriticalThreshold
               ELSE e.state.severity = row.severity
      BY <3>1 DEF StaysInEvent, RowMatches
    <3>3. /\ v > row.peak => EvidenceKind(e) # {}
          /\ EvidenceKind(e) = {"peak"} => v > row.peak
      BY <3>2, KindIs
    <3>4. \A r : r \in S <=>
             \/ r \in R /\ ~(r.kind = "peak" /\ EvidenceKind(e) = {"peak"})
             \/ \E kind \in EvidenceKind(e) : r = EvidenceRow(id, t, v, kind)
      BY <1>1, <2>2, UpdatedEvidence, EvidenceOfOne, EvidenceOfOneAfter
    <3>5. Tells(row, R, rows) /\ HasPeak(row, R, rows)
      BY <1>3, <2>2 DEF UpdatedRow
    <3>6. R \in SUBSET Evidence
      BY <1>1, EvidenceTyped
    <3>7. /\ rows \subseteq more /\ \A r \in more : r \in rows \/ r.at = t
          /\ [key |-> row.key, at |-> t, value |-> v] \in more
      BY <1>2, <3>1
    <3> HIDE DEF u, row, v, R, S, e, s, rows, more
    <3>8. t \in Nat
      BY <1>2
    <3>9. Tells(u, S, more)
      BY <3>1, <3>2, <3>4, <3>5, <3>6, <3>7, <3>8, TellsMore
    <3>10. HasPeak(u, S, more)
      BY <3>1, <3>3, <3>4, <3>5, <3>7, <3>8, PeakMore
    <3> QED BY <3>9, <3>10 DEF u, S, more
  <2>3. CASE SameRow(id, D)
    <3> DEFINE row == events[id]
               R == EvidenceOf({id})
               rows == raw
               more == raw'
    <3>1. id \in DOMAIN events /\ events'[id] = row
      BY <2>3 DEF SameRow
    <3>2. EvidenceOf({id})' = R
      <4>1. \A r : r \in EvidenceOf({id})' <=> r \in EvidenceOf({id})
        BY <1>1, <2>3, SameEvidence, EvidenceOfOne, EvidenceOfOneAfter
      <4>2. /\ \A r \in EvidenceOf({id})' : r \in R
            /\ \A r \in R : r \in EvidenceOf({id})'
        BY <4>1
      <4> QED BY <4>2
    <3>3. Tells(row, R, rows) /\ HasPeak(row, R, rows)
      BY <1>3, <3>1
    <3>4. row.detectedAt \in Nat /\ row.detectedAt < t
      <4>1. row.detectedAt \in Nat /\ row.lastSample \in Nat
        BY <1>1, <3>1 DEF StoreInv, TypeOK, Event
      <4>2. row.detectedAt <= row.lastSample /\ row.lastSample <= now
        BY <1>1, <3>1 DEF StoreInv, TimesAgree
      <4> QED BY <1>2, <4>1, <4>2
    <3>5. rows \subseteq more /\ (\A r \in more : r \in rows \/ r.at = t) /\ t \in Nat
      BY <1>2
    <3> HIDE DEF row, R, rows, more
    <3>6. Tells(row, R, more)
      BY <3>3, <3>5 DEF Tells
    <3>7. Unreached(row, more) <=> Unreached(row, rows)
      BY <3>4, <3>5, UnreachedSame
    <3>8. HasPeak(row, R, more)
      BY <3>3, <3>7 DEF HasPeak
    <3> QED BY <3>1, <3>2, <3>6, <3>8 DEF more
  <2> QED BY <1>1, <2>1, <2>2, <2>3, RowIs
<1> QED BY <1>4 DEF HistoryIsTold, PeaksAreKept

LEMMA InsertIsFresh ==
    ASSUME HistoryInv, NEW t, NEW batch, NEW D, NEW ids, InsertedAs(t, batch, D, ids)
    PROVE  EvidenceIsFresh'
<1>1. StoreInv
  BY DEF HistoryInv, CountInv
<1>2. /\ t \in Nat \ {0} /\ now \in Nat /\ now < t /\ EvidenceInterval \in Nat \ {0}
      /\ DOMAIN saved' = DOMAIN saved \cup D /\ D \subseteq Keys
      /\ \A k \in DOMAIN saved \ D : saved'[k] = saved[k]
  BY <1>1, RawAfter, RuleAssumption DEF InsertedAs
<1>3. ASSUME NEW k \in DOMAIN saved, saved[k].event # None
      PROVE  /\ saved[k].lastEvidence # None
             /\ saved[k].lastSample - saved[k].lastEvidence < EvidenceInterval
             /\ \E r \in evidence : /\ r.event = saved[k].event
                                    /\ r.kind # "prelude" /\ r.at >= saved[k].lastEvidence
  BY <1>3 DEF HistoryInv, EvidenceIsFresh
<1>4. ASSUME NEW k \in DOMAIN saved', saved'[k].event # None
      PROVE  /\ saved'[k].lastEvidence # None
             /\ saved'[k].lastSample - saved'[k].lastEvidence < EvidenceInterval
             /\ \E r \in evidence' : /\ r.event = saved'[k].event
                                     /\ r.kind # "prelude" /\ r.at >= saved'[k].lastEvidence
  <2>1. CASE k \notin D
    <3>1. k \in DOMAIN saved /\ saved'[k] = saved[k]
      BY <1>2, <2>1
    <3>2. PICK r \in evidence : /\ r.event = saved[k].event
                                /\ r.kind # "prelude" /\ r.at >= saved[k].lastEvidence
      BY <1>3, <1>4, <3>1
    <3>3. Before(k) = saved[k] /\ k \in Keys
      BY <1>1, <3>1 DEF Before, StoreInv, TypeOK
    <3>4. r.event \in DOMAIN events /\ events[r.event].key = k
      BY <1>1, <1>4, <3>1, <3>2, <3>3, BeforeIs
    <3>5. SameRow(r.event, D)
      BY <1>1, <2>1, <3>4, OtherRowsStay
    <3>6. r \in evidence'
      BY <1>1, <3>2, <3>5, SameEvidence
    <3> QED BY <1>3, <1>4, <3>1, <3>2, <3>6
  <2>2. ASSUME k \in D, k \in OpeningIn(D, t, batch)
        PROVE  /\ saved'[k].lastEvidence # None
               /\ saved'[k].lastSample - saved'[k].lastEvidence < EvidenceInterval
               /\ \E r \in evidence' : /\ r.event = saved'[k].event
                                       /\ r.kind # "prelude" /\ r.at >= saved'[k].lastEvidence
    <3> DEFINE r == EvidenceRow(ids[k], t, batch[k], "trigger")
    <3>1. OpenedRow(ids[k], k, t, batch, D, ids)
      BY <1>1, <2>2, RowsOfKeys
    <3>2. r \in OpeningEvidence(raw', ids[k], k, t, batch[k])
      BY DEF OpeningEvidence
    <3>3. r \in evidence'
      BY <1>1, <2>2, <3>1, <3>2, OpenedEvidence
    <3>4. r.event = ids[k] /\ r.kind = "trigger" /\ r.at = t
      BY EvidenceRowIs
    <3> HIDE DEF r
    <3>5. /\ saved'[k].event = ids[k] /\ saved'[k].lastEvidence = t /\ saved'[k].lastSample = t
      <4>1. Opens(Before(k), t, batch[k], ids[k], Judged(k, t, batch), saved'[k])
               /\ saved'[k].lastSample = t
        BY <1>1, <2>2, KeyIs
      <4> QED BY <4>1 DEF Opens
    <3> QED BY <1>2, <3>3, <3>4, <3>5 DEF None
  <2>3. ASSUME k \in D, k \in ActiveIn(D)
        PROVE  /\ saved'[k].lastEvidence # None
               /\ saved'[k].lastSample - saved'[k].lastEvidence < EvidenceInterval
               /\ \E r \in evidence' : /\ r.event = saved'[k].event
                                       /\ r.kind # "prelude" /\ r.at >= saved'[k].lastEvidence
    <3> DEFINE s == Before(k)
               e == Judged(k, t, batch)
               n == saved'[k]
               id == s.event
               v == batch[k]
               new(kind) == EvidenceRow(id, t, v, kind)
               due == e.periodic
    <3>1. UpdatedRow(id, k, t, batch, D)
      BY <1>1, <2>3, RowsOfKeys
    <3>2. StaysInEvent(s, t, v, e, n) /\ n.lastSample = t /\ s \in RuleState
      BY <1>1, <2>3, KeyIs
    <3>3. /\ e.transition # "close" /\ n.event = id
          /\ n.lastEvidence = IF due THEN t ELSE s.lastEvidence
          /\ due <=> EvidenceDue(s, t)
      BY <1>4, <3>2 DEF StaysInEvent
    <3>4. s = saved[k] /\ k \in DOMAIN saved /\ s.event # None
      BY <1>1, <3>1 DEF UpdatedRow, ActiveIn, Before
    <3>5. PICK r \in evidence : r.event = id /\ r.kind # "prelude" /\ r.at >= s.lastEvidence
      BY <1>3, <3>4
    <3>6. s.lastEvidence # None /\ s.lastEvidence \in Nat /\ s.lastEvidence < t
      <4>1. s.lastEvidence \in Nat
        BY <3>2 DEF RuleState
      <4>2. r.at \in Nat /\ r.at < t
        <5>1. r \in EvidenceOf({id}) /\ id \in DOMAIN events /\ r \in Evidence
          BY <1>1, <3>1, <3>5, EvidenceOfOne DEF UpdatedRow, StoreInv, TypeOK
        <5>2. r.at <= events[id].lastSample
          BY <5>1 DEF HistoryInv, HistoryIsTold, Tells
        <5>3. events[id].lastSample <= now /\ events[id].lastSample \in Nat
          BY <1>1, <5>1 DEF StoreInv, TypeOK, TimesAgree, Event
        <5>4. r.at \in Nat
          BY <5>1 DEF Evidence
        <5> DEFINE last == events[id].lastSample
        <5> HIDE DEF last
        <5>5. r.at <= last /\ last <= now /\ last \in Nat
          BY <5>2, <5>3 DEF last
        <5> QED BY <1>2, <5>4, <5>5
      <4>3. s.lastEvidence # None
        BY <1>3, <3>4
      <4>4. r.at >= s.lastEvidence
        BY <3>5
      <4> DEFINE last == s.lastEvidence
      <4> HIDE DEF last
      <4>5. r.at >= last /\ last \in Nat /\ last # None
        BY <4>1, <4>3, <4>4 DEF last
      <4>6. last < t
        BY <1>2, <4>2, <4>5
      <4> QED BY <4>5, <4>6 DEF last
    <3>7. /\ due => EvidenceKind(e) # {}
          /\ \A kind \in EvidenceKind(e) : kind # "prelude"
      BY KindIs
    <3>8. \A kind \in EvidenceKind(e) :
             /\ new(kind) \in evidence' /\ new(kind).event = id /\ new(kind).at = t
             /\ new(kind).kind = kind
      <4>1. ASSUME NEW kind \in EvidenceKind(e) PROVE new(kind) \in evidence'
        BY <1>1, <2>3, <3>1, UpdatedEvidence
      <4> QED BY <4>1, EvidenceRowIs
    <3>9. r \in evidence' \/ EvidenceKind(e) # {}
      <4>1. EvidenceKind(e) = {} => r \in evidence'
        BY <1>1, <2>3, <3>1, <3>5, UpdatedEvidence
      <4> QED BY <4>1
    <3> HIDE DEF s, e, n, id, v, new, due
    <3>10. /\ n.lastEvidence # None /\ n.lastEvidence \in Nat /\ n.lastEvidence <= t
           /\ n.lastSample - n.lastEvidence < EvidenceInterval
      <4>1. CASE due
        BY <1>2, <3>2, <3>3, <4>1 DEF None
      <4>2. CASE ~due
        <5>1. n.lastEvidence = s.lastEvidence /\ ~EvidenceDue(s, t)
          BY <3>3, <4>2
        <5> QED BY <1>2, <3>2, <3>6, <5>1 DEF EvidenceDue
      <4> QED BY <4>1, <4>2
    <3>11. \E x \in evidence' : /\ x.event = n.event /\ x.kind # "prelude"
                                /\ x.at >= n.lastEvidence
      <4>1. CASE EvidenceKind(e) # {}
        <5>1. PICK kind : kind \in EvidenceKind(e)
          BY <4>1
        <5> QED BY <1>2, <3>3, <3>7, <3>8, <3>10, <5>1
      <4>2. CASE EvidenceKind(e) = {}
        BY <3>3, <3>5, <3>7, <3>9, <4>2
      <4> QED BY <4>1, <4>2
    <3> QED BY <3>10, <3>11 DEF n
  <2>4. ASSUME k \in D, k \notin OpeningIn(D, t, batch), k \notin ActiveIn(D)
        PROVE  FALSE
    BY <1>1, <1>4, <2>4, KeyIs DEF StaysOutside
  <2> QED BY <2>1, <2>2, <2>3, <2>4
<1> QED BY <1>4 DEF EvidenceIsFresh

\* Whatever else happens leaves the evidence of the events that stay alone.
LEMMA OtherHistory ==
    ASSUME HistoryInv, UNCHANGED <<saved, raw>>, DOMAIN events' \subseteq DOMAIN events,
           \A id \in DOMAIN events' : events'[id] = events[id],
           \A id \in DOMAIN events \ DOMAIN events' : events[id].status = "closed",
           \A r : r \in evidence' <=> r \in evidence /\ r.event \in DOMAIN events'
    PROVE  HistoryIsTold' /\ PeaksAreKept' /\ EvidenceIsFresh'
<1>1. ASSUME NEW id \in DOMAIN events'
      PROVE  EvidenceOf({id})' = EvidenceOf({id})
  <2>1. ASSUME NEW r PROVE r \in EvidenceOf({id})' <=> r \in EvidenceOf({id})
    <3>1. r \in evidence' <=> r \in evidence /\ r.event \in DOMAIN events'
      OBVIOUS
    <3> QED BY <3>1, EvidenceOfOne, EvidenceOfOneAfter
  <2>2. /\ \A r \in EvidenceOf({id})' : r \in EvidenceOf({id})
        /\ \A r \in EvidenceOf({id}) : r \in EvidenceOf({id})'
    BY <2>1
  <2> QED BY <2>2
<1>2. HistoryIsTold'
  BY <1>1 DEF HistoryInv, HistoryIsTold
<1>3. PeaksAreKept'
  BY <1>1 DEF HistoryInv, PeaksAreKept
<1>4. ASSUME NEW k \in DOMAIN saved, saved[k].event # None
      PROVE  saved[k].event \in DOMAIN events'
  <2>1. StoreInv
    BY DEF HistoryInv, CountInv
  <2>2. Before(k) = saved[k] /\ k \in Keys
    BY <2>1 DEF Before, StoreInv, TypeOK
  <2>3. saved[k].event \in DOMAIN events /\ events[saved[k].event].status = "open"
    BY <1>4, <2>1, <2>2, BeforeIs
  <2> QED BY <2>3
<1>5. EvidenceIsFresh'
  <2> SUFFICES ASSUME NEW k \in DOMAIN saved, saved[k].event # None
               PROVE  /\ saved[k].lastEvidence # None
                      /\ saved[k].lastSample - saved[k].lastEvidence < EvidenceInterval
                      /\ \E r \in evidence' : /\ r.event = saved[k].event
                                              /\ r.kind # "prelude"
                                              /\ r.at >= saved[k].lastEvidence
    BY DEF EvidenceIsFresh
  <2>1. /\ saved[k].lastEvidence # None
        /\ saved[k].lastSample - saved[k].lastEvidence < EvidenceInterval
        /\ \E r \in evidence : /\ r.event = saved[k].event
                               /\ r.kind # "prelude" /\ r.at >= saved[k].lastEvidence
    BY DEF HistoryInv, EvidenceIsFresh
  <2> QED BY <1>4, <2>1
<1> QED BY <1>2, <1>3, <1>5

LEMMA HistoryInvariant == Spec => []HistoryInv
<1>1. Init => HistoryIsTold /\ PeaksAreKept /\ EvidenceIsFresh
  BY DEF Init, HistoryIsTold, PeaksAreKept, EvidenceIsFresh
<1>2. HistoryInv /\ [Next]_vars => HistoryIsTold' /\ PeaksAreKept' /\ EvidenceIsFresh'
  <2> SUFFICES ASSUME HistoryInv, [Next]_vars
               PROVE  HistoryIsTold' /\ PeaksAreKept' /\ EvidenceIsFresh'
    OBVIOUS
  <2>1. StoreInv
    BY DEF HistoryInv, CountInv
  <2>2. ASSUME NEW t, NEW batch, NEW D, NEW ids, InsertedAs(t, batch, D, ids)
        PROVE  HistoryIsTold' /\ PeaksAreKept' /\ EvidenceIsFresh'
    BY <2>2, InsertTells, InsertIsFresh
  <2> QED BY <2>1, <2>2, OtherSteps, OtherHistory
<1>3. HistoryInv <=> CountInv /\ HistoryIsTold /\ PeaksAreKept /\ EvidenceIsFresh
  BY DEF HistoryInv
<1> QED BY <1>1, <1>2, <1>3, CountInvariant, PTL DEF Spec

\* At most one row of the evidence R of an event is of a kind that is told apart.
LEMMA AtMostOne ==
    ASSUME NEW S, \A r, q \in S : r = q
    PROVE  Cardinality(S) <= 1
<1>1. CASE S = {}
  BY <1>1, FS_EmptySet
<1>2. CASE S # {}
  <2>1. PICK x \in S : TRUE
    BY <1>2
  <2>2. S = {x}
    BY <2>1
  <2>3. Cardinality({x}) = 1
    BY FS_Singleton
  <2> QED BY <2>2, <2>3
<1> QED BY <1>1, <1>2

\* The evidence of an event, whatever opened, escalated and closed it, tells its history: every
\* row is a stored sample, the trigger is the only sample of the detection, the prelude is all
\* that is older, a critical severity is justified by a critical row, and the recovery is there
\* exactly if the event is closed (insert_prelude, insert_evidence).
THEOREM EvidenceTells == Spec => []EvidenceTellsTheHistory
<1>1. HistoryInv => EvidenceTellsTheHistory
  <2> SUFFICES ASSUME HistoryInv, NEW id \in DOMAIN events
               PROVE  LET row == events[id]
                      IN  /\ \A r \in EvidenceOf({id}) :
                                /\ [key |-> row.key, at |-> r.at, value |-> r.value] \in raw
                                /\ r.kind = "prelude" <=> r.at < row.detectedAt
                          /\ \A r, q \in EvidenceOf({id}) : r.at = q.at => r = q
                          /\ {r.at : r \in RowsOfKind(id, "trigger")} = {row.detectedAt}
                          /\ row.severity = "critical" <=>
                                \E r \in RowsOfKind(id, "trigger")
                                           \cup RowsOfKind(id, "escalation") :
                                    r.value >= CriticalThreshold
                          /\ Cardinality(RowsOfKind(id, "escalation")) <= 1
                          /\ {r.at : r \in RowsOfKind(id, "recovery")} =
                                IF row.status = "closed" THEN {row.endedAt} ELSE {}
    BY DEF EvidenceTellsTheHistory
  <2> DEFINE row == events[id]
             R == EvidenceOf({id})
  <2>1. \A kind, r : r \in RowsOfKind(id, kind) <=> r \in R /\ r.kind = kind
    BY EvidenceOfOne DEF RowsOfKind
  <2>2. Tells(row, R, raw)
    BY DEF HistoryInv, HistoryIsTold
  <2>3. row.status \in {"open", "closed"}
    BY DEF HistoryInv, CountInv, StoreInv, TypeOK, Event
  <2> HIDE DEF row, R
  <2>4. {r.at : r \in RowsOfKind(id, "trigger")} = {row.detectedAt}
    <3>1. \A r \in RowsOfKind(id, "trigger") : r.at = row.detectedAt
      BY <2>1, <2>2 DEF Tells
    <3>2. \E r : r \in RowsOfKind(id, "trigger")
      BY <2>1, <2>2 DEF Tells
    <3> QED BY <3>1, <3>2
  <2>5. row.severity = "critical" <=>
           \E r \in RowsOfKind(id, "trigger") \cup RowsOfKind(id, "escalation") :
               r.value >= CriticalThreshold
    BY <2>1, <2>2 DEF Tells
  <2>6. Cardinality(RowsOfKind(id, "escalation")) <= 1
    <3>1. \A r, q \in RowsOfKind(id, "escalation") : r = q
      BY <2>1, <2>2 DEF Tells
    <3> QED BY <3>1, AtMostOne
  <2>7. {r.at : r \in RowsOfKind(id, "recovery")} =
           IF row.status = "closed" THEN {row.endedAt} ELSE {}
    <3>1. \A r \in RowsOfKind(id, "recovery") : row.status = "closed" /\ r.at = row.endedAt
      BY <2>1, <2>2 DEF Tells
    <3>2. row.status = "closed" => \E r : r \in RowsOfKind(id, "recovery")
      BY <2>1, <2>2 DEF Tells
    <3> QED BY <3>1, <3>2
  <2>8. /\ \A r \in R :
              /\ [key |-> row.key, at |-> r.at, value |-> r.value] \in raw
              /\ r.kind = "prelude" <=> r.at < row.detectedAt
        /\ \A r, q \in R : r.at = q.at => r = q
    BY <2>2 DEF Tells
  <2> QED BY <2>4, <2>5, <2>6, <2>7, <2>8 DEF row, R
<1> QED BY <1>1, HistoryInvariant, PTL

\* The peak of an event is among its evidence, unless it lies beyond the prelude, with one peak
\* row at most; and the evidence of an open event is no older than the interval, even though a
\* new peak takes the place of a periodic row and is replaced itself (apply_evaluation).
THEOREM PeakAndCheckpoints == Spec => []PeakAndCheckpointsAreKept
<1>1. HistoryInv => PeakAndCheckpointsAreKept
  <2> SUFFICES ASSUME HistoryInv, NEW id \in DOMAIN events
               PROVE  LET row == events[id]
                      IN  /\ \/ BeforePrelude(row, row.peakAt)
                             \/ \E r \in EvidenceOf({id}) : r.at = row.peakAt /\ r.value = row.peak
                          /\ Cardinality(RowsOfKind(id, "peak")) <= 1
                          /\ row.status = "open" =>
                                \E r \in EvidenceOf({id}) :
                                    /\ r.kind # "prelude"
                                    /\ row.lastSample - r.at < EvidenceInterval
    BY DEF PeakAndCheckpointsAreKept
  <2> DEFINE row == events[id]
             R == EvidenceOf({id})
  <2>1. StoreInv
    BY DEF HistoryInv, CountInv
  <2>2. Tells(row, R, raw) /\ HasPeak(row, R, raw)
    BY DEF HistoryInv, HistoryIsTold, PeaksAreKept
  <2>3. \/ BeforePrelude(row, row.peakAt)
        \/ \E r \in R : r.at = row.peakAt /\ r.value = row.peak
    BY <2>2 DEF HasPeak, Unreached, BeforePrelude
  <2>4. Cardinality(RowsOfKind(id, "peak")) <= 1
    <3>1. \A r \in RowsOfKind(id, "peak") : r \in R /\ r.kind = "peak"
      BY EvidenceOfOne DEF RowsOfKind
    <3> HIDE DEF R
    <3>2. \A r, q \in RowsOfKind(id, "peak") : r = q
      BY <2>2, <3>1 DEF Tells
    <3> QED BY <3>2, AtMostOne
  <2>5. ASSUME row.status = "open"
        PROVE  \E r \in R : r.kind # "prelude" /\ row.lastSample - r.at < EvidenceInterval
    <3> DEFINE k == row.key
               s == saved[k]
    <3>1. row \in Event /\ k \in Keys /\ id \in OpenEventsOf(k)
      BY <2>1, <2>5 DEF StoreInv, TypeOK, Event, OpenEventsOf
    <3>2. k \in DOMAIN saved /\ s.event # None /\ id = s.event /\ row.lastSample = s.lastSample
      BY <2>1, <3>1 DEF StoreInv, EventMatchesState
    <3>3. /\ s.lastSample - s.lastEvidence < EvidenceInterval
          /\ \E r \in evidence : /\ r.event = s.event /\ r.kind # "prelude"
                                 /\ r.at >= s.lastEvidence
      BY <3>2 DEF HistoryInv, EvidenceIsFresh
    <3>4. PICK r \in evidence : r.event = s.event /\ r.kind # "prelude" /\ r.at >= s.lastEvidence
      BY <3>3
    <3>5. r \in R
      BY <3>2, <3>4, EvidenceOfOne
    <3>6. r.at \in Nat /\ s.lastSample \in Nat /\ s.lastEvidence \in Nat
             /\ EvidenceInterval \in Nat
      BY <2>1, <3>2, <3>4, RuleAssumption DEF StoreInv, TypeOK, Evidence, RuleState
    <3> HIDE DEF row, R, k, s
    <3>7. row.lastSample - r.at < EvidenceInterval
      BY <3>2, <3>3, <3>4, <3>6
    <3> QED BY <3>4, <3>5, <3>7
  <2> QED BY <2>3, <2>4, <2>5
<1> QED BY <1>1, HistoryInvariant, PTL

\* No step of the writer, of maintenance or of a restart reopens or changes a closed event,
\* takes back a critical severity, deletes an open event, drops evidence other than an open
\* event's outdated peak, or gives an id a second time.
THEOREM ClosedEventsFinal == Spec => ClosedEventsAreFinal
<1> DEFINE Final ==
        /\ \A id \in DOMAIN events \cap DOMAIN events' :
              /\ events[id].status = "closed" => events'[id] = events[id]
              /\ events[id].severity = "critical" => events'[id].severity = "critical"
              /\ \A r \in EvidenceOf({id}) \ evidence' :
                    r.kind = "peak" /\ events[id].status = "open"
        /\ \A id \in DOMAIN events \ DOMAIN events' : events[id].status = "closed"
        /\ DOMAIN events' \ DOMAIN events \subseteq lastId + 1 .. lastId'
<1>1. StoreInv /\ [Next]_vars => Final
  <2> SUFFICES ASSUME StoreInv, [Next]_vars PROVE Final
    OBVIOUS
  <2>1. ASSUME NEW t, NEW batch, NEW D, NEW ids, InsertedAs(t, batch, D, ids)
        PROVE  Final
    <3>1. ASSUME NEW id \in DOMAIN events, id \in DOMAIN events'
          PROVE  /\ events[id].status = "closed" => events'[id] = events[id]
                 /\ events[id].severity = "critical" => events'[id].severity = "critical"
      <4>1. CASE SameRow(id, D)
        BY <4>1 DEF SameRow
      <4>2. ASSUME NEW k \in D, UpdatedRow(id, k, t, batch, D)
            PROVE  /\ events[id].status = "open"
                   /\ events[id].severity = "critical" => events'[id].severity = "critical"
        <5>1. /\ events[id].status = "open" /\ RowMatches(events[id], Before(k))
              /\ StaysInEvent(Before(k), t, batch[k], Judged(k, t, batch), saved'[k])
              /\ Updates(events[id], Judged(k, t, batch), t, batch[k], events'[id])
          BY <2>1, <4>2, UpdatedAgrees
        <5> QED BY <5>1 DEF RowMatches, StaysInEvent, Updates
      <4>3. \A k : ~OpenedRow(id, k, t, batch, D, ids)
        BY <3>1 DEF OpenedRow
      <4> QED BY <2>1, <3>1, <4>1, <4>2, <4>3, RowIs
    <3>2. ASSUME NEW id \in DOMAIN events, NEW r \in EvidenceOf({id}) \ evidence'
          PROVE  r.kind = "peak" /\ events[id].status = "open"
      <4>1. r \in evidence /\ r.event = id
        BY <3>2, EvidenceOfOne
      <4>2. Dropped(r, D, t, batch)
        BY <2>1, <3>2, <4>1 DEF InsertedAs
      <4>3. PICK k \in D : k \in ActiveIn(D) /\ r.event = Before(k).event /\ r.kind = "peak"
        BY <2>1, <4>2, DroppedIs
      <4>4. UpdatedRow(Before(k).event, k, t, batch, D)
        BY <2>1, <4>3, RowsOfKeys
      <4> QED BY <4>1, <4>3, <4>4 DEF UpdatedRow
    <3>3. DOMAIN events \subseteq DOMAIN events'
      BY <2>1 DEF InsertedAs
    <3>4. DOMAIN events' \ DOMAIN events \subseteq lastId + 1 .. lastId'
      BY <2>1 DEF InsertedAs
    <3> QED BY <3>1, <3>2, <3>3, <3>4
  <2>2. ASSUME /\ UNCHANGED <<saved, lastId, raw, evaluated>>
               /\ DOMAIN events' \subseteq DOMAIN events
               /\ \A id \in DOMAIN events' : events'[id] = events[id]
               /\ \A id \in DOMAIN events \ DOMAIN events' : events[id].status = "closed"
               /\ \A r : r \in evidence' <=> r \in evidence /\ r.event \in DOMAIN events'
        PROVE  Final
    <3>1. ASSUME NEW id \in DOMAIN events' PROVE EvidenceOf({id}) \ evidence' = {}
      BY <2>2, EvidenceOfOne
    <3>2. \A id \in DOMAIN events' : events'[id] = events[id]
      BY <2>2
    <3>3. DOMAIN events' \ DOMAIN events = {}
      BY <2>2
    <3>4. \A id \in DOMAIN events \ DOMAIN events' : events[id].status = "closed"
      BY <2>2
    <3> QED BY <3>1, <3>2, <3>3, <3>4
  <2> QED BY <2>1, <2>2, OtherSteps
<1>2. StoreInv /\ [Next]_vars => [Final]_tables
  BY <1>1
<1> QED BY <1>2, StoreInvariant, PTL DEF Spec, ClosedEventsAreFinal
=============================================================================
