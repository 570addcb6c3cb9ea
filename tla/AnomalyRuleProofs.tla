------------------------- MODULE AnomalyRuleProofs -------------------------
(***************************************************************************)
(* Lemmas about the operators of AnomalyRule, for every rule: the types    *)
(* and the agreement of the fields that an evaluation keeps, and what it   *)
(* does to the candidates and the peak.  AnomalyDetectorProofs and         *)
(* EventStoreProofs rest on them.                                          *)
(***************************************************************************)
EXTENDS AnomalyRule, TLAPS

----------------------------------------------------------------------------
(* What the operators of AnomalyRule preserve. *)

LEMMA CandidateTypes ==
    /\ NoCandidate \in CandidateState
    /\ \A t \in Nat : NewCandidate(t) \in CandidateState
    /\ \A c \in CandidateState : ExtendCandidate(c) \in CandidateState
BY DEF NoCandidate, NewCandidate, ExtendCandidate, CandidateState, None

\* Every assignment of the code keeps the type of the state.
LEMMA AssignmentTypes ==
    ASSUME NEW s \in RuleState
    PROVE  /\ \A p \in Phase : WithPhase(s, p) \in RuleState
           /\ \A x \in Severity \cup {"none"} :
                 /\ WithSeverity(s, x) \in RuleState
                 /\ WithPendingSeverity(s, x) \in RuleState
           /\ \A c \in CandidateState :
                 /\ WithPending(s, c) \in RuleState
                 /\ WithCritical(s, c) \in RuleState
                 /\ WithRecovery(s, c) \in RuleState
           /\ \A t \in Nat : WithLast(s, t) \in RuleState /\ WithEvidence(s, t) \in RuleState
           /\ CountGap(s) \in RuleState
           /\ ResetToNormal(s) \in RuleState
<1>1. \A p \in Phase : WithPhase(s, p) \in RuleState
  BY DEF WithPhase, RuleState
<1>2. \A x \in Severity \cup {"none"} : WithSeverity(s, x) \in RuleState
  BY DEF WithSeverity, RuleState
<1>3. \A x \in Severity \cup {"none"} : WithPendingSeverity(s, x) \in RuleState
  BY DEF WithPendingSeverity, RuleState
<1>4. \A c \in CandidateState : WithPending(s, c) \in RuleState
  BY DEF WithPending, RuleState
<1>5. \A c \in CandidateState : WithCritical(s, c) \in RuleState
  BY DEF WithCritical, RuleState
<1>6. \A c \in CandidateState : WithRecovery(s, c) \in RuleState
  BY DEF WithRecovery, RuleState
<1>7. \A t \in Nat : WithLast(s, t) \in RuleState
  BY DEF WithLast, RuleState
<1>8. \A t \in Nat : WithEvidence(s, t) \in RuleState
  BY DEF WithEvidence, RuleState
<1>9. CountGap(s) \in RuleState
  BY DEF CountGap, RuleState
<1>10. ResetToNormal(s) \in RuleState
  BY CandidateTypes DEF ResetToNormal, DefaultState, RuleState, None, Phase
<1> QED BY <1>1, <1>2, <1>3, <1>4, <1>5, <1>6, <1>7, <1>8, <1>9, <1>10
LEMMA PeakType ==
    ASSUME NEW s \in RuleState, NEW t \in Nat, NEW v \in Nat
    PROVE  WithPeak(s, t, v) \in RuleState
<1> DEFINE p == [s EXCEPT !.peak = v]
<1>1. p \in RuleState
  BY DEF RuleState
<1> HIDE DEF p
<1>2. [p EXCEPT !.peakAt = t] \in RuleState
  BY <1>1 DEF RuleState
<1> QED BY <1>2 DEF p, WithPeak

\* A gap keeps the type and the agreement of a rule state, and the event it is in.
LEMMA AfterGapAgrees ==
    ASSUME NEW s \in RuleState, NEW t \in Nat \ {0}, Consistent(s)
    PROVE  /\ AfterGap(s, t) \in RuleState
           /\ Consistent(AfterGap(s, t))
           /\ AfterGap(s, t).event = s.event
<1>1. CASE ~DataGap(s, t) \/ s.phase = "normal"
  BY <1>1 DEF AfterGap
<1>2. CASE DataGap(s, t) /\ s.phase = "pending"
  <2>1. AfterGap(s, t) = ResetToNormal(s)
    BY <1>2 DEF AfterGap
  <2>2. Consistent(ResetToNormal(s)) /\ ResetToNormal(s).event = s.event
    BY <1>2 DEF Consistent, CandidatesAgree, ResetToNormal, DefaultState, NoCandidate, None,
       InEvent
  <2> QED BY <2>1, <2>2, AssignmentTypes
<1>3. CASE DataGap(s, t) /\ s.phase \in {"open", "recovering"}
  <2> DEFINE g == CountGap(WithPhase(ClearRecovery(ClearCritical(s)), "open"))
  <2>1. AfterGap(s, t) = g
    BY <1>3 DEF AfterGap
  <2>2. g \in RuleState
    BY CandidateTypes, AssignmentTypes DEF ClearRecovery, ClearCritical, Phase
  <2>3. Consistent(g) /\ g.event = s.event
    BY <1>3 DEF Consistent, CandidatesAgree, CountGap, WithPhase, ClearRecovery, ClearCritical,
       WithRecovery, WithCritical, NoCandidate, None, InEvent, RuleState
  <2> QED BY <2>1, <2>2, <2>3
<1> QED BY <1>1, <1>2, <1>3 DEF RuleState, Phase

\* So does noting the sample and its peak.
LEMMA WithSampleAgrees ==
    ASSUME NEW s \in RuleState, NEW t \in Nat \ {0}, NEW v \in Nat, Consistent(s)
    PROVE  /\ WithSample(s, t, v) \in RuleState
           /\ Consistent(WithSample(s, t, v))
           /\ WithSample(s, t, v).event = s.event
           /\ WithSample(s, t, v).lastSample = t
<1>1. WithSample(s, t, v) \in RuleState
  BY AssignmentTypes, PeakType DEF WithSample
<1>2. CASE s.phase # "normal" /\ v > s.peak
  BY <1>2 DEF WithSample, WithLast, WithPeak, Consistent, CandidatesAgree, InEvent, RuleState
<1>3. CASE ~(s.phase # "normal" /\ v > s.peak)
  BY <1>3 DEF WithSample, WithLast, Consistent, CandidatesAgree, InEvent, RuleState
<1> QED BY <1>1, <1>2, <1>3

\* What every phase's operator guarantees of its result r on the state s.
GoodOutcome(s, r) ==
    /\ r.state \in RuleState
    /\ CandidatesAgree(r.state)
    /\ r.transition \in Transition
    /\ r.state.event = s.event
    /\ r.state.lastSample = s.lastSample
    /\ r.transition = "open" => ~InEvent(s) /\ InEvent(r.state)
    /\ r.transition # "open" => (InEvent(r.state) <=> InEvent(s))

LEMMA OpenIfMaturedGood ==
    ASSUME NEW s \in RuleState, NEW t \in Nat, CandidatesAgree(s), s.phase = "pending"
    PROVE  GoodOutcome(s, OpenIfMatured(s, t))
<1> DEFINE o == ClearPending(WithSeverity(WithPhase(s, "open"), s.pendingSeverity))
<1>1. s.pendingSeverity \in Severity
  BY DEF CandidatesAgree, RuleState
<1>2. o \in RuleState
  BY <1>1, CandidateTypes, AssignmentTypes DEF ClearPending, Phase
<1>3. CandidatesAgree(o) /\ o.event = s.event /\ o.lastSample = s.lastSample /\ InEvent(o)
  BY <1>1 DEF CandidatesAgree, ClearPending, WithPending, WithPendingSeverity, WithSeverity,
     WithPhase, NoCandidate, None, InEvent, RuleState, Severity
<1> HIDE DEF o
<1>4. OpenIfMatured(s, t) \in {[state |-> o, transition |-> "open"],
                               [state |-> s, transition |-> "none"]}
  BY DEF OpenIfMatured, Outcome, o
<1> QED BY <1>2, <1>3, <1>4 DEF GoodOutcome, Transition, InEvent

LEMMA PendTypes ==
    ASSUME NEW s \in RuleState, NEW x \in Severity, NEW t \in Nat \ {0}, CandidatesAgree(s),
           ~InEvent(s)
    PROVE  /\ Pend(s, x, t) \in RuleState
           /\ Pend(s, x, t).phase = "pending"
           /\ CandidatesAgree(Pend(s, x, t))
           /\ Pend(s, x, t).event = s.event
           /\ Pend(s, x, t).lastSample = s.lastSample
<1>1. Pend(s, x, t) \in RuleState
  BY CandidateTypes, AssignmentTypes DEF Pend, Phase
<1>2. /\ Pend(s, x, t).phase = "pending"
      /\ Pend(s, x, t).event = s.event
      /\ Pend(s, x, t).lastSample = s.lastSample
      /\ CandidatesAgree(Pend(s, x, t))
  BY DEF Pend, CandidatesAgree, WithPending, WithPendingSeverity, WithPhase, NewCandidate,
     None, InEvent, RuleState, Severity, Phase
<1> QED BY <1>1, <1>2

LEMMA BeginPendingGood ==
    ASSUME NEW s \in RuleState, NEW t \in Nat \ {0}, NEW v \in Nat, Consistent(s),
           s.phase = "normal"
    PROVE  GoodOutcome(s, BeginPendingOrStayNormal(s, t, v))
<1>1. CASE BreachedSeverity(v) = "none"
  BY <1>1 DEF BeginPendingOrStayNormal, Outcome, GoodOutcome, Consistent, Transition
<1>2. CASE BreachedSeverity(v) # "none"
  <2> DEFINE x == BreachedSeverity(v)
             p == Pend(s, x, t)
             q == WithPeak(p, t, v)
  <2>1. x \in Severity
    BY <1>2 DEF BreachedSeverity, Severity
  <2>2. ~InEvent(s) /\ CandidatesAgree(s)
    BY DEF InEvent, Consistent
  <2>3. /\ p \in RuleState /\ p.phase = "pending" /\ CandidatesAgree(p)
        /\ p.event = s.event /\ p.lastSample = s.lastSample
    BY <2>1, <2>2, PendTypes
  <2> HIDE DEF p
  <2>4. q \in RuleState
    BY <2>3, PeakType
  <2>5. /\ q.phase = "pending" /\ CandidatesAgree(q)
        /\ q.event = s.event /\ q.lastSample = s.lastSample
    BY <2>3 DEF WithPeak, CandidatesAgree, InEvent, RuleState
  <2>6. BeginPendingOrStayNormal(s, t, v) = OpenIfMatured(q, t)
    BY <1>2 DEF BeginPendingOrStayNormal, p
  <2> HIDE DEF q
  <2>7. GoodOutcome(q, OpenIfMatured(q, t))
    BY <2>4, <2>5, OpenIfMaturedGood
  <2> QED BY <2>2, <2>5, <2>6, <2>7 DEF GoodOutcome, InEvent
<1> QED BY <1>1, <1>2

LEMMA ContinuePendingGood ==
    ASSUME NEW s \in RuleState, NEW t \in Nat \ {0}, NEW v \in Nat, Consistent(s),
           s.phase = "pending"
    PROVE  GoodOutcome(s, ContinuePending(s, t, v))
<1> DEFINE x == BreachedSeverity(v)
<1>0. ~InEvent(s) /\ CandidatesAgree(s) /\ s.event = None
  BY DEF InEvent, Consistent
<1>1. CASE x = "none"
  <2>1. ContinuePending(s, t, v) = Outcome(ResetToNormal(s), "none")
    BY <1>1 DEF ContinuePending
  <2>2. ResetToNormal(s) \in RuleState
    BY AssignmentTypes
  <2>3. /\ CandidatesAgree(ResetToNormal(s)) /\ ~InEvent(ResetToNormal(s))
        /\ ResetToNormal(s).event = None /\ ResetToNormal(s).lastSample = s.lastSample
    BY DEF CandidatesAgree, ResetToNormal, DefaultState, NoCandidate, None, InEvent
  <2> QED BY <1>0, <2>1, <2>2, <2>3 DEF GoodOutcome, Outcome, Transition
<1>2. CASE x # "none" /\ x # s.pendingSeverity
  <2>1. x \in Severity
    BY <1>2 DEF BreachedSeverity, Severity
  <2>2. ContinuePending(s, t, v) = OpenIfMatured(Pend(s, x, t), t)
    BY <1>2 DEF ContinuePending
  <2>3. GoodOutcome(Pend(s, x, t), OpenIfMatured(Pend(s, x, t), t))
    BY <1>0, <2>1, PendTypes, OpenIfMaturedGood
  <2>4. ~InEvent(Pend(s, x, t))
    BY <1>0, <2>1, PendTypes DEF InEvent
  <2> QED BY <1>0, <2>1, <2>2, <2>3, <2>4, PendTypes DEF GoodOutcome
<1>3. CASE x # "none" /\ x = s.pendingSeverity
  <2> DEFINE q == WithPending(s, ExtendCandidate(s.pending))
  <2>1. q \in RuleState
    BY CandidateTypes, AssignmentTypes DEF RuleState
  <2>2. /\ q.phase = "pending" /\ CandidatesAgree(q)
        /\ q.event = s.event /\ q.lastSample = s.lastSample
    BY <1>0 DEF WithPending, ExtendCandidate, CandidatesAgree, InEvent, RuleState,
       CandidateState, None
  <2>3. ContinuePending(s, t, v) = OpenIfMatured(q, t)
    BY <1>3 DEF ContinuePending
  <2> HIDE DEF q
  <2>4. GoodOutcome(q, OpenIfMatured(q, t))
    BY <2>1, <2>2, OpenIfMaturedGood
  <2> QED BY <1>0, <2>2, <2>3, <2>4 DEF GoodOutcome, InEvent
<1> QED BY <1>1, <1>2, <1>3

\* In an event the severity is a severity; continue_open is given an open state, with or
\* without a recovery candidate still to clear.
OpenBase(s) ==
    /\ s \in RuleState
    /\ s.phase = "open" /\ s.severity \in Severity
    /\ s.pendingSeverity = "none" /\ s.pending.samples = 0 /\ s.pending.since = None
    /\ s.critical.samples = 0 <=> s.critical.since = None
    /\ s.critical.samples # 0 => s.severity = "warning"
    /\ s.recovery.samples = 0 /\ s.recovery.since = None

LEMMA OpenIsOpenBase ==
    ASSUME NEW s \in RuleState, CandidatesAgree(s), s.phase = "open"
    PROVE  OpenBase(s)
BY DEF OpenBase, CandidatesAgree, RuleState, InEvent

LEMMA ContinueOpenGood ==
    ASSUME NEW s, NEW t \in Nat \ {0}, NEW v \in Nat, OpenBase(s)
    PROVE  /\ GoodOutcome(s, ContinueOpen(s, t, v))
           /\ ContinueOpen(s, t, v).transition # "open"
<1> DEFINE quiet == ClearRecovery(s)
<1>1. s \in RuleState /\ InEvent(s)
  BY DEF OpenBase, InEvent
<1>2. quiet \in RuleState
  BY <1>1, CandidateTypes, AssignmentTypes DEF ClearRecovery
<1>3. OpenBase(quiet) /\ quiet.event = s.event /\ quiet.lastSample = s.lastSample
         /\ quiet.severity = s.severity /\ quiet.critical = s.critical
  BY <1>1, <1>2 DEF OpenBase, ClearRecovery, WithRecovery, NoCandidate, None, RuleState
<1>4. CASE v <= RecoveryThreshold
  <2> DEFINE r == WithRecovery(WithPhase(s, "recovering"), NewCandidate(t))
  <2>1. ContinueOpen(s, t, v) = Outcome(r, "none")
    BY <1>4 DEF ContinueOpen
  <2>2. r \in RuleState
    BY <1>1, CandidateTypes, AssignmentTypes DEF Phase
  <2>3. /\ CandidatesAgree(r) /\ InEvent(r) /\ r.event = s.event /\ r.lastSample = s.lastSample
    BY <1>1 DEF OpenBase, WithRecovery, WithPhase, NewCandidate, CandidatesAgree, InEvent,
       RuleState, None, Severity
  <2> HIDE DEF r
  <2> QED BY <1>1, <2>1, <2>2, <2>3 DEF GoodOutcome, Outcome, Transition
<1>5. CASE v > RecoveryThreshold /\ (s.severity # "warning" \/ v < CriticalThreshold)
  <2> DEFINE r == ClearCritical(quiet)
  <2>1. ContinueOpen(s, t, v) = Outcome(r, "none")
    BY <1>5, RuleAssumption DEF ContinueOpen
  <2> HIDE DEF quiet
  <2>2. r \in RuleState
    BY <1>2, CandidateTypes, AssignmentTypes DEF ClearCritical
  <2>3. /\ CandidatesAgree(r) /\ InEvent(r) /\ r.event = s.event /\ r.lastSample = s.lastSample
    BY <1>2, <1>3 DEF OpenBase, ClearCritical, WithCritical, NoCandidate, CandidatesAgree,
       InEvent, RuleState, None, Severity
  <2> HIDE DEF r
  <2> QED BY <1>1, <2>1, <2>2, <2>3 DEF GoodOutcome, Outcome, Transition
<1>6. CASE v > RecoveryThreshold /\ s.severity = "warning" /\ v >= CriticalThreshold
  <2> DEFINE c == NextCritical(s, t)
             r == ClearCritical(WithSeverity(quiet, "critical"))
             w == WithCritical(quiet, c)
  <2>1. ContinueOpen(s, t, v) \in {Outcome(r, "escalate"), Outcome(w, "none")}
    BY <1>6, RuleAssumption DEF ContinueOpen
  <2>2. c \in CandidateState /\ c.samples # 0 /\ c.since # None
    BY <1>1 DEF NextCritical, NewCandidate, ExtendCandidate, NoCandidate, CandidateState,
       OpenBase, RuleState, None
  <2> HIDE DEF quiet, c
  <2>3. r \in RuleState /\ w \in RuleState
    BY <1>2, <2>2, CandidateTypes, AssignmentTypes DEF ClearCritical, Severity
  <2>4. /\ CandidatesAgree(r) /\ InEvent(r) /\ r.event = s.event /\ r.lastSample = s.lastSample
    BY <1>2, <1>3 DEF OpenBase, ClearCritical, WithSeverity, WithCritical, NoCandidate,
       CandidatesAgree, InEvent, RuleState, None, Severity
  <2>5. /\ CandidatesAgree(w) /\ InEvent(w) /\ w.event = s.event /\ w.lastSample = s.lastSample
    BY <1>2, <1>3, <1>6, <2>2 DEF OpenBase, WithCritical, CandidatesAgree, InEvent, RuleState,
       None, Severity
  <2> HIDE DEF r, w
  <2> QED BY <1>1, <2>1, <2>3, <2>4, <2>5 DEF GoodOutcome, Outcome, Transition
<1> QED BY <1>4, <1>5, <1>6, RuleAssumption

LEMMA ContinueRecoveringGood ==
    ASSUME NEW s \in RuleState, NEW t \in Nat \ {0}, NEW v \in Nat, Consistent(s),
           s.phase = "recovering"
    PROVE  /\ GoodOutcome(s, ContinueRecovering(s, t, v))
           /\ ContinueRecovering(s, t, v).transition # "open"
<1> DEFINE reopened == ClearRecovery(WithPhase(s, "open"))
           longer == WithRecovery(s, ExtendCandidate(s.recovery))
<1>1. InEvent(s) /\ CandidatesAgree(s)
  BY DEF InEvent, Consistent
<1>2. reopened \in RuleState
  BY CandidateTypes, AssignmentTypes DEF ClearRecovery, Phase
<1>3. /\ CandidatesAgree(reopened) /\ reopened.phase = "open"
      /\ reopened.event = s.event /\ reopened.lastSample = s.lastSample
  BY <1>1 DEF CandidatesAgree, ClearRecovery, WithRecovery, WithPhase, NoCandidate, None,
     InEvent, RuleState
<1>4. longer \in RuleState
  BY CandidateTypes, AssignmentTypes DEF RuleState
<1>5. /\ CandidatesAgree(longer) /\ InEvent(longer)
      /\ longer.event = s.event /\ longer.lastSample = s.lastSample
  BY <1>1 DEF WithRecovery, ExtendCandidate, CandidatesAgree, InEvent, RuleState,
     CandidateState, None
<1>6. ContinueRecovering(s, t, v) \in {ContinueOpen(reopened, t, v), Outcome(reopened, "none"),
                                      Outcome(longer, "close"), Outcome(longer, "none")}
  BY DEF ContinueRecovering
<1> HIDE DEF reopened, longer
<1>7. /\ GoodOutcome(reopened, ContinueOpen(reopened, t, v))
      /\ ContinueOpen(reopened, t, v).transition # "open"
  BY <1>2, <1>3, OpenIsOpenBase, ContinueOpenGood
<1>8. InEvent(reopened)
  BY <1>3 DEF InEvent
<1>9. /\ GoodOutcome(s, Outcome(reopened, "none"))
      /\ GoodOutcome(s, Outcome(longer, "close"))
      /\ GoodOutcome(s, Outcome(longer, "none"))
  BY <1>1, <1>2, <1>3, <1>4, <1>5, <1>8 DEF GoodOutcome, Outcome, Transition
<1>10. GoodOutcome(s, ContinueOpen(reopened, t, v))
  BY <1>1, <1>3, <1>7, <1>8 DEF GoodOutcome
<1> QED BY <1>6, <1>7, <1>9, <1>10 DEF Outcome

LEMMA DispatchGood ==
    ASSUME NEW s \in RuleState, NEW t \in Nat \ {0}, NEW v \in Nat, Consistent(s)
    PROVE  GoodOutcome(s, Dispatch(s, t, v))
<1>1. CASE s.phase = "normal"
  BY <1>1, BeginPendingGood DEF Dispatch
<1>2. CASE s.phase = "pending"
  BY <1>2, ContinuePendingGood DEF Dispatch
<1>3. CASE s.phase = "open"
  BY <1>3, OpenIsOpenBase, ContinueOpenGood DEF Dispatch, Consistent
<1>4. CASE s.phase = "recovering"
  BY <1>4, ContinueRecoveringGood DEF Dispatch
<1> QED BY <1>1, <1>2, <1>3, <1>4 DEF RuleState, Phase

\* One accepted sample, with the id of the event it may open, leads from a consistent state
\* to a consistent state.
LEMMA EvaluateGood ==
    ASSUME NEW s \in RuleState, NEW t \in Nat \ {0}, NEW v \in Nat, NEW id \in Nat \ {0},
           Consistent(s)
    PROVE  LET e == Evaluate(s, t, v)
               n == IF e.transition = "open" THEN AttachEvent(e.next, id, t) ELSE e.next
           IN  /\ n \in RuleState /\ Consistent(n)
               /\ n.lastSample = t
               /\ e.transition \in Transition /\ e.event = s.event
               /\ e.startedAt \in Nat /\ e.triggerSamples \in Nat
<1> DEFINE seen == WithSample(AfterGap(s, t), t, v)
           result == Dispatch(seen, t, v)
           closing == result.transition = "close"
           periodic == s.event # None /\ ~closing /\ EvidenceDue(s, t)
           final == IF periodic THEN WithEvidence(result.state, t) ELSE result.state
           candidate == IF result.transition # "open" THEN NoCandidate
                        ELSE IF seen.phase = "pending"
                                /\ seen.pendingSeverity = BreachedSeverity(v)
                          THEN ExtendCandidate(seen.pending)
                        ELSE NewCandidate(t)
           next == IF closing THEN ResetToNormal(final) ELSE final
           e == Evaluate(s, t, v)
<1>1. /\ e.next = next /\ e.transition = result.transition /\ e.event = s.event
      /\ e.startedAt = candidate.since /\ e.triggerSamples = candidate.samples
  BY DEF Evaluate
<1>2. /\ seen \in RuleState /\ Consistent(seen) /\ seen.event = s.event /\ seen.lastSample = t
  <2>1. AfterGap(s, t) \in RuleState /\ Consistent(AfterGap(s, t)) /\ AfterGap(s, t).event = s.event
    BY AfterGapAgrees
  <2> QED BY <2>1, WithSampleAgrees
<1> HIDE DEF seen
<1>3. GoodOutcome(seen, result)
  BY <1>2, DispatchGood
<1>4. candidate \in CandidateState
  BY <1>2, CandidateTypes DEF RuleState
<1> HIDE DEF result, candidate
<1>5. /\ final \in RuleState
      /\ final.event = s.event /\ final.lastSample = t
      /\ InEvent(final) <=> InEvent(result.state)
      /\ final.phase = result.state.phase
  <2>1. result.state \in RuleState /\ result.state.event = s.event /\ result.state.lastSample = t
    BY <1>2, <1>3 DEF GoodOutcome
  <2>2. WithEvidence(result.state, t) \in RuleState
    BY <2>1, AssignmentTypes
  <2>3. /\ WithEvidence(result.state, t).event = result.state.event
        /\ WithEvidence(result.state, t).lastSample = result.state.lastSample
        /\ WithEvidence(result.state, t).phase = result.state.phase
    BY <2>1 DEF WithEvidence, RuleState
  <2> HIDE DEF periodic
  <2> QED BY <2>1, <2>2, <2>3 DEF InEvent
<1>6. CandidatesAgree(final)
  <2>1. result.state \in RuleState /\ CandidatesAgree(result.state)
    BY <1>3 DEF GoodOutcome
  <2>2. CASE ~periodic
    BY <2>1, <2>2
  <2>3. CASE periodic
    <3>1. InEvent(seen) /\ result.transition # "open"
      BY <1>2, <1>3, <2>3 DEF GoodOutcome, Consistent
    <3>2. InEvent(result.state)
      BY <1>3, <3>1 DEF GoodOutcome
    <3>3. CandidatesAgree(WithEvidence(result.state, t))
      BY <2>1, <3>2 DEF WithEvidence, CandidatesAgree, InEvent, RuleState
    <3> QED BY <2>3, <3>3
  <2> QED BY <2>2, <2>3
<1> HIDE DEF final
<1>7. CASE result.transition = "open"
  <2>1. e.next = final /\ e.transition = "open"
    BY <1>1, <1>7
  <2>2. InEvent(final)
    BY <1>3, <1>5, <1>7 DEF GoodOutcome
  <2> DEFINE a == [final EXCEPT !.event = id]
  <2>3. a \in RuleState
    BY <1>5 DEF RuleState
  <2>4. a.event = id /\ a.lastSample = t /\ InEvent(a) /\ CandidatesAgree(a)
    BY <1>5, <1>6, <2>2 DEF RuleState, CandidatesAgree, InEvent
  <2> HIDE DEF a
  <2>5. WithEvidence(a, t) \in RuleState
    BY <2>3, AssignmentTypes
  <2>6. Consistent(WithEvidence(a, t)) /\ WithEvidence(a, t).lastSample = t
    BY <2>3, <2>4 DEF WithEvidence, Consistent, CandidatesAgree, InEvent, RuleState, None
  <2> QED BY <1>1, <1>3, <1>4, <2>1, <2>5, <2>6 DEF AttachEvent, a, CandidateState, GoodOutcome
<1>8. CASE result.transition = "close"
  <2>1. e.next = ResetToNormal(final) /\ e.transition # "open"
    BY <1>1, <1>8
  <2>2. ResetToNormal(final) \in RuleState
    BY <1>5, AssignmentTypes
  <2>3. Consistent(ResetToNormal(final)) /\ ResetToNormal(final).lastSample = t
    BY <1>5 DEF Consistent, CandidatesAgree, ResetToNormal, DefaultState, NoCandidate, None,
       InEvent
  <2> QED BY <1>1, <1>3, <1>4, <2>1, <2>2, <2>3 DEF CandidateState, GoodOutcome
<1>9. CASE result.transition \notin {"open", "close"}
  <2>1. e.next = final /\ e.transition # "open"
    BY <1>1, <1>9
  <2>2. Consistent(final)
    BY <1>2, <1>3, <1>5, <1>6, <1>9 DEF Consistent, GoodOutcome
  <2> QED BY <1>1, <1>3, <1>4, <1>5, <2>1, <2>2 DEF CandidateState, GoodOutcome
<1> QED BY <1>7, <1>8, <1>9

----------------------------------------------------------------------------
(* The candidates and the peak. *)

SameCandidates(r, s) ==
    /\ r.phase = s.phase /\ r.severity = s.severity /\ r.pendingSeverity = s.pendingSeverity
    /\ r.pending = s.pending /\ r.critical = s.critical /\ r.recovery = s.recovery

LEMMA NoCandidateIs ==
    ASSUME NEW c \in CandidateState, c.samples = 0 <=> c.since = None
    PROVE  c.samples = 0 <=> c = NoCandidate
BY DEF CandidateState, NoCandidate, None

\* Outside an event, and in a critical one, there is no critical candidate.
LEMMA CriticalInWarning ==
    ASSUME NEW s \in RuleState, CandidatesAgree(s)
    PROVE  s.critical # NoCandidate => InEvent(s) /\ s.severity = "warning"
<1>1. s.critical \in CandidateState /\ (s.critical.samples = 0 <=> s.critical.since = None)
  BY DEF RuleState, CandidatesAgree
<1>2. s.critical # NoCandidate => s.critical.samples # 0
  BY <1>1, NoCandidateIs
<1> QED BY <1>2 DEF CandidatesAgree

\* The new sample and the peak leave the candidates alone.
LEMMA WithSampleSame ==
    ASSUME NEW s \in RuleState, NEW t, NEW v
    PROVE  SameCandidates(WithSample(s, t, v), s)
<1>1. SameCandidates(WithLast(s, t), s)
  BY DEF WithLast, RuleState, SameCandidates
<1>2. SameCandidates(WithPeak(WithLast(s, t), t, v), s)
  BY DEF WithLast, WithPeak, RuleState, SameCandidates
<1> QED BY <1>1, <1>2 DEF WithSample

\* The state kept after the outcome r, and the candidate that opens an event.
Kept(r) == IF r.transition = "close" THEN ResetToNormal(r.state) ELSE r.state

Opened(seen, n) ==
    IF seen.phase = "pending" /\ seen.pendingSeverity = BreachedSeverity(n.value)
      THEN ExtendCandidate(seen.pending)
      ELSE NewCandidate(n.at)

\* Numbering an event and noting the evidence change neither candidates nor peak.
Noted(q, s) ==
    /\ SameCandidates(q, s)
    /\ q.peak = s.peak /\ q.peakAt = s.peakAt /\ q.lastSample = s.lastSample

LEMMA NotedIs ==
    ASSUME NEW s \in RuleState, NEW t \in Nat, NEW id \in Nat
    PROVE  /\ Noted(WithEvidence(s, t), s)
           /\ Noted(AttachEvent(s, id, t), s)
<1>1. Noted(WithEvidence(s, t), s)
  BY DEF Noted, SameCandidates, WithEvidence, RuleState
<1> DEFINE a == [s EXCEPT !.event = id]
<1>2. a \in RuleState /\ Noted(a, s)
  BY DEF Noted, SameCandidates, RuleState
<1> HIDE DEF a
<1>3. Noted(WithEvidence(a, t), a)
  BY <1>2 DEF Noted, SameCandidates, WithEvidence, RuleState
<1>4. Noted(WithEvidence(a, t), s)
  BY <1>2, <1>3 DEF Noted, SameCandidates
<1> QED BY <1>1, <1>4 DEF AttachEvent, a

\* A gap drops a pending candidate and leaves the peak of an event.
LEMMA GapPeak ==
    ASSUME NEW s \in RuleState, NEW t, AfterGap(s, t).phase # "normal"
    PROVE  /\ AfterGap(s, t).peak = s.peak /\ AfterGap(s, t).peakAt = s.peakAt
           /\ s.phase # "normal"
           /\ AfterGap(s, t).phase = "pending" => /\ s.phase = "pending"
                                                  /\ AfterGap(s, t).pending = s.pending
<1> DEFINE e == CountGap(WithPhase(ClearRecovery(ClearCritical(s)), "open"))
<1>1. ResetToNormal(s).phase = "normal"
  BY DEF ResetToNormal, DefaultState
<1>2. e.phase = "open" /\ e.peak = s.peak /\ e.peakAt = s.peakAt
  BY DEF CountGap, WithPhase, ClearRecovery, ClearCritical, WithRecovery, WithCritical,
     RuleState
<1> HIDE DEF e
<1>3. \/ AfterGap(s, t) = s
      \/ AfterGap(s, t) = e /\ s.phase # "normal"
  BY <1>1 DEF AfterGap, e
<1> QED BY <1>2, <1>3

\* What a breach, an opening and a change of severity leave of the peak: it is reset with the
\* first pending sample only, and a pending candidate begins now or when it did.
PeakCarried(s, r, t, v) ==
    /\ r.phase # "normal" /\ s.phase = "normal" =>
          /\ r.peak = v /\ r.peakAt = t
          /\ r.phase = "pending" => r.pending = NewCandidate(t)
    /\ r.phase # "normal" /\ s.phase # "normal" =>
          /\ r.peak = s.peak /\ r.peakAt = s.peakAt
          /\ r.gaps = s.gaps /\ r.lastEvidence = s.lastEvidence
          /\ r.phase = "pending" =>
                /\ s.phase = "pending"
                /\ r.pending \in {NewCandidate(t), ExtendCandidate(s.pending)}

\* The critical candidate is dropped, kept by a sample below the warning threshold, or made or
\* extended by a critical one.
CriticalCarried(s, r, t, v) ==
    \/ r.critical = NoCandidate
    \/ r.critical = s.critical /\ BreachedSeverity(v) = "none"
    \/ r.critical = NextCritical(s, t) /\ BreachedSeverity(v) = "critical"

LEMMA OpenIfMaturedCarries ==
    ASSUME NEW p \in RuleState, p.phase = "pending", NEW t
    PROVE  LET r == OpenIfMatured(p, t).state
           IN  /\ r.phase \in {"pending", "open"}
               /\ r.gaps = p.gaps /\ r.lastEvidence = p.lastEvidence
               /\ r.peak = p.peak /\ r.peakAt = p.peakAt /\ r.critical = p.critical
               /\ r.phase = "pending" => r.pending = p.pending
<1> DEFINE o == ClearPending(WithSeverity(WithPhase(p, "open"), p.pendingSeverity))
<1>1. /\ o.phase = "open" /\ o.gaps = p.gaps /\ o.lastEvidence = p.lastEvidence
      /\ o.peak = p.peak /\ o.peakAt = p.peakAt /\ o.critical = p.critical
  BY DEF ClearPending, WithPending, WithPendingSeverity, WithSeverity, WithPhase, RuleState
<1> HIDE DEF o
<1>2. OpenIfMatured(p, t).state \in {o, p}
  BY DEF OpenIfMatured, Outcome, o
<1> QED BY <1>1, <1>2

LEMMA OutsideEventCarries ==
    ASSUME NEW s \in RuleState, CandidatesAgree(s), ~InEvent(s), NEW t \in Nat \ {0}, NEW v \in Nat
    PROVE  /\ PeakCarried(s, Dispatch(s, t, v).state, t, v)
           /\ CriticalCarried(s, Dispatch(s, t, v).state, t, v)
<1> DEFINE x == BreachedSeverity(v)
           r == Dispatch(s, t, v).state
<1>1. s.critical = NoCandidate
  BY CriticalInWarning
<1>2. s.phase \in {"normal", "pending"}
  BY DEF InEvent, RuleState, Phase
<1>3. CASE x = "none"
  <2>1. r = IF s.phase = "normal" THEN s ELSE ResetToNormal(s)
    BY <1>2, <1>3 DEF Dispatch, BeginPendingOrStayNormal, ContinuePending, Outcome
  <2>2. ResetToNormal(s).phase = "normal" /\ ResetToNormal(s).critical = NoCandidate
    BY DEF ResetToNormal, DefaultState
  <2> HIDE DEF r
  <2>3. r.phase = "normal" /\ r.critical = NoCandidate
    BY <1>1, <2>1, <2>2
  <2> QED BY <2>3 DEF PeakCarried, CriticalCarried, r
<1>4. CASE x # "none" /\ s.phase = "normal"
  <2> DEFINE p == Pend(s, x, t)
             q == WithPeak(p, t, v)
  <2>1. x \in Severity
    BY <1>4 DEF BreachedSeverity, Severity
  <2>2. p \in RuleState /\ p.phase = "pending" /\ p.critical = s.critical
             /\ p.pending = NewCandidate(t)
    BY <2>1, PendTypes DEF Pend, WithPending, WithPendingSeverity, WithPhase, RuleState
  <2> HIDE DEF p
  <2>3. q \in RuleState
    BY <2>2, PeakType
  <2>4. /\ q.phase = "pending" /\ q.critical = s.critical /\ q.pending = NewCandidate(t)
        /\ q.peak = v /\ q.peakAt = t
    BY <2>2 DEF WithPeak, RuleState
  <2>5. r = OpenIfMatured(q, t).state
    BY <1>4 DEF Dispatch, BeginPendingOrStayNormal, p
  <2> HIDE DEF q, r
  <2>7. /\ r.phase \in {"pending", "open"} /\ r.peak = v /\ r.peakAt = t
        /\ r.critical = NoCandidate /\ (r.phase = "pending" => r.pending = NewCandidate(t))
    BY <1>1, <2>3, <2>4, <2>5, OpenIfMaturedCarries
  <2> QED BY <1>4, <2>7 DEF PeakCarried, CriticalCarried, r
<1>5. CASE x # "none" /\ s.phase = "pending"
  <2> DEFINE p == Pend(s, x, t)
             q == WithPending(s, ExtendCandidate(s.pending))
  <2>1. x \in Severity
    BY <1>5 DEF BreachedSeverity, Severity
  <2>2. /\ p \in RuleState /\ p.phase = "pending" /\ p.critical = s.critical
        /\ p.pending = NewCandidate(t) /\ p.peak = s.peak /\ p.peakAt = s.peakAt
        /\ p.gaps = s.gaps /\ p.lastEvidence = s.lastEvidence
    BY <2>1, PendTypes DEF Pend, WithPending, WithPendingSeverity, WithPhase, RuleState
  <2>3. q \in RuleState
    BY CandidateTypes, AssignmentTypes DEF RuleState
  <2>4. /\ q.phase = "pending" /\ q.critical = s.critical
        /\ q.pending = ExtendCandidate(s.pending) /\ q.peak = s.peak /\ q.peakAt = s.peakAt
        /\ q.gaps = s.gaps /\ q.lastEvidence = s.lastEvidence
    BY <1>5 DEF WithPending, RuleState
  <2>6. r = OpenIfMatured(IF x # s.pendingSeverity THEN p ELSE q, t).state
    BY <1>5 DEF Dispatch, ContinuePending
  <2> HIDE DEF p, q, r, x
  <2>7. PICK y \in RuleState :
           /\ y.phase = "pending" /\ y.critical = s.critical
           /\ y.peak = s.peak /\ y.peakAt = s.peakAt
           /\ y.gaps = s.gaps /\ y.lastEvidence = s.lastEvidence
           /\ y.pending \in {NewCandidate(t), ExtendCandidate(s.pending)}
           /\ r = OpenIfMatured(y, t).state
    BY <2>2, <2>3, <2>4, <2>6
  <2>8. /\ r.phase \in {"pending", "open"} /\ r.peak = s.peak /\ r.peakAt = s.peakAt
        /\ r.critical = NoCandidate /\ r.gaps = s.gaps /\ r.lastEvidence = s.lastEvidence
        /\ r.phase = "pending" => r.pending \in {NewCandidate(t), ExtendCandidate(s.pending)}
    BY <1>1, <2>7, OpenIfMaturedCarries
  <2> QED BY <1>5, <2>8 DEF PeakCarried, CriticalCarried, r
<1> QED BY <1>2, <1>3, <1>4, <1>5

LEMMA ContinueOpenCarries ==
    ASSUME NEW s \in RuleState, s.phase = "open", NEW t \in Nat \ {0}, NEW v \in Nat
    PROVE  LET r == ContinueOpen(s, t, v).state
           IN  /\ r.phase \in {"open", "recovering"}
               /\ r.peak = s.peak /\ r.peakAt = s.peakAt
               /\ r.gaps = s.gaps /\ r.lastEvidence = s.lastEvidence
               /\ CriticalCarried(s, r, t, v)
<1> DEFINE r == ContinueOpen(s, t, v).state
           quiet == ClearRecovery(s)
           n == NextCritical(s, t)
           a == WithRecovery(WithPhase(s, "recovering"), NewCandidate(t))
           b == ClearCritical(quiet)
           c == ClearCritical(WithSeverity(quiet, "critical"))
           d == WithCritical(quiet, n)
<1>1. quiet \in RuleState
  BY CandidateTypes, AssignmentTypes DEF ClearRecovery
<1>2. quiet.phase = "open" /\ quiet.peak = s.peak /\ quiet.peakAt = s.peakAt
         /\ quiet.gaps = s.gaps /\ quiet.lastEvidence = s.lastEvidence
  BY DEF ClearRecovery, WithRecovery, RuleState
<1>3. /\ a.phase = "recovering" /\ a.peak = s.peak /\ a.peakAt = s.peakAt
      /\ a.gaps = s.gaps /\ a.lastEvidence = s.lastEvidence
      /\ a.critical = s.critical
  BY DEF WithRecovery, WithPhase, RuleState
<1> HIDE DEF quiet, n, a
<1>4. /\ b.phase = "open" /\ b.peak = s.peak /\ b.peakAt = s.peakAt
      /\ b.gaps = s.gaps /\ b.lastEvidence = s.lastEvidence
      /\ b.critical = NoCandidate
  BY <1>1, <1>2 DEF ClearCritical, WithCritical, RuleState
<1>5. /\ c.phase = "open" /\ c.peak = s.peak /\ c.peakAt = s.peakAt
      /\ c.gaps = s.gaps /\ c.lastEvidence = s.lastEvidence
      /\ c.critical = NoCandidate
  BY <1>1, <1>2 DEF ClearCritical, WithCritical, WithSeverity, RuleState
<1>6. /\ d.phase = "open" /\ d.peak = s.peak /\ d.peakAt = s.peakAt
      /\ d.gaps = s.gaps /\ d.lastEvidence = s.lastEvidence /\ d.critical = n
  BY <1>1, <1>2 DEF WithCritical, RuleState
<1> HIDE DEF b, c, d, r
<1>7. CASE v <= RecoveryThreshold
  <2>1. r = a /\ BreachedSeverity(v) = "none"
    BY <1>7, RuleAssumption DEF ContinueOpen, BreachedSeverity, Outcome, a, r
  <2> QED BY <1>3, <2>1 DEF CriticalCarried, r
<1>8. CASE v > RecoveryThreshold /\ (s.severity # "warning" \/ v < CriticalThreshold)
  <2>1. r = b
    BY <1>8, RuleAssumption DEF ContinueOpen, Outcome, b, quiet, r
  <2> QED BY <1>4, <2>1 DEF CriticalCarried, r
<1>9. CASE v > RecoveryThreshold /\ s.severity = "warning" /\ v >= CriticalThreshold
  <2>1. r \in {c, d}
    BY <1>9, RuleAssumption DEF ContinueOpen, Outcome, c, d, n, quiet, r
  <2>2. BreachedSeverity(v) = "critical"
    BY <1>9, RuleAssumption DEF BreachedSeverity
  <2> QED BY <1>5, <1>6, <2>1, <2>2 DEF CriticalCarried, n, r
<1> QED BY <1>7, <1>8, <1>9, RuleAssumption

LEMMA InEventCarries ==
    ASSUME NEW s \in RuleState, CandidatesAgree(s), InEvent(s), NEW t \in Nat \ {0}, NEW v \in Nat
    PROVE  /\ PeakCarried(s, Dispatch(s, t, v).state, t, v)
           /\ CriticalCarried(s, Dispatch(s, t, v).state, t, v)
<1> DEFINE r == Dispatch(s, t, v).state
<1>1. CASE s.phase = "open"
  <2>1. r = ContinueOpen(s, t, v).state
    BY <1>1 DEF Dispatch
  <2> HIDE DEF r
  <2>2. /\ r.phase \in {"open", "recovering"}
        /\ r.peak = s.peak /\ r.peakAt = s.peakAt
        /\ r.gaps = s.gaps /\ r.lastEvidence = s.lastEvidence /\ CriticalCarried(s, r, t, v)
    BY <1>1, <2>1, ContinueOpenCarries
  <2> QED BY <1>1, <2>2 DEF PeakCarried, r
<1>2. CASE s.phase = "recovering"
  <2> DEFINE reopened == ClearRecovery(WithPhase(s, "open"))
             longer == WithRecovery(s, ExtendCandidate(s.recovery))
  <2>1. /\ reopened \in RuleState /\ reopened.phase = "open" /\ reopened.peak = s.peak
        /\ reopened.peakAt = s.peakAt /\ reopened.critical = s.critical
        /\ reopened.gaps = s.gaps /\ reopened.lastEvidence = s.lastEvidence
    <3>1. reopened \in RuleState
      BY CandidateTypes, AssignmentTypes DEF ClearRecovery, Phase
    <3>2. /\ reopened.phase = "open" /\ reopened.peak = s.peak
          /\ reopened.peakAt = s.peakAt /\ reopened.critical = s.critical
        /\ reopened.gaps = s.gaps /\ reopened.lastEvidence = s.lastEvidence
      BY DEF ClearRecovery, WithRecovery, WithPhase, RuleState
    <3> QED BY <3>1, <3>2
  <2>2. /\ longer.phase = "recovering" /\ longer.peak = s.peak /\ longer.peakAt = s.peakAt
        /\ longer.critical = s.critical
        /\ longer.gaps = s.gaps /\ longer.lastEvidence = s.lastEvidence
    BY <1>2 DEF WithRecovery, RuleState
  <2> HIDE DEF reopened, longer, r
  <2>3. CASE v >= WarningThreshold
    <3>1. r = ContinueOpen(reopened, t, v).state
      BY <1>2, <2>3 DEF Dispatch, ContinueRecovering, reopened, r
    <3>2. /\ r.phase \in {"open", "recovering"}
          /\ r.peak = s.peak /\ r.peakAt = s.peakAt
          /\ r.gaps = s.gaps /\ r.lastEvidence = s.lastEvidence
          /\ CriticalCarried(reopened, r, t, v)
      BY <2>1, <3>1, ContinueOpenCarries
    <3>3. CriticalCarried(s, r, t, v)
      BY <2>1, <3>2 DEF CriticalCarried, NextCritical
    <3> QED BY <1>2, <3>2, <3>3 DEF PeakCarried, r
  <2>4. CASE v < WarningThreshold
    <3>1. r \in {reopened, longer}
      BY <1>2, <2>4, RuleAssumption DEF Dispatch, ContinueRecovering, Outcome, reopened, longer, r
    <3>2. BreachedSeverity(v) = "none"
      BY <2>4, RuleAssumption DEF BreachedSeverity
    <3>3. r.phase \in {"open", "recovering"} /\ r.peak = s.peak /\ r.peakAt = s.peakAt
             /\ r.gaps = s.gaps /\ r.lastEvidence = s.lastEvidence
             /\ r.critical = s.critical
      BY <2>1, <2>2, <3>1
    <3> QED BY <1>2, <3>2, <3>3 DEF PeakCarried, CriticalCarried, r
  <2> QED BY <2>3, <2>4, RuleAssumption
<1> QED BY <1>1, <1>2 DEF InEvent

LEMMA DispatchCarries ==
    ASSUME NEW s \in RuleState, CandidatesAgree(s), NEW t \in Nat \ {0}, NEW v \in Nat
    PROVE  /\ PeakCarried(s, Dispatch(s, t, v).state, t, v)
           /\ CriticalCarried(s, Dispatch(s, t, v).state, t, v)
BY OutsideEventCarries, InEventCarries
----------------------------------------------------------------------------
(* The severity. *)

\* An opening takes the severity of its sample, a critical sample escalates a warning, and
\* nothing else changes the severity of an event.
SeverityCarried(s, r, v) ==
    /\ ~InEvent(s) => /\ r.transition \in {"none", "open"}
                      /\ r.transition = "open" => r.state.severity = BreachedSeverity(v)
    /\ InEvent(s) =>
          /\ r.transition # "open"
          /\ r.transition = "escalate" => /\ s.severity = "warning"
                                          /\ r.state.severity = "critical"
                                          /\ v >= CriticalThreshold
          /\ r.transition # "escalate" => r.state.severity = s.severity

LEMMA OpenIfMaturedSeverity ==
    ASSUME NEW p \in RuleState, NEW t
    PROVE  LET r == OpenIfMatured(p, t)
           IN  /\ r.transition \in {"none", "open"}
               /\ r.transition = "open" => r.state.severity = p.pendingSeverity
<1> DEFINE o == ClearPending(WithSeverity(WithPhase(p, "open"), p.pendingSeverity))
<1>1. o.severity = p.pendingSeverity
  BY DEF ClearPending, WithPending, WithPendingSeverity, WithSeverity, WithPhase, RuleState
<1> HIDE DEF o
<1>2. OpenIfMatured(p, t) \in {Outcome(o, "open"), Outcome(p, "none")}
  BY DEF OpenIfMatured, o
<1> QED BY <1>1, <1>2 DEF Outcome

LEMMA OutsideEventSeverity ==
    ASSUME NEW s \in RuleState, CandidatesAgree(s), ~InEvent(s), NEW t \in Nat \ {0}, NEW v \in Nat
    PROVE  SeverityCarried(s, Dispatch(s, t, v), v)
<1> DEFINE x == BreachedSeverity(v)
           r == Dispatch(s, t, v)
<1>2. s.phase \in {"normal", "pending"}
  BY DEF InEvent, RuleState, Phase
<1>3. CASE x = "none"
  <2>1. r.transition = "none"
    BY <1>2, <1>3 DEF Dispatch, BeginPendingOrStayNormal, ContinuePending, Outcome
  <2> QED BY <2>1 DEF SeverityCarried
<1>4. CASE x # "none"
  <2> DEFINE p == Pend(s, x, t)
             q == WithPeak(p, t, v)
             m == WithPending(s, ExtendCandidate(s.pending))
  <2>1. x \in Severity
    BY <1>4 DEF BreachedSeverity, Severity
  <2>2. p \in RuleState /\ p.pendingSeverity = x
    BY <2>1, PendTypes DEF Pend, WithPending, WithPendingSeverity, WithPhase, RuleState
  <2> HIDE DEF p
  <2>3. q \in RuleState
    BY <2>2, PeakType
  <2>4. q.pendingSeverity = x
    BY <2>2 DEF WithPeak, RuleState
  <2>5. m \in RuleState /\ m.pendingSeverity = s.pendingSeverity
    BY CandidateTypes, AssignmentTypes DEF RuleState, WithPending
  <2>6. r = OpenIfMatured(IF s.phase = "normal" THEN q
                          ELSE IF x # s.pendingSeverity THEN p ELSE m, t)
    BY <1>2, <1>4 DEF Dispatch, BeginPendingOrStayNormal, ContinuePending, p
  <2> HIDE DEF q, m, r, x
  <2>7. PICK y \in RuleState : y.pendingSeverity = x /\ r = OpenIfMatured(y, t)
    BY <2>2, <2>3, <2>4, <2>5, <2>6
  <2>8. /\ r.transition \in {"none", "open"}
        /\ r.transition = "open" => r.state.severity = x
    BY <2>7, OpenIfMaturedSeverity
  <2> QED BY <2>8 DEF SeverityCarried, x, r
<1> QED BY <1>3, <1>4

LEMMA ContinueOpenSeverity ==
    ASSUME NEW s \in RuleState, s.phase = "open", NEW t \in Nat \ {0}, NEW v \in Nat
    PROVE  SeverityCarried(s, ContinueOpen(s, t, v), v)
<1> DEFINE quiet == ClearRecovery(s)
           n == NextCritical(s, t)
           a == WithRecovery(WithPhase(s, "recovering"), NewCandidate(t))
           b == ClearCritical(quiet)
           c == ClearCritical(WithSeverity(quiet, "critical"))
           d == WithCritical(quiet, n)
           r == ContinueOpen(s, t, v)
<1>1. quiet \in RuleState /\ quiet.severity = s.severity
  BY CandidateTypes, AssignmentTypes DEF ClearRecovery, WithRecovery, RuleState
<1>2. a.severity = s.severity
  BY DEF WithRecovery, WithPhase, RuleState
<1> HIDE DEF quiet, n, a
<1>3. /\ b.severity = s.severity /\ c.severity = "critical" /\ d.severity = s.severity
  BY <1>1 DEF ClearCritical, WithCritical, WithSeverity, RuleState
<1> HIDE DEF b, c, d
<1>4. \/ r \in {Outcome(a, "none"), Outcome(b, "none"), Outcome(d, "none")}
      \/ /\ r = Outcome(c, "escalate")
         /\ s.severity = "warning" /\ v >= CriticalThreshold
  BY RuleAssumption DEF ContinueOpen, a, b, c, d, n, quiet
<1> HIDE DEF r
<1> QED BY <1>2, <1>3, <1>4 DEF SeverityCarried, Outcome, InEvent, r

LEMMA DispatchSeverity ==
    ASSUME NEW s \in RuleState, CandidatesAgree(s), NEW t \in Nat \ {0}, NEW v \in Nat
    PROVE  SeverityCarried(s, Dispatch(s, t, v), v)
<1> DEFINE r == Dispatch(s, t, v)
<1>1. CASE ~InEvent(s)
  BY <1>1, OutsideEventSeverity
<1>2. CASE s.phase = "open"
  BY <1>2, ContinueOpenSeverity DEF Dispatch
<1>3. CASE s.phase = "recovering"
  <2> DEFINE reopened == ClearRecovery(WithPhase(s, "open"))
             longer == WithRecovery(s, ExtendCandidate(s.recovery))
  <2>1. reopened \in RuleState
    BY CandidateTypes, AssignmentTypes DEF ClearRecovery, Phase
  <2>2. reopened.phase = "open" /\ reopened.severity = s.severity
    BY DEF ClearRecovery, WithRecovery, WithPhase, RuleState
  <2>3. longer.severity = s.severity
    BY DEF WithRecovery, RuleState
  <2> HIDE DEF reopened, longer
  <2>4. \/ r = ContinueOpen(reopened, t, v)
        \/ r = Outcome(reopened, "none")
        \/ r \in {Outcome(longer, "close"), Outcome(longer, "none")}
    BY <1>3, RuleAssumption DEF Dispatch, ContinueRecovering, reopened, longer
  <2> HIDE DEF r
  <2>5. SeverityCarried(reopened, ContinueOpen(reopened, t, v), v)
    BY <2>1, <2>2, ContinueOpenSeverity
  <2> QED BY <1>3, <2>2, <2>3, <2>4, <2>5 DEF SeverityCarried, Outcome, InEvent, r
<1> QED BY <1>1, <1>2, <1>3 DEF InEvent
=============================================================================
