----------------------- MODULE AnomalyDetectorProofs -----------------------
(***************************************************************************)
(* What the decisions of AnomalyDetector mean in terms of the samples that *)
(* were seen, for every rule, every set of values and every bound on the   *)
(* sample times.                                                           *)
(*                                                                         *)
(* The engine keeps three candidates, each a time and a number.  The       *)
(* invariant relates them to the history: a pending candidate counts the   *)
(* trailing run of its severity and a recovery candidate that of the       *)
(* recovery band; the critical candidate of an open warning counts at      *)
(* least the trailing critical run; and the peak is that of the samples    *)
(* since the candidate, or the event, began.                               *)
(***************************************************************************)
EXTENDS AnomalyDetector, AnomalyRuleProofs, FiniteSetTheorems, TLAPS

----------------------------------------------------------------------------
(* Types, and the fields of the rule state among each other. *)

LEMMA InitTyped ==
    ASSUME Init
    PROVE  TypeOK /\ PhaseConsistent
<1>1. DefaultState \in RuleState /\ Consistent(DefaultState)
  BY CandidateTypes DEF DefaultState, RuleState, Phase, None, Consistent, CandidatesAgree,
     InEvent, NoCandidate
<1> QED BY <1>1 DEF Init, TypeOK, PhaseConsistent, NoEvaluation, None

LEMMA StepTyped ==
    ASSUME TypeOK, PhaseConsistent, [Next]_vars
    PROVE  TypeOK' /\ PhaseConsistent'
<1>1. ASSUME NEW t \in 1 .. MaxTime, NEW v \in Values, EvaluateSample(t, v)
      PROVE  TypeOK' /\ PhaseConsistent'
  <2> DEFINE e == Evaluate(st, t, v)
  <2>1. t \in Nat \ {0} /\ v \in Nat /\ events + 1 \in Nat \ {0}
    BY DetectorAssumption DEF TypeOK
  <2>2. /\ Attached(e, t) \in RuleState /\ Consistent(Attached(e, t))
        /\ e.transition \in Transition /\ e.event \in Nat
        /\ e.startedAt \in Nat /\ e.triggerSamples \in Nat
    BY <2>1, EvaluateGood DEF TypeOK, PhaseConsistent, Attached, RuleState
  <2> HIDE DEF e
  <2>3. st' \in RuleState /\ Consistent(st')
    BY <1>1, <2>2 DEF EvaluateSample, e
  <2>4. out' \in [transition : Transition \cup {"ignored"}, event : Nat,
                  startedAt : Nat, triggerSamples : Nat]
    BY <1>1, <2>2 DEF EvaluateSample, Decision, e
  <2>5. accepted' \subseteq Sample
    BY <1>1, <2>1 DEF EvaluateSample, TypeOK, Sample
  <2>6. events' \in Nat /\ opening' \in [at : Nat, startedAt : Nat]
    BY <1>1, <2>1, <2>2 DEF EvaluateSample, TypeOK, e
  <2> QED BY <2>3, <2>4, <2>5, <2>6 DEF TypeOK, PhaseConsistent
<1>2. ASSUME NEW t \in 1 .. MaxTime, IgnoreStaleSample(t)
      PROVE  TypeOK' /\ PhaseConsistent'
  BY <1>2 DEF IgnoreStaleSample, TypeOK, PhaseConsistent, NoEvaluation, None
<1>3. CASE UNCHANGED vars
  BY <1>3 DEF vars, TypeOK, PhaseConsistent
<1> QED BY <1>1, <1>2, <1>3 DEF Next

\* The fields have their types in every reachable state.
THEOREM TypeCorrect == Spec => []TypeOK
<1>1. TypeOK /\ PhaseConsistent /\ [Next]_vars => TypeOK' /\ PhaseConsistent'
  BY StepTyped
<1> QED BY InitTyped, <1>1, PTL DEF Spec

\* The fields of the rule state agree in every reachable state: no sequence of samples, gaps,
\* openings and closings leaves a candidate, a severity or an event id behind in a phase that
\* does not own it.
THEOREM FieldsAgree == Spec => []PhaseConsistent
<1>1. TypeOK /\ PhaseConsistent /\ [Next]_vars => TypeOK' /\ PhaseConsistent'
  BY StepTyped
<1> QED BY InitTyped, <1>1, PTL DEF Spec

----------------------------------------------------------------------------
(* The rule state and the history. *)

\* The samples are as old as the state says, and finitely many.
SamplesAgree ==
    /\ IsFiniteSet(accepted)
    /\ \A a \in accepted : a.at <= st.lastSample
    /\ st.lastSample # None => \E a \in accepted : a.at = st.lastSample
    /\ opening.at <= st.lastSample

\* A candidate is the length and the first time of a run of samples.
Counts(c, run) ==
    /\ IsFiniteSet(run)
    /\ run # {}
    /\ c.samples = Cardinality(run)
    /\ \E a \in run : a.at = c.since
    /\ \A a \in run : a.at >= c.since

\* A candidate that may be longer and older than the run.
Covers(c, run) ==
    /\ IsFiniteSet(run)
    /\ c # NoCandidate
    /\ c.samples >= Cardinality(run)
    /\ \A a \in run : a.at >= c.since

\* The candidates of s against the trailing runs of warning, critical and recovery samples.
RunsAgree(s, warning, critical, recovery) ==
    /\ ~InEvent(s) => /\ s.pendingSeverity # "warning" => warning = {}
                      /\ s.pendingSeverity # "critical" => critical = {}
    /\ s.pendingSeverity = "warning" => Counts(s.pending, warning)
    /\ s.pendingSeverity = "critical" => Counts(s.pending, critical)
    /\ s.phase = "open" => recovery = {}
    /\ s.phase = "recovering" => Counts(s.recovery, recovery)
    /\ s.severity = "warning" => critical = {} \/ Covers(s.critical, critical)

\* The peak of s is one of the samples, and no sample from `from` on exceeds it.
PeakOf(s, samples, from) ==
    /\ \E a \in samples : a.at = s.peakAt /\ a.value = s.peak
    /\ \A a \in samples : a.at >= from => a.value <= s.peak

PeaksAgree(s, samples, startedAt) ==
    /\ s.phase = "pending" => PeakOf(s, samples, s.pending.since)
    /\ InEvent(s) => PeakOf(s, samples, startedAt)

\* The last conjunct of OpenEventIsFaithful, of a candidate.
CriticalFaithful(c) ==
    LET since == {a \in accepted : a.at >= c.since}
    IN  /\ c.since > opening.at
        /\ \E a \in since : a.at = c.since /\ Band(a.value) = "critical"
        /\ \A a \in since : Band(a.value) # "warning"
        /\ \A a \in since : a.at > c.since => ~FollowsGap(a)
        /\ c.samples = Cardinality({a \in since : Band(a.value) = "critical"})

CriticalAgrees == st.critical # NoCandidate => CriticalFaithful(st.critical)

HistoryInv ==
    /\ TypeOK /\ PhaseConsistent
    /\ SamplesAgree
    /\ RunsAgree(st, Run({"warning"}), Run({"critical"}), Run({"recovery"}))
    /\ PeaksAgree(st, accepted, opening.startedAt)
    /\ CriticalAgrees

----------------------------------------------------------------------------
(* The trailing runs, one sample further. *)

\* The bands are those of the thresholds.
LEMMA Bands ==
    ASSUME NEW v \in Nat
    PROVE  /\ Band(v) = "recovery" <=> v <= RecoveryThreshold
           /\ Band(v) = "warning" <=> BreachedSeverity(v) = "warning"
           /\ Band(v) = "critical" <=> BreachedSeverity(v) = "critical"
           /\ Band(v) \in {"recovery", "between"} <=> BreachedSeverity(v) = "none"
           /\ Band(v) \in {"recovery", "between", "warning", "critical"}
BY RuleAssumption DEF Band, BreachedSeverity

\* A run: empty if the new sample is in none of its bands; the new sample alone after a gap;
\* and else one sample longer.
LongerRun(run, bands, n, gap) ==
    IF Band(n.value) \notin bands THEN {} ELSE IF gap THEN {n} ELSE run \cup {n}

\* Whether a sample follows a gap does not depend on later ones.
LEMMA GapStays ==
    ASSUME TypeOK, SamplesAgree, NEW n \in Sample, n.at > st.lastSample,
           accepted' = accepted \cup {n}
    PROVE  /\ \A a \in accepted : FollowsGap(a)' <=> FollowsGap(a)
           /\ st.lastSample # None => (FollowsGap(n)' <=> DataGap(st, n.at))
           /\ \A a \in accepted : a.at < n.at
           /\ n \notin accepted
           /\ st.lastSample = None => accepted = {}
<1>1. \A a \in accepted : a.at \in Nat \ {0} /\ a.at < n.at
  BY DEF TypeOK, SamplesAgree, Sample, RuleState
<1>2. st.lastSample \in Nat /\ n.at \in Nat \ {0}
  BY DEF TypeOK, Sample, RuleState
<1>3. \A a \in accepted : FollowsGap(a)' <=> FollowsGap(a)
  BY <1>1, <1>2 DEF FollowsGap
<1>4. n \notin accepted
  BY <1>1, <1>2
<1>5. st.lastSample = None => accepted = {}
  BY <1>1 DEF SamplesAgree, None
<1>6. ASSUME st.lastSample # None
      PROVE  FollowsGap(n)' <=> DataGap(st, n.at)
  <2>1. PICK l \in accepted : l.at = st.lastSample
    BY <1>6 DEF SamplesAgree
  <2>2. \A a \in accepted : a.at <= l.at
    BY <2>1 DEF SamplesAgree
  <2>3. FollowsGap(n)' <=> ~\E b \in accepted : n.at - b.at <= MaxSampleGap
    BY <1>1, <1>2 DEF FollowsGap
  <2>4. (\E b \in accepted : n.at - b.at <= MaxSampleGap) <=> n.at - l.at <= MaxSampleGap
    BY <1>1, <1>2, <2>1, <2>2, RuleAssumption
  <2> QED BY <1>1, <1>2, <1>6, <2>1, <2>3, <2>4, RuleAssumption DEF DataGap
<1> QED BY <1>1, <1>3, <1>4, <1>5, <1>6

LEMMA RunStep ==
    ASSUME TypeOK, SamplesAgree, NEW n \in Sample, n.at > st.lastSample,
           accepted' = accepted \cup {n}, NEW bands
    PROVE  Run(bands)' = LongerRun(Run(bands), bands, n, DataGap(st, n.at))
<1>1. /\ n.at \in Nat /\ st.lastSample \in Nat
      /\ \A a \in accepted : a.at \in Nat /\ a.at < n.at /\ (FollowsGap(a)' <=> FollowsGap(a))
  BY GapStays DEF TypeOK, Sample, RuleState
<1>2. CASE Band(n.value) \notin bands
  BY <1>1, <1>2 DEF Run, LongerRun
<1>3. ASSUME Band(n.value) \in bands
      PROVE  n \in Run(bands)'
  BY <1>1, <1>3 DEF Run
<1>4. CASE Band(n.value) \in bands /\ st.lastSample = None
  <2>1. accepted = {}
    BY <1>4, GapStays
  <2>2. Run(bands) = {} /\ Run(bands)' \subseteq {n}
    BY <2>1 DEF Run
  <2> QED BY <1>3, <1>4, <2>2 DEF LongerRun, DataGap
<1>5. CASE Band(n.value) \in bands /\ st.lastSample # None
  <2>1. FollowsGap(n)' <=> DataGap(st, n.at)
    BY <1>5, GapStays
  <2>2. ASSUME NEW a \in accepted
        PROVE  a \in Run(bands)' <=> a \in Run(bands) /\ ~DataGap(st, n.at)
    <3>1. a \in Run(bands)' <=>
             \A b \in accepted \cup {n} :
                b.at >= a.at => /\ Band(b.value) \in bands
                                /\ b.at > a.at => ~FollowsGap(b)'
      BY <2>2 DEF Run
    <3>2. a \in Run(bands) <=>
             \A b \in accepted :
                b.at >= a.at => /\ Band(b.value) \in bands
                                /\ b.at > a.at => ~FollowsGap(b)
      BY <2>2 DEF Run
    <3>3. n.at > a.at /\ n.at >= a.at
      BY <1>1
    <3> QED BY <1>1, <1>5, <2>1, <3>1, <3>2, <3>3
  <2>3. Run(bands) \subseteq accepted /\ Run(bands)' \subseteq accepted \cup {n}
    BY DEF Run
  <2> QED BY <1>3, <1>5, <2>2, <2>3 DEF LongerRun
<1> QED BY <1>2, <1>4, <1>5

\* A run is a finite set of samples no later than the last one.
LEMMA RunTypes ==
    ASSUME TypeOK, SamplesAgree, NEW bands
    PROVE  /\ IsFiniteSet(Run(bands))
           /\ Run(bands) \subseteq accepted
           /\ Run(bands) \subseteq Sample
           /\ \A a \in Run(bands) : a.at <= st.lastSample
<1>1. Run(bands) \subseteq accepted
  BY DEF Run
<1> QED BY <1>1, FS_Subset DEF SamplesAgree, TypeOK

----------------------------------------------------------------------------
(* Candidates. *)

LEMMA CountsNew ==
    ASSUME NEW n \in Sample
    PROVE  Counts(NewCandidate(n.at), {n})
<1>1. IsFiniteSet({n}) /\ Cardinality({n}) = 1
  BY FS_Singleton
<1>2. NewCandidate(n.at).since = n.at /\ NewCandidate(n.at).samples = 1 /\ n.at \in Nat
  BY DEF NewCandidate, Sample
<1> QED BY <1>1, <1>2 DEF Counts

LEMMA CountsMore ==
    ASSUME NEW n \in Sample, NEW c \in CandidateState, NEW run \in SUBSET Sample,
           Counts(c, run), \A a \in run : a.at < n.at
    PROVE  Counts(ExtendCandidate(c), run \cup {n})
<1>1. n \notin run /\ n.at \in Nat
  BY DEF Sample
<1>2. IsFiniteSet(run \cup {n}) /\ Cardinality(run \cup {n}) = Cardinality(run) + 1
  BY <1>1, FS_AddElement DEF Counts
<1>3. ExtendCandidate(c).since = c.since /\ ExtendCandidate(c).samples = c.samples + 1
  BY DEF ExtendCandidate, CandidateState
<1>4. \A a \in run : a.at \in Nat
  BY DEF Sample
<1> QED BY <1>1, <1>2, <1>3, <1>4 DEF Counts, CandidateState

LEMMA CoversNew ==
    ASSUME NEW n \in Sample
    PROVE  Covers(NewCandidate(n.at), {n})
<1>1. IsFiniteSet({n}) /\ Cardinality({n}) = 1
  BY FS_Singleton
<1>2. NewCandidate(n.at).since = n.at /\ NewCandidate(n.at).samples = 1 /\ n.at \in Nat
  BY DEF NewCandidate, Sample
<1>3. NewCandidate(n.at) # NoCandidate
  BY DEF NewCandidate, NoCandidate
<1> QED BY <1>1, <1>2, <1>3 DEF Covers

LEMMA CoversMore ==
    ASSUME NEW n \in Sample, NEW c \in CandidateState, NEW run \in SUBSET Sample,
           Covers(c, run), c.since <= n.at, \A a \in run : a.at < n.at
    PROVE  Covers(ExtendCandidate(c), run \cup {n})
<1>1. n \notin run /\ n.at \in Nat
  BY DEF Sample
<1>2. IsFiniteSet(run \cup {n}) /\ Cardinality(run \cup {n}) = Cardinality(run) + 1
  BY <1>1, FS_AddElement DEF Covers
<1>3. Cardinality(run) \in Nat
  BY FS_CardinalityType DEF Covers
<1>4. ExtendCandidate(c).since = c.since /\ ExtendCandidate(c).samples = c.samples + 1
  BY DEF ExtendCandidate, CandidateState
<1>5. ExtendCandidate(c) # NoCandidate
  BY <1>4 DEF CandidateState, NoCandidate
<1> QED BY <1>1, <1>2, <1>3, <1>4, <1>5 DEF Covers, CandidateState

\* The run is long enough at time t.
LongAt(run, duration, minSamples, t) ==
    Cardinality(run) >= minSamples /\ \E a \in run : t - a.at >= duration

\* A candidate that counts a run matures exactly when the run is long enough; one that covers
\* it, no later than that.
LEMMA MaturedIsLong ==
    ASSUME NEW c \in CandidateState, NEW run \in SUBSET Sample, Counts(c, run),
           NEW d \in Nat, NEW m \in Nat, NEW t \in Nat
    PROVE  Matured(c, d, m, t) <=> LongAt(run, d, m, t)
<1>1. Cardinality(run) \in Nat \ {0}
  BY FS_CardinalityType, FS_EmptySet DEF Counts
<1>2. c # NoCandidate
  BY <1>1 DEF Counts, NoCandidate
<1>3. (\E a \in run : t - a.at >= d) <=> t - c.since >= d
  BY DEF Counts, CandidateState, Sample
<1> QED BY <1>2, <1>3 DEF Matured, LongAt, Counts

LEMMA LongIsMatured ==
    ASSUME NEW c \in CandidateState, NEW run \in SUBSET Sample, Covers(c, run),
           NEW d \in Nat, NEW m \in Nat, NEW t \in Nat, LongAt(run, d, m, t)
    PROVE  Matured(c, d, m, t)
<1>1. Cardinality(run) \in Nat
  BY FS_CardinalityType DEF Covers
<1>2. PICK a \in run : t - a.at >= d
  BY DEF LongAt
<1>3. t - c.since >= d
  BY <1>2 DEF Covers, CandidateState, Sample
<1> QED BY <1>1, <1>3 DEF Matured, LongAt, Covers, CandidateState

----------------------------------------------------------------------------
(* The candidates agree with the runs through each step of an evaluation. *)

LEMMA RunsAgreeSame ==
    ASSUME NEW s, NEW r, SameCandidates(r, s), NEW W, NEW C, NEW R, RunsAgree(s, W, C, R)
    PROVE  RunsAgree(r, W, C, R)
BY DEF SameCandidates, RunsAgree, InEvent

\* A gap ends the runs, and the candidates with them.
LEMMA RunsAfterGap ==
    ASSUME NEW s \in RuleState, Consistent(s), NEW t \in Nat, NEW W, NEW C, NEW R,
           RunsAgree(s, W, C, R)
    PROVE  /\ DataGap(s, t) => /\ RunsAgree(AfterGap(s, t), {}, {}, {})
                               /\ AfterGap(s, t).critical = NoCandidate
           /\ ~DataGap(s, t) => AfterGap(s, t) = s
           /\ InEvent(AfterGap(s, t)) <=> InEvent(s)
<1>1. ~DataGap(s, t) => AfterGap(s, t) = s
  BY DEF AfterGap
<1>2. CASE DataGap(s, t) /\ s.phase = "normal"
  <2>1. AfterGap(s, t) = s /\ s.critical = NoCandidate
    BY <1>2, CriticalInWarning DEF AfterGap, Consistent, InEvent
  <2>2. s.pendingSeverity = "none" /\ s.severity = "none"
    BY <1>2 DEF Consistent, CandidatesAgree, InEvent
  <2> QED BY <1>2, <2>1, <2>2 DEF RunsAgree
<1>3. CASE DataGap(s, t) /\ s.phase = "pending"
  <2>1. AfterGap(s, t) = ResetToNormal(s)
    BY <1>3 DEF AfterGap
  <2>2. /\ ResetToNormal(s).phase = "normal" /\ ResetToNormal(s).severity = "none"
        /\ ResetToNormal(s).pendingSeverity = "none"
        /\ ResetToNormal(s).critical = NoCandidate
    BY DEF ResetToNormal, DefaultState
  <2> QED BY <1>3, <2>1, <2>2 DEF RunsAgree, InEvent
<1>4. CASE DataGap(s, t) /\ s.phase \in {"open", "recovering"}
  <2> DEFINE g == CountGap(WithPhase(ClearRecovery(ClearCritical(s)), "open"))
  <2>1. AfterGap(s, t) = g
    BY <1>4 DEF AfterGap
  <2>2. /\ g.phase = "open" /\ g.severity = s.severity
        /\ g.pendingSeverity = s.pendingSeverity /\ g.critical = NoCandidate
    BY DEF CountGap, WithPhase, ClearRecovery, ClearCritical, WithRecovery, WithCritical,
       RuleState
  <2>3. s.pendingSeverity = "none"
    BY <1>4 DEF Consistent, CandidatesAgree
  <2> QED BY <1>4, <2>1, <2>2, <2>3 DEF RunsAgree, InEvent
<1> QED BY <1>1, <1>2, <1>3, <1>4 DEF RuleState, Phase

\* The run of one band with the new sample n, after a gap if there was one.
Grown(run, band, n) == IF Band(n.value) = band THEN run \cup {n} ELSE {}

\* The run that a severity's candidate has to sustain, and for how long.
LongBreach(severity, W, C, t) ==
    \/ severity = "warning" /\ LongAt(W, TriggerTime, MinSamples, t)
    \/ severity = "critical" /\ LongAt(C, CriticalTriggerTime, CriticalMinSamples, t)

LEMMA OpenIfMaturedRuns ==
    ASSUME NEW p \in RuleState, CandidatesAgree(p), p.phase = "pending", NEW t \in Nat,
           NEW W \in SUBSET Sample, NEW C \in SUBSET Sample,
           p.pendingSeverity = "warning" => Counts(p.pending, W) /\ C = {},
           p.pendingSeverity = "critical" => Counts(p.pending, C) /\ W = {}
    PROVE  LET r == OpenIfMatured(p, t)
           IN  /\ RunsAgree(r.state, W, C, {})
               /\ r.transition = "open" <=> LongBreach(p.pendingSeverity, W, C, t)
               /\ r.transition = "open" => r.state.severity = p.pendingSeverity
               /\ r.transition # "close"
<1> DEFINE o == ClearPending(WithSeverity(WithPhase(p, "open"), p.pendingSeverity))
<1>1. p.pendingSeverity \in Severity /\ p.severity = "none" /\ p.pending \in CandidateState
  BY DEF CandidatesAgree, RuleState, InEvent
<1>2. o.phase = "open" /\ o.severity = p.pendingSeverity /\ o.pendingSeverity = "none"
  BY DEF ClearPending, WithPending, WithPendingSeverity, WithSeverity, WithPhase, RuleState
<1>3. RunsAgree(o, W, C, {})
  BY <1>1, <1>2 DEF RunsAgree, InEvent
<1>4. RunsAgree(p, W, C, {})
  BY <1>1 DEF RunsAgree, InEvent, Severity
<1>5. CandidateMatured(p, t) <=> LongBreach(p.pendingSeverity, W, C, t)
  <2>1. CASE p.pendingSeverity = "warning"
    <3>1. Matured(p.pending, TriggerTime, MinSamples, t)
            <=> LongAt(W, TriggerTime, MinSamples, t)
      BY <1>1, <2>1, MaturedIsLong, RuleAssumption
    <3> QED BY <2>1, <3>1 DEF CandidateMatured, LongBreach
  <2>2. CASE p.pendingSeverity = "critical"
    <3>1. Matured(p.pending, CriticalTriggerTime, CriticalMinSamples, t)
            <=> LongAt(C, CriticalTriggerTime, CriticalMinSamples, t)
      BY <1>1, <2>2, MaturedIsLong, RuleAssumption
    <3> QED BY <2>2, <3>1 DEF CandidateMatured, LongBreach
  <2> QED BY <1>1, <2>1, <2>2 DEF Severity
<1> HIDE DEF o
<1>6. CASE CandidateMatured(p, t)
  <2>1. OpenIfMatured(p, t).state = o /\ OpenIfMatured(p, t).transition = "open"
    BY <1>6 DEF OpenIfMatured, Outcome, o
  <2> QED BY <1>2, <1>3, <1>5, <1>6, <2>1
<1>7. CASE ~CandidateMatured(p, t)
  <2>1. OpenIfMatured(p, t).state = p /\ OpenIfMatured(p, t).transition = "none"
    BY <1>7 DEF OpenIfMatured, Outcome
  <2> QED BY <1>4, <1>5, <1>7, <2>1
<1> QED BY <1>6, <1>7

\* What an evaluation that goes from s to the outcome r decides, when the runs with the new
\* sample are W, C and R.
Decided(s, r, W, C, R, t, v) ==
    /\ r.transition # "close" => RunsAgree(r.state, W, C, R)
    /\ r.transition = "close" => W = {} /\ C = {}
    /\ ~InEvent(s) => /\ r.transition = "open" <=> LongBreach(BreachedSeverity(v), W, C, t)
                      /\ r.transition = "open" => r.state.severity = BreachedSeverity(v)
    /\ InEvent(s) =>
          /\ r.transition = "close" <=>
                LongAt(R, RecoveryTime, RecoveryMinSamples, t) /\ Cardinality(R) >= 2
          /\ LongAt(C, CriticalTriggerTime, CriticalMinSamples, t) =>
                r.state.severity = "critical"

\* A state that meets the new sample n, with the runs before it.
Meets(s, n, W, C, R) ==
    /\ s \in RuleState /\ CandidatesAgree(s)
    /\ n \in Sample
    /\ W \in SUBSET Sample /\ C \in SUBSET Sample /\ R \in SUBSET Sample
    /\ \A a \in W \cup C \cup R : a.at < n.at
    /\ s.critical.since < n.at
    /\ RunsAgree(s, W, C, R)

\* What its phase's operator has to decide.
DecidesFor(s, r, n, W, C, R) ==
    Decided(s, r, Grown(W, "warning", n), Grown(C, "critical", n), Grown(R, "recovery", n),
            n.at, n.value)

LEMMA GrownTypes ==
    ASSUME NEW s, NEW n, NEW W, NEW C, NEW R, Meets(s, n, W, C, R), NEW band
    PROVE  /\ Grown(W, band, n) \in SUBSET Sample
           /\ Grown(C, band, n) \in SUBSET Sample
           /\ Grown(R, band, n) \in SUBSET Sample
           /\ n.at \in Nat \ {0} /\ n.value \in Nat
BY DEF Grown, Meets, Sample

LEMMA NeverLong ==
    ASSUME NEW d, NEW m, NEW t
    PROVE  ~LongAt({}, d, m, t)
BY DEF LongAt

\* A breach outside an event: the pending state p counts the run of its severity.
LEMMA PendingRuns ==
    ASSUME NEW s, NEW n, NEW W, NEW C, NEW R, Meets(s, n, W, C, R), ~InEvent(s),
           NEW p \in RuleState, CandidatesAgree(p), p.phase = "pending",
           BreachedSeverity(n.value) # "none",
           p.pendingSeverity = BreachedSeverity(n.value),
           p.pendingSeverity = "warning" => Counts(p.pending, Grown(W, "warning", n)),
           p.pendingSeverity = "critical" => Counts(p.pending, Grown(C, "critical", n))
    PROVE  DecidesFor(s, OpenIfMatured(p, n.at), n, W, C, R)
<1> DEFINE W2 == Grown(W, "warning", n)
           C2 == Grown(C, "critical", n)
           R2 == Grown(R, "recovery", n)
           r == OpenIfMatured(p, n.at)
<1>1. n.at \in Nat /\ n.value \in Nat /\ W2 \in SUBSET Sample /\ C2 \in SUBSET Sample
  BY GrownTypes
<1>2. /\ p.pendingSeverity = "warning" => C2 = {}
      /\ p.pendingSeverity = "critical" => W2 = {}
      /\ R2 = {}
  BY <1>1, Bands DEF Grown
<1>3. /\ p.pendingSeverity = "warning" => Counts(p.pending, W2) /\ C2 = {}
      /\ p.pendingSeverity = "critical" => Counts(p.pending, C2) /\ W2 = {}
  BY <1>2
<1> HIDE DEF W2, C2, R2
<1>4. /\ RunsAgree(r.state, W2, C2, {})
      /\ r.transition = "open" <=> LongBreach(p.pendingSeverity, W2, C2, n.at)
      /\ r.transition = "open" => r.state.severity = p.pendingSeverity
      /\ r.transition # "close"
  BY <1>1, <1>3, OpenIfMaturedRuns
<1> HIDE DEF r
<1> QED BY <1>2, <1>4 DEF DecidesFor, Decided, W2, C2, R2, r

\* Pend starts a candidate with the new sample.
LEMMA PendRuns ==
    ASSUME NEW s, NEW n, NEW W, NEW C, NEW R, Meets(s, n, W, C, R), ~InEvent(s),
           BreachedSeverity(n.value) # "none",
           BreachedSeverity(n.value) # s.pendingSeverity,
           NEW p, SameCandidates(p, Pend(s, BreachedSeverity(n.value), n.at))
    PROVE  /\ p.pendingSeverity = BreachedSeverity(n.value)
           /\ p.pendingSeverity = "warning" => Counts(p.pending, Grown(W, "warning", n))
           /\ p.pendingSeverity = "critical" => Counts(p.pending, Grown(C, "critical", n))
<1> DEFINE x == BreachedSeverity(n.value)
<1>1. n.at \in Nat /\ n.value \in Nat /\ x \in Severity /\ s \in RuleState /\ n \in Sample
  BY GrownTypes DEF BreachedSeverity, Severity, Meets
<1>2. p.pendingSeverity = x /\ p.pending = NewCandidate(n.at)
  BY <1>1 DEF SameCandidates, Pend, WithPending, WithPendingSeverity, WithPhase, RuleState
<1>3. Counts(p.pending, {n})
  BY <1>1, <1>2, CountsNew
<1>4. /\ x = "warning" => Grown(W, "warning", n) = {n}
      /\ x = "critical" => Grown(C, "critical", n) = {n}
  BY <1>1, Bands DEF Meets, RunsAgree, Grown
<1> QED BY <1>2, <1>3, <1>4

LEMMA BeginPendingRuns ==
    ASSUME NEW s, NEW n, NEW W, NEW C, NEW R, Meets(s, n, W, C, R), s.phase = "normal"
    PROVE  DecidesFor(s, BeginPendingOrStayNormal(s, n.at, n.value), n, W, C, R)
<1> DEFINE x == BreachedSeverity(n.value)
           r == BeginPendingOrStayNormal(s, n.at, n.value)
<1>1. /\ n.at \in Nat \ {0} /\ n.value \in Nat /\ s \in RuleState /\ CandidatesAgree(s)
      /\ ~InEvent(s) /\ s.severity = "none" /\ s.pendingSeverity = "none"
  BY GrownTypes DEF Meets, CandidatesAgree, InEvent
<1>2. CASE x = "none"
  <2>1. r.state = s /\ r.transition = "none"
    BY <1>2 DEF BeginPendingOrStayNormal, Outcome
  <2>2. Grown(W, "warning", n) = {} /\ Grown(C, "critical", n) = {}
    BY <1>1, <1>2, Bands DEF Grown
  <2>3. RunsAgree(s, {}, {}, Grown(R, "recovery", n))
    BY <1>1 DEF RunsAgree
  <2> HIDE DEF r
  <2> QED BY <1>1, <1>2, <2>1, <2>2, <2>3 DEF DecidesFor, Decided, LongBreach, r
<1>3. CASE x # "none"
  <2> DEFINE p == Pend(s, x, n.at)
             q == WithPeak(p, n.at, n.value)
  <2>1. x \in Severity
    BY <1>3 DEF BreachedSeverity, Severity
  <2>2. p \in RuleState /\ p.phase = "pending" /\ CandidatesAgree(p)
    BY <1>1, <2>1, PendTypes
  <2> HIDE DEF p
  <2>3. q \in RuleState
    BY <1>1, <2>2, PeakType
  <2>4. SameCandidates(q, p) /\ q.phase = "pending" /\ CandidatesAgree(q)
    BY <2>2 DEF WithPeak, CandidatesAgree, InEvent, RuleState, SameCandidates
  <2>5. r = OpenIfMatured(q, n.at)
    BY <1>3 DEF BeginPendingOrStayNormal, p
  <2> HIDE DEF q
  <2>6. SameCandidates(q, Pend(s, BreachedSeverity(n.value), n.at))
    BY <2>4 DEF p
  <2>7. /\ q.pendingSeverity = BreachedSeverity(n.value)
        /\ q.pendingSeverity = "warning" => Counts(q.pending, Grown(W, "warning", n))
        /\ q.pendingSeverity = "critical" => Counts(q.pending, Grown(C, "critical", n))
    BY <1>1, <1>3, <2>6, PendRuns
  <2> QED BY <1>1, <1>3, <2>3, <2>4, <2>5, <2>7, PendingRuns
<1> QED BY <1>2, <1>3

LEMMA ContinuePendingRuns ==
    ASSUME NEW s, NEW n, NEW W, NEW C, NEW R, Meets(s, n, W, C, R), s.phase = "pending"
    PROVE  DecidesFor(s, ContinuePending(s, n.at, n.value), n, W, C, R)
<1> DEFINE x == BreachedSeverity(n.value)
           r == ContinuePending(s, n.at, n.value)
<1>1. /\ n.at \in Nat \ {0} /\ n.value \in Nat /\ s \in RuleState /\ CandidatesAgree(s)
      /\ ~InEvent(s)
  BY GrownTypes DEF Meets, InEvent
<1>2. CASE x = "none"
  <2>1. r.state = ResetToNormal(s) /\ r.transition = "none"
    BY <1>2 DEF ContinuePending, Outcome
  <2>2. Grown(W, "warning", n) = {} /\ Grown(C, "critical", n) = {}
    BY <1>1, <1>2, Bands DEF Grown
  <2>3. RunsAgree(ResetToNormal(s), {}, {}, Grown(R, "recovery", n))
    BY DEF RunsAgree, ResetToNormal, DefaultState
  <2> HIDE DEF r
  <2> QED BY <1>1, <1>2, <2>1, <2>2, <2>3 DEF DecidesFor, Decided, LongBreach, r
<1>3. CASE x # "none" /\ x # s.pendingSeverity
  <2> DEFINE p == Pend(s, x, n.at)
  <2>1. x \in Severity
    BY <1>3 DEF BreachedSeverity, Severity
  <2>2. p \in RuleState /\ p.phase = "pending" /\ CandidatesAgree(p)
    BY <1>1, <2>1, PendTypes
  <2>3. r = OpenIfMatured(p, n.at) /\ SameCandidates(p, Pend(s, BreachedSeverity(n.value), n.at))
    BY <1>3 DEF ContinuePending, SameCandidates
  <2> HIDE DEF p
  <2>4. /\ p.pendingSeverity = BreachedSeverity(n.value)
        /\ p.pendingSeverity = "warning" => Counts(p.pending, Grown(W, "warning", n))
        /\ p.pendingSeverity = "critical" => Counts(p.pending, Grown(C, "critical", n))
    BY <1>1, <1>3, <2>3, PendRuns
  <2> QED BY <1>1, <1>3, <2>2, <2>3, <2>4, PendingRuns
<1>4. CASE x # "none" /\ x = s.pendingSeverity
  <2> DEFINE q == WithPending(s, ExtendCandidate(s.pending))
  <2>1. q \in RuleState
    BY <1>1, CandidateTypes, AssignmentTypes DEF RuleState
  <2>2. /\ q.phase = "pending" /\ CandidatesAgree(q)
        /\ q.pendingSeverity = x /\ q.pending = ExtendCandidate(s.pending)
    BY <1>1, <1>4 DEF WithPending, ExtendCandidate, CandidatesAgree, InEvent, RuleState,
       CandidateState, None
  <2>3. r = OpenIfMatured(q, n.at)
    BY <1>4 DEF ContinuePending
  <2> HIDE DEF q
  <2>4. ASSUME x = "warning"
        PROVE  Counts(q.pending, Grown(W, "warning", n))
    <3>1. Grown(W, "warning", n) = W \cup {n}
      BY <1>1, <2>4, Bands DEF Grown
    <3>2. s.pending \in CandidateState /\ Counts(s.pending, W)
      BY <1>1, <1>4, <2>4 DEF Meets, RunsAgree, RuleState
    <3> QED BY <2>2, <3>1, <3>2, CountsMore DEF Meets
  <2>5. ASSUME x = "critical"
        PROVE  Counts(q.pending, Grown(C, "critical", n))
    <3>1. Grown(C, "critical", n) = C \cup {n}
      BY <1>1, <2>5, Bands DEF Grown
    <3>2. s.pending \in CandidateState /\ Counts(s.pending, C)
      BY <1>1, <1>4, <2>5 DEF Meets, RunsAgree, RuleState
    <3> QED BY <2>2, <3>1, <3>2, CountsMore DEF Meets
  <2> QED BY <1>1, <1>4, <2>1, <2>2, <2>3, <2>4, <2>5, PendingRuns
<1> QED BY <1>2, <1>3, <1>4

\* The critical candidate of an open warning covers the critical run, one sample further.
LEMMA NextCriticalCovers ==
    ASSUME NEW s, NEW n, NEW W, NEW C, NEW R, Meets(s, n, W, C, R), s.severity = "warning"
    PROVE  /\ NextCritical(s, n.at) \in CandidateState
           /\ Covers(NextCritical(s, n.at), C \cup {n})
<1>1. /\ s.critical \in CandidateState /\ n \in Sample /\ n.at \in Nat
      /\ s.critical.since \in Nat /\ s.critical.since < n.at /\ C \in SUBSET Sample
      /\ \A a \in C : a.at < n.at
      /\ C = {} \/ Covers(s.critical, C)
  BY DEF Meets, RunsAgree, RuleState, CandidateState, Sample
<1>2. CASE s.critical = NoCandidate
  <2>1. C = {}
    BY <1>1, <1>2 DEF Covers
  <2>2. NextCritical(s, n.at) = NewCandidate(n.at)
    BY <1>2 DEF NextCritical
  <2> QED BY <1>1, <2>1, <2>2, CoversNew, CandidateTypes
<1>3. CASE s.critical # NoCandidate
  <2>1. NextCritical(s, n.at) = ExtendCandidate(s.critical)
    BY <1>3 DEF NextCritical
  <2>2. C = {} => Covers(s.critical, C)
    BY <1>1, <1>3, FS_EmptySet DEF Covers, CandidateState
  <2>3. Covers(s.critical, C)
    BY <1>1, <2>2
  <2>4. Covers(ExtendCandidate(s.critical), C \cup {n})
    BY <1>1, <2>3, CoversMore
  <2> QED BY <1>1, <2>1, <2>4, CandidateTypes
<1> QED BY <1>2, <1>3

LEMMA ContinueOpenRuns ==
    ASSUME NEW s, NEW n, NEW W, NEW C, NEW R, Meets(s, n, W, C, R), s.phase = "open"
    PROVE  DecidesFor(s, ContinueOpen(s, n.at, n.value), n, W, C, R)
<1> DEFINE W2 == Grown(W, "warning", n)
           C2 == Grown(C, "critical", n)
           R2 == Grown(R, "recovery", n)
           r == ContinueOpen(s, n.at, n.value)
           quiet == ClearRecovery(s)
<1>1. /\ n.at \in Nat \ {0} /\ n.value \in Nat /\ s \in RuleState /\ n \in Sample
      /\ InEvent(s) /\ s.severity \in Severity /\ s.pendingSeverity = "none"
  BY GrownTypes DEF Meets, InEvent, CandidatesAgree, RuleState
<1>2. R = {}
  BY DEF Meets, RunsAgree
<1>3. /\ quiet \in RuleState /\ quiet.phase = "open" /\ quiet.severity = s.severity
      /\ quiet.pendingSeverity = "none"
  BY <1>1, CandidateTypes, AssignmentTypes DEF ClearRecovery, WithRecovery, RuleState
<1> HIDE DEF quiet
<1>4. CASE n.value <= RecoveryThreshold
  <2> DEFINE q == WithRecovery(WithPhase(s, "recovering"), NewCandidate(n.at))
  <2>1. r.state = q /\ r.transition = "none"
    BY <1>4 DEF ContinueOpen, Outcome
  <2>2. /\ q.phase = "recovering" /\ q.recovery = NewCandidate(n.at)
        /\ q.pendingSeverity = "none" /\ q.severity = s.severity
    BY <1>1 DEF WithRecovery, WithPhase, RuleState
  <2>3. R2 = {n} /\ W2 = {} /\ C2 = {}
    BY <1>1, <1>2, <1>4, Bands DEF Grown
  <2>4. Counts(q.recovery, R2)
    BY <1>1, <2>2, <2>3, CountsNew
  <2>5. ~(Cardinality(R2) >= 2)
    <3>1. Cardinality({n}) = 1
      BY FS_Singleton
    <3> QED BY <2>3, <3>1
  <2> HIDE DEF q, r, W2, C2, R2
  <2>6. RunsAgree(q, W2, C2, R2)
    BY <2>2, <2>3, <2>4 DEF RunsAgree, InEvent
  <2>7. Decided(s, r, W2, C2, R2, n.at, n.value)
    BY <1>1, <2>1, <2>3, <2>5, <2>6, NeverLong DEF Decided
  <2> QED BY <2>7 DEF DecidesFor, r, W2, C2, R2
<1>5. CASE n.value > RecoveryThreshold /\ (s.severity # "warning" \/ n.value < CriticalThreshold)
  <2> DEFINE q == ClearCritical(quiet)
  <2>1. r.state = q /\ r.transition = "none"
    BY <1>1, <1>5, RuleAssumption DEF ContinueOpen, Outcome, quiet
  <2>2. q.phase = "open" /\ q.pendingSeverity = "none" /\ q.severity = s.severity
    BY <1>3 DEF ClearCritical, WithCritical, RuleState
  <2>3. R2 = {} /\ (s.severity = "warning" => C2 = {})
    BY <1>1, <1>5, Bands, RuleAssumption DEF Grown, Band
  <2> HIDE DEF q, r, W2, C2, R2
  <2>4. RunsAgree(q, W2, C2, R2)
    BY <2>2, <2>3 DEF RunsAgree, InEvent
  <2>5. Decided(s, r, W2, C2, R2, n.at, n.value)
    BY <1>1, <2>1, <2>2, <2>3, <2>4, NeverLong DEF Decided, Severity
  <2> QED BY <2>5 DEF DecidesFor, r, W2, C2, R2
<1>6. CASE n.value > RecoveryThreshold /\ s.severity = "warning" /\ n.value >= CriticalThreshold
  <2> DEFINE c == NextCritical(s, n.at)
             e == ClearCritical(WithSeverity(quiet, "critical"))
             w == WithCritical(quiet, c)
  <2>1. C2 = C \cup {n} /\ W2 = {} /\ R2 = {} /\ C2 \in SUBSET Sample
    BY <1>1, <1>6, Bands, RuleAssumption, GrownTypes DEF Grown, Band
  <2>2. c \in CandidateState /\ Covers(c, C2)
    <3>1. c \in CandidateState /\ Covers(c, C \cup {n})
      BY <1>6, NextCriticalCovers
    <3> HIDE DEF c, C2, W2, R2, e, w, r
    <3> QED BY <2>1, <3>1
  <2>3. /\ e.phase = "open" /\ e.pendingSeverity = "none" /\ e.severity = "critical"
        /\ w.phase = "open" /\ w.pendingSeverity = "none" /\ w.severity = "warning"
        /\ w.critical = c
    BY <1>3, <1>6 DEF ClearCritical, WithCritical, WithSeverity, RuleState
  <2>4. Matured(c, CriticalTriggerTime, CriticalMinSamples, n.at)
           => r.state = e /\ r.transition = "escalate"
    BY <1>1, <1>6, RuleAssumption DEF ContinueOpen, Outcome, quiet
  <2>5. ~Matured(c, CriticalTriggerTime, CriticalMinSamples, n.at)
           => r.state = w /\ r.transition = "none"
    BY <1>1, <1>6, RuleAssumption DEF ContinueOpen, Outcome, quiet
  <2> HIDE DEF r, e, w, c, W2, C2, R2
  <2>6. LongAt(C2, CriticalTriggerTime, CriticalMinSamples, n.at)
           => Matured(c, CriticalTriggerTime, CriticalMinSamples, n.at)
    BY <1>1, <2>1, <2>2, LongIsMatured, RuleAssumption
  <2>7. RunsAgree(e, W2, C2, R2) /\ RunsAgree(w, W2, C2, R2)
    BY <2>1, <2>2, <2>3 DEF RunsAgree, InEvent
  <2>8. Decided(s, r, W2, C2, R2, n.at, n.value)
    BY <1>1, <2>1, <2>3, <2>4, <2>5, <2>6, <2>7, NeverLong DEF Decided
  <2> QED BY <2>8 DEF DecidesFor, r, W2, C2, R2
<1> QED BY <1>1, <1>4, <1>5, <1>6, RuleAssumption

LEMMA ContinueRecoveringRuns ==
    ASSUME NEW s, NEW n, NEW W, NEW C, NEW R, Meets(s, n, W, C, R), s.phase = "recovering"
    PROVE  DecidesFor(s, ContinueRecovering(s, n.at, n.value), n, W, C, R)
<1> DEFINE W2 == Grown(W, "warning", n)
           C2 == Grown(C, "critical", n)
           R2 == Grown(R, "recovery", n)
           r == ContinueRecovering(s, n.at, n.value)
           reopened == ClearRecovery(WithPhase(s, "open"))
           longer == WithRecovery(s, ExtendCandidate(s.recovery))
<1>1. /\ n.at \in Nat \ {0} /\ n.value \in Nat /\ s \in RuleState /\ n \in Sample
      /\ InEvent(s) /\ s.severity \in Severity /\ s.pendingSeverity = "none"
      /\ s.recovery \in CandidateState /\ Counts(s.recovery, R) /\ R \in SUBSET Sample
      /\ \A a \in R : a.at < n.at
      /\ CandidatesAgree(s)
  BY GrownTypes DEF Meets, InEvent, CandidatesAgree, RuleState, RunsAgree
<1>2. /\ reopened \in RuleState /\ reopened.phase = "open" /\ reopened.severity = s.severity
      /\ reopened.pendingSeverity = "none" /\ reopened.critical = s.critical
      /\ CandidatesAgree(reopened)
  <2>1. reopened \in RuleState
    BY <1>1, CandidateTypes, AssignmentTypes DEF ClearRecovery, Phase
  <2>2. /\ reopened.phase = "open" /\ reopened.severity = s.severity
        /\ reopened.pendingSeverity = "none" /\ reopened.critical = s.critical
    BY <1>1 DEF ClearRecovery, WithRecovery, WithPhase, RuleState
  <2>3. CandidatesAgree(reopened)
    BY <1>1 DEF CandidatesAgree, ClearRecovery, WithRecovery, WithPhase, NoCandidate, None,
       InEvent, RuleState
  <2> QED BY <2>1, <2>2, <2>3
<1>3. /\ longer.phase = "recovering" /\ longer.severity = s.severity
      /\ longer.pendingSeverity = "none" /\ longer.recovery = ExtendCandidate(s.recovery)
      /\ longer.recovery \in CandidateState
  BY <1>1, CandidateTypes DEF WithRecovery, RuleState
<1> HIDE DEF reopened, longer
<1>4. CASE n.value >= WarningThreshold
  <2>1. r = ContinueOpen(reopened, n.at, n.value)
    BY <1>4 DEF ContinueRecovering, reopened
  <2>2. RunsAgree(reopened, W, C, {})
    BY <1>2 DEF Meets, RunsAgree, InEvent
  <2>3. Meets(reopened, n, W, C, {})
    BY <1>2, <2>2 DEF Meets
  <2>4. DecidesFor(reopened, ContinueOpen(reopened, n.at, n.value), n, W, C, {})
    BY <1>2, <2>3, ContinueOpenRuns
  <2>5. Grown({}, "recovery", n) = R2
    BY <1>1, <1>4, Bands, RuleAssumption DEF Grown
  <2>6. InEvent(reopened)
    BY <1>2 DEF InEvent
  <2> HIDE DEF r, R2
  <2>7. Decided(reopened, r, W2, C2, R2, n.at, n.value)
    BY <2>1, <2>4, <2>5 DEF DecidesFor
  <2> HIDE DEF W2, C2
  <2>8. Decided(s, r, W2, C2, R2, n.at, n.value)
    BY <1>1, <2>6, <2>7 DEF Decided
  <2> QED BY <2>8 DEF DecidesFor, r, W2, C2, R2
<1>5. CASE n.value < WarningThreshold /\ n.value > RecoveryThreshold
  <2>1. r.state = reopened /\ r.transition = "none"
    BY <1>1, <1>5, RuleAssumption DEF ContinueRecovering, Outcome, reopened
  <2>2. R2 = {} /\ W2 = {} /\ C2 = {}
    BY <1>1, <1>5, RuleAssumption DEF Grown, Band
  <2> HIDE DEF r, W2, C2, R2
  <2>3. RunsAgree(reopened, W2, C2, R2)
    BY <1>2, <2>2 DEF RunsAgree, InEvent
  <2>4. Decided(s, r, W2, C2, R2, n.at, n.value)
    BY <1>1, <2>1, <2>2, <2>3, NeverLong DEF Decided
  <2> QED BY <2>4 DEF DecidesFor, r, W2, C2, R2
<1>6. CASE n.value <= RecoveryThreshold
  <2>1. R2 = R \cup {n} /\ W2 = {} /\ C2 = {} /\ R2 \in SUBSET Sample
    BY <1>1, <1>6, Bands DEF Grown
  <2>2. Counts(longer.recovery, R2)
    BY <1>1, <1>3, <2>1, CountsMore
  <2>3. Cardinality(R2) >= 2
    <3>1. n \notin R
      BY <1>1
    <3>2. Cardinality(R \cup {n}) = Cardinality(R) + 1
      BY <1>1, <3>1, FS_AddElement DEF Counts
    <3>3. Cardinality(R) \in Nat \ {0}
      <4>1. IsFiniteSet(R) /\ R # {}
        BY <1>1 DEF Counts
      <4>2. Cardinality(R) \in Nat
        BY <4>1, FS_CardinalityType
      <4>3. Cardinality(R) # 0
        BY <4>1, FS_EmptySet
      <4> QED BY <4>2, <4>3
    <3> HIDE DEF R2
    <3> QED BY <2>1, <3>2, <3>3
  <2>4. r.state = longer
    BY <1>1, <1>6, RuleAssumption DEF ContinueRecovering, Outcome, longer
  <2>5. r.transition = IF Matured(longer.recovery, RecoveryTime, RecoveryMinSamples, n.at)
                         THEN "close" ELSE "none"
    BY <1>1, <1>6, RuleAssumption DEF ContinueRecovering, Outcome, longer
  <2> HIDE DEF r, W2, C2, R2
  <2>6. Matured(longer.recovery, RecoveryTime, RecoveryMinSamples, n.at)
           <=> LongAt(R2, RecoveryTime, RecoveryMinSamples, n.at)
    BY <1>1, <1>3, <2>1, <2>2, MaturedIsLong, RuleAssumption
  <2>7. RunsAgree(longer, W2, C2, R2)
    BY <1>3, <2>1, <2>2 DEF RunsAgree, InEvent
  <2>8. Decided(s, r, W2, C2, R2, n.at, n.value)
    BY <1>1, <2>1, <2>3, <2>4, <2>5, <2>6, <2>7, NeverLong DEF Decided
  <2> QED BY <2>8 DEF DecidesFor, r, W2, C2, R2
<1> QED BY <1>1, <1>4, <1>5, <1>6, RuleAssumption

\* Every phase decides by the runs.
LEMMA DispatchRuns ==
    ASSUME NEW s, NEW n, NEW W, NEW C, NEW R, Meets(s, n, W, C, R)
    PROVE  DecidesFor(s, Dispatch(s, n.at, n.value), n, W, C, R)
<1>1. s.phase \in Phase
  BY DEF Meets, RuleState
<1>2. CASE s.phase = "normal"
  BY <1>2, BeginPendingRuns DEF Dispatch
<1>3. CASE s.phase = "pending"
  BY <1>3, ContinuePendingRuns DEF Dispatch
<1>4. CASE s.phase = "open"
  BY <1>4, ContinueOpenRuns DEF Dispatch
<1>5. CASE s.phase = "recovering"
  BY <1>5, ContinueRecoveringRuns DEF Dispatch
<1> QED BY <1>1, <1>2, <1>3, <1>4, <1>5 DEF Phase

----------------------------------------------------------------------------
(* One evaluation. *)

\* The step evaluates the sample n: the phase is looked at in the state `seen`, and r is what it
\* decides.
EvaluatedAs(n, seen, r) ==
    /\ n \in Sample /\ n.at > st.lastSample /\ accepted' = accepted \cup {n}
    /\ seen = WithSample(AfterGap(st, n.at), n.at, n.value)
    /\ seen \in RuleState /\ Consistent(seen)
    /\ InEvent(seen) <=> InEvent(st)
    /\ r = Dispatch(seen, n.at, n.value)
    /\ r.state \in RuleState /\ CandidatesAgree(r.state)
    /\ r.transition \in Transition
    /\ r.transition = "open" => ~InEvent(seen) /\ InEvent(r.state)
    /\ r.transition # "open" => (InEvent(r.state) <=> InEvent(seen))
    /\ SameCandidates(st', Kept(r))
    /\ st'.peak = Kept(r).peak /\ st'.peakAt = Kept(r).peakAt
    /\ st'.lastSample = n.at
    /\ out'.transition = r.transition
    /\ out'.event = None <=> ~InEvent(seen)
    /\ r.transition = "open" => /\ out'.startedAt = Opened(seen, n).since
                                /\ out'.triggerSamples = Opened(seen, n).samples
                                /\ opening' = [at |-> n.at, startedAt |-> out'.startedAt]
    /\ r.transition # "open" => opening' = opening

LEMMA EvaluationIs ==
    ASSUME TypeOK, PhaseConsistent, NEW t \in 1 .. MaxTime, NEW v \in Values,
           EvaluateSample(t, v)
    PROVE  \E n, seen, r : EvaluatedAs(n, seen, r)
<1> DEFINE n == [at |-> t, value |-> v]
           g == AfterGap(st, t)
           seen == WithSample(g, t, v)
           r == Dispatch(seen, t, v)
           e == Evaluate(st, t, v)
           final == IF e.periodic THEN WithEvidence(r.state, t) ELSE r.state
           kept == IF r.transition = "close" THEN ResetToNormal(final) ELSE final
<1>1. /\ t \in Nat \ {0} /\ v \in Nat /\ events + 1 \in Nat /\ t > st.lastSample
      /\ st \in RuleState /\ Consistent(st)
  BY DetectorAssumption DEF EvaluateSample, Accepts, TypeOK, PhaseConsistent
<1>2. n \in Sample /\ n.at = t /\ n.value = v
  BY <1>1 DEF Sample
<1>3. g \in RuleState /\ Consistent(g) /\ g.event = st.event
  BY <1>1, AfterGapAgrees
<1> HIDE DEF g
<1>4. seen \in RuleState /\ Consistent(seen) /\ seen.event = st.event /\ seen.lastSample = t
  BY <1>1, <1>3, WithSampleAgrees
<1> HIDE DEF seen
<1>5. GoodOutcome(seen, r)
  BY <1>1, <1>4, DispatchGood
<1>6. InEvent(seen) <=> InEvent(st)
  BY <1>1, <1>4 DEF Consistent
<1>7. /\ e.transition = r.transition /\ e.event = st.event
      /\ e.next = kept
      /\ e.transition = "open" => /\ e.startedAt = Opened(seen, n).since
                                  /\ e.triggerSamples = Opened(seen, n).samples
  BY DEF Evaluate, Opened, seen, g
<1> HIDE DEF r, e, n
<1>8. r.state \in RuleState /\ r.state.lastSample = t
  BY <1>4, <1>5 DEF GoodOutcome
<1>9. Noted(final, r.state) /\ final \in RuleState
  <2>1. Noted(r.state, r.state)
    BY DEF Noted, SameCandidates
  <2> QED BY <1>1, <1>8, <2>1, NotedIs, AssignmentTypes
<1> HIDE DEF final
<1>10. Noted(kept, Kept(r)) /\ kept \in RuleState
  <2>1. ASSUME NEW a \in RuleState, NEW b \in RuleState, a.lastSample = b.lastSample
        PROVE  Noted(ResetToNormal(a), ResetToNormal(b))
    BY <2>1 DEF Noted, SameCandidates, ResetToNormal, DefaultState
  <2>2. Noted(ResetToNormal(final), ResetToNormal(r.state))
    BY <1>8, <1>9, <2>1 DEF Noted
  <2> QED BY <1>9, <2>2, AssignmentTypes DEF Kept
<1>11. Kept(r).lastSample = t
  BY <1>8 DEF Kept, ResetToNormal, DefaultState
<1> HIDE DEF kept
<1>12. Noted(st', Kept(r))
  <2>1. st' = Attached(e, t)
    BY DEF EvaluateSample, e
  <2>2. st' = IF e.transition = "open" THEN AttachEvent(kept, events + 1, t) ELSE kept
    BY <1>7, <2>1 DEF Attached
  <2>3. Noted(AttachEvent(kept, events + 1, t), kept)
    BY <1>1, <1>10, NotedIs
  <2>4. Noted(st', kept)
    BY <2>2, <2>3 DEF Noted, SameCandidates
  <2> QED BY <1>10, <2>4 DEF Noted, SameCandidates
<1>13. /\ accepted' = accepted \cup {n}
       /\ out' = Decision(e)
       /\ opening' = IF e.transition = "open" THEN [at |-> t, startedAt |-> e.startedAt]
                     ELSE opening
  BY DEF EvaluateSample, e, n
<1>14. /\ out'.transition = r.transition /\ out'.event = st.event
       /\ out'.startedAt = e.startedAt /\ out'.triggerSamples = e.triggerSamples
  BY <1>7, <1>13 DEF Decision
<1>15. out'.event = None <=> ~InEvent(seen)
  BY <1>1, <1>6, <1>14 DEF Consistent
<1>16. EvaluatedAs(n, seen, r)
  <2>1. seen = WithSample(AfterGap(st, n.at), n.at, n.value) /\ r = Dispatch(seen, n.at, n.value)
    BY <1>2 DEF seen, g, r
  <2>2. /\ r.state \in RuleState /\ CandidatesAgree(r.state)
        /\ r.transition \in Transition
        /\ r.transition = "open" => ~InEvent(seen) /\ InEvent(r.state)
        /\ r.transition # "open" => (InEvent(r.state) <=> InEvent(seen))
    BY <1>5 DEF GoodOutcome
  <2>3. /\ SameCandidates(st', Kept(r))
        /\ st'.peak = Kept(r).peak /\ st'.peakAt = Kept(r).peakAt /\ st'.lastSample = n.at
    BY <1>2, <1>11, <1>12 DEF Noted
  <2>4. r.transition = "open" => /\ out'.startedAt = Opened(seen, n).since
                                 /\ out'.triggerSamples = Opened(seen, n).samples
                                 /\ opening' = [at |-> n.at, startedAt |-> out'.startedAt]
    BY <1>2, <1>7, <1>13, <1>14
  <2>5. r.transition # "open" => opening' = opening
    BY <1>7, <1>13
  <2> QED BY <1>1, <1>2, <1>4, <1>6, <1>13, <1>14, <1>15, <2>1, <2>2, <2>3, <2>4, <2>5
          DEF EvaluatedAs
<1> QED BY <1>16

LEMMA SamplesStay ==
    ASSUME HistoryInv, NEW n, NEW seen, NEW r, EvaluatedAs(n, seen, r)
    PROVE  SamplesAgree'
<1>1. /\ n \in Sample /\ accepted' = accepted \cup {n} /\ st'.lastSample = n.at
      /\ n.at > st.lastSample /\ opening'.at \in {n.at, opening.at}
  BY DEF EvaluatedAs
<1>2. /\ st.lastSample \in Nat /\ n.at \in Nat /\ opening.at \in Nat
      /\ \A a \in accepted : a.at \in Nat /\ a.at <= st.lastSample
      /\ opening.at <= st.lastSample /\ IsFiniteSet(accepted)
  BY <1>1 DEF HistoryInv, SamplesAgree, TypeOK, RuleState, Sample
<1>3. IsFiniteSet(accepted')
  BY <1>1, <1>2, FS_AddElement
<1>4. \A a \in accepted' : a.at <= n.at
  BY <1>1, <1>2
<1>5. opening'.at <= n.at
  BY <1>1, <1>2
<1> QED BY <1>1, <1>3, <1>4, <1>5 DEF SamplesAgree

\* The run of a band before the sample n: empty after a gap.
Before(band, n) == IF DataGap(st, n.at) THEN {} ELSE Run({band})

LEMMA SeenMeets ==
    ASSUME HistoryInv, NEW n, NEW seen, NEW r, EvaluatedAs(n, seen, r)
    PROVE  /\ Meets(seen, n, Before("warning", n), Before("critical", n), Before("recovery", n))
           /\ DataGap(st, n.at) => seen.critical = NoCandidate
           /\ ~DataGap(st, n.at) => SameCandidates(seen, st)
<1> DEFINE W == Run({"warning"})
           C == Run({"critical"})
           R == Run({"recovery"})
           W1 == Before("warning", n)
           C1 == Before("critical", n)
           R1 == Before("recovery", n)
           g == AfterGap(st, n.at)
<1>1. /\ n \in Sample /\ n.at \in Nat \ {0} /\ n.at > st.lastSample
      /\ seen \in RuleState /\ CandidatesAgree(seen)
      /\ seen = WithSample(g, n.at, n.value)
  BY DEF EvaluatedAs, Consistent, Sample
<1>2. st \in RuleState /\ Consistent(st) /\ st.lastSample \in Nat
  BY DEF HistoryInv, TypeOK, PhaseConsistent, RuleState
<1>3. RunsAgree(st, W, C, R)
  BY DEF HistoryInv
<1>4. /\ W \in SUBSET Sample /\ C \in SUBSET Sample /\ R \in SUBSET Sample
      /\ \A a \in W \cup C \cup R : a.at <= st.lastSample
  BY RunTypes DEF HistoryInv
<1> HIDE DEF W, C, R, g
<1>5. g \in RuleState
  BY <1>1, <1>2, AfterGapAgrees DEF g
<1>6. SameCandidates(seen, g)
  BY <1>1, <1>5, WithSampleSame
<1>7. /\ DataGap(st, n.at) => RunsAgree(g, {}, {}, {}) /\ g.critical = NoCandidate
      /\ ~DataGap(st, n.at) => g = st
  BY <1>1, <1>2, <1>3, RunsAfterGap DEF g
<1>8. RunsAgree(g, W1, C1, R1)
  BY <1>3, <1>7 DEF Before, W, C, R
<1>9. /\ W1 \in SUBSET Sample /\ C1 \in SUBSET Sample /\ R1 \in SUBSET Sample
      /\ \A a \in W1 \cup C1 \cup R1 : a.at < n.at
  <2>1. \A a \in W \cup C \cup R : a.at < n.at
    BY <1>1, <1>2, <1>4 DEF Sample
  <2> QED BY <1>4, <2>1 DEF Before, W, C, R
<1> HIDE DEF W1, C1, R1
<1>10. RunsAgree(seen, W1, C1, R1)
  BY <1>6, <1>8, RunsAgreeSame
<1>11. /\ DataGap(st, n.at) => seen.critical = NoCandidate
       /\ ~DataGap(st, n.at) => SameCandidates(seen, st)
  BY <1>6, <1>7 DEF SameCandidates
<1>12. seen.critical.since < n.at
  <2>1. CASE seen.critical = NoCandidate
    BY <1>1, <2>1 DEF NoCandidate, None
  <2>2. CASE seen.critical # NoCandidate
    <3>1. seen.critical = st.critical
      BY <1>11, <2>2 DEF SameCandidates
    <3>2. CriticalFaithful(st.critical)
      BY <2>2, <3>1 DEF HistoryInv, CriticalAgrees
    <3>3. \E a \in accepted : a.at = st.critical.since
      BY <3>2 DEF CriticalFaithful
    <3>4. \A a \in accepted : a.at <= st.lastSample /\ a.at \in Nat
      BY DEF HistoryInv, SamplesAgree, TypeOK, Sample
    <3> QED BY <1>1, <1>2, <3>1, <3>3, <3>4
  <2> QED BY <2>1, <2>2
<1>13. Meets(seen, n, W1, C1, R1)
  BY <1>1, <1>9, <1>10, <1>12 DEF Meets
<1> QED BY <1>11, <1>13 DEF W1, C1, R1

LEMMA RunsGrow ==
    ASSUME HistoryInv, NEW n, NEW seen, NEW r, EvaluatedAs(n, seen, r), NEW band
    PROVE  Run({band})' = Grown(Before(band, n), band, n)
<1>1. /\ n \in Sample /\ n.at > st.lastSample /\ accepted' = accepted \cup {n}
      /\ TypeOK /\ SamplesAgree
  BY DEF EvaluatedAs, HistoryInv
<1>2. Run({band})' = LongerRun(Run({band}), {band}, n, DataGap(st, n.at))
  BY <1>1, RunStep
<1>3. Grown(Before(band, n), band, n) = LongerRun(Run({band}), {band}, n, DataGap(st, n.at))
  BY DEF Grown, Before, LongerRun
<1> QED BY <1>2, <1>3

\* The decision, and the candidates after it, in terms of the runs with the new sample.
LEMMA RunsStay ==
    ASSUME HistoryInv, NEW n, NEW seen, NEW r, EvaluatedAs(n, seen, r)
    PROVE  /\ RunsAgree(st, Run({"warning"}), Run({"critical"}), Run({"recovery"}))'
           /\ Decided(seen, r, Run({"warning"})', Run({"critical"})', Run({"recovery"})',
                      n.at, n.value)
<1> DEFINE W == Run({"warning"})'
           C == Run({"critical"})'
           R == Run({"recovery"})'
<1>1. /\ W = Grown(Before("warning", n), "warning", n)
      /\ C = Grown(Before("critical", n), "critical", n)
      /\ R = Grown(Before("recovery", n), "recovery", n)
  BY RunsGrow
<1>2. r = Dispatch(seen, n.at, n.value) /\ SameCandidates(st', Kept(r))
  BY DEF EvaluatedAs
<1>3. DecidesFor(seen, r, n, Before("warning", n), Before("critical", n), Before("recovery", n))
  BY <1>2, SeenMeets, DispatchRuns
<1> HIDE DEF W, C, R
<1>4. Decided(seen, r, W, C, R, n.at, n.value)
  BY <1>1, <1>3 DEF DecidesFor
<1>5. RunsAgree(Kept(r), W, C, R)
  <2>1. CASE r.transition # "close"
    BY <1>4, <2>1 DEF Decided, Kept
  <2>2. CASE r.transition = "close"
    <3>1. Kept(r) = ResetToNormal(r.state)
      BY <2>2 DEF Kept
    <3>2. W = {} /\ C = {}
      BY <1>4, <2>2 DEF Decided
    <3> QED BY <3>1, <3>2 DEF RunsAgree, ResetToNormal, DefaultState
  <2> QED BY <2>1, <2>2
<1>6. RunsAgree(st', W, C, R)
  BY <1>2, <1>5, RunsAgreeSame
<1> QED BY <1>4, <1>6 DEF RunsAgree, InEvent, W, C, R

\* The candidate that opens an event counts the run of its severity.
LEMMA OpenedCounts ==
    ASSUME HistoryInv, NEW n, NEW seen, NEW r, EvaluatedAs(n, seen, r), ~InEvent(seen)
    PROVE  /\ BreachedSeverity(n.value) = "warning" => Counts(Opened(seen, n), Run({"warning"})')
           /\ BreachedSeverity(n.value) = "critical" => Counts(Opened(seen, n), Run({"critical"})')
<1> DEFINE x == BreachedSeverity(n.value)
           W == Before("warning", n)
           C == Before("critical", n)
           R == Before("recovery", n)
<1>1. Meets(seen, n, W, C, R)
  BY SeenMeets
<1>2. Run({"warning"})' = Grown(W, "warning", n) /\ Run({"critical"})' = Grown(C, "critical", n)
  BY RunsGrow
<1> HIDE DEF W, C, R
<1>3. /\ n \in Sample /\ n.value \in Nat /\ RunsAgree(seen, W, C, R)
      /\ seen.pending \in CandidateState /\ CandidatesAgree(seen)
      /\ W \in SUBSET Sample /\ C \in SUBSET Sample /\ \A a \in W \cup C : a.at < n.at
  BY <1>1 DEF Meets, RuleState, Sample
<1>4. ASSUME NEW run \in {W, C}, Band(n.value) = x, x \in Severity,
             x = seen.pendingSeverity => Counts(seen.pending, run),
             x # seen.pendingSeverity => run = {}
      PROVE  Counts(Opened(seen, n), Grown(run, x, n))
  <2>1. Grown(run, x, n) = run \cup {n}
    BY <1>4 DEF Grown
  <2>2. CASE x = seen.pendingSeverity
    <3>1. seen.phase = "pending"
      BY <1>3, <1>4, <2>2 DEF CandidatesAgree, Severity
    <3>2. Opened(seen, n) = ExtendCandidate(seen.pending)
      BY <2>2, <3>1 DEF Opened
    <3>3. run \in SUBSET Sample /\ \A a \in run : a.at < n.at
      BY <1>3
    <3> QED BY <1>3, <1>4, <2>1, <2>2, <3>2, <3>3, CountsMore
  <2>3. CASE x # seen.pendingSeverity
    <3>1. Opened(seen, n) = NewCandidate(n.at) /\ run \cup {n} = {n}
      BY <1>4, <2>3 DEF Opened
    <3> QED BY <1>3, <2>1, <3>1, CountsNew
  <2> QED BY <2>2, <2>3
<1>5. ASSUME x = "warning"
      PROVE  Counts(Opened(seen, n), Grown(W, "warning", n))
  BY <1>3, <1>4, <1>5, Bands DEF RunsAgree, Severity
<1>6. ASSUME x = "critical"
      PROVE  Counts(Opened(seen, n), Grown(C, "critical", n))
  BY <1>3, <1>4, <1>6, Bands DEF RunsAgree, Severity
<1> QED BY <1>2, <1>5, <1>6

\* The peak of the state that the new sample is judged in covers it.
LEMMA SeenPeak ==
    ASSUME HistoryInv, NEW n, NEW seen, NEW r, EvaluatedAs(n, seen, r), seen.phase # "normal"
    PROVE  /\ n.value <= seen.peak
           /\ st.phase # "normal"
           /\ \A from : PeakOf(st, accepted, from) => PeakOf(seen, accepted', from)
           /\ seen.phase = "pending" => st.phase = "pending" /\ seen.pending = st.pending
<1> DEFINE g == AfterGap(st, n.at)
<1>1. /\ n \in Sample /\ n.at \in Nat \ {0} /\ n.value \in Nat /\ accepted' = accepted \cup {n}
      /\ st \in RuleState /\ Consistent(st) /\ accepted \subseteq Sample
      /\ seen = WithSample(g, n.at, n.value)
  BY DEF EvaluatedAs, HistoryInv, TypeOK, PhaseConsistent, Sample
<1>2. g \in RuleState
  BY <1>1, AfterGapAgrees
<1> HIDE DEF g
<1>3. SameCandidates(seen, g)
  BY <1>1, <1>2, WithSampleSame
<1>4. g.phase # "normal"
  BY <1>3 DEF SameCandidates
<1>5. /\ g.peak = st.peak /\ g.peakAt = st.peakAt /\ st.phase # "normal"
      /\ g.phase = "pending" => st.phase = "pending" /\ g.pending = st.pending
  BY <1>1, <1>4, GapPeak DEF g
<1>6. IF n.value > st.peak
        THEN seen.peak = n.value /\ seen.peakAt = n.at
        ELSE seen.peak = st.peak /\ seen.peakAt = st.peakAt
  <2>1. WithLast(g, n.at) \in RuleState
    BY <1>1, <1>2, AssignmentTypes
  <2> DEFINE l == WithLast(g, n.at)
  <2>2. l.peak = g.peak /\ l.peakAt = g.peakAt
    BY <1>2 DEF WithLast, RuleState
  <2> HIDE DEF l
  <2>3. WithPeak(l, n.at, n.value).peak = n.value /\ WithPeak(l, n.at, n.value).peakAt = n.at
    BY <2>1 DEF WithPeak, RuleState, l
  <2>4. seen = IF n.value > g.peak THEN WithPeak(l, n.at, n.value) ELSE l
    BY <1>1, <1>4 DEF WithSample, l
  <2> QED BY <1>5, <2>2, <2>3, <2>4
<1>7. st.peak \in Nat /\ \A a \in accepted : a.value \in Nat
  BY <1>1 DEF RuleState, Sample
<1>8. n.value <= seen.peak
  BY <1>1, <1>6, <1>7
<1>9. ASSUME NEW from, PeakOf(st, accepted, from)
      PROVE  PeakOf(seen, accepted', from)
  BY <1>1, <1>6, <1>7, <1>9 DEF PeakOf
<1> QED BY <1>3, <1>5, <1>8, <1>9 DEF SameCandidates

\* After the new sample, the peak is that of the samples from the new one on.
LEMMA PeakFromNow ==
    ASSUME NEW s, NEW n \in Sample, NEW samples \in SUBSET Sample, n \in samples,
           \A a \in samples : a = n \/ a.at < n.at,
           \E a \in samples : a.at = s.peakAt /\ a.value = s.peak,
           n.value <= s.peak
    PROVE  PeakOf(s, samples, n.at)
BY DEF PeakOf, Sample

LEMMA PeaksStay ==
    ASSUME HistoryInv, NEW n, NEW seen, NEW r, EvaluatedAs(n, seen, r)
    PROVE  PeaksAgree(st, accepted, opening.startedAt)'
<1> DEFINE k == Kept(r)
           S == accepted'
           x == opening'.startedAt
<1>1. /\ n \in Sample /\ n.at \in Nat \ {0} /\ n.value \in Nat /\ S = accepted \cup {n}
      /\ S \in SUBSET Sample /\ n.at > st.lastSample /\ st.lastSample \in Nat
      /\ \A a \in accepted : a.at \in Nat /\ a.at <= st.lastSample
      /\ seen \in RuleState /\ CandidatesAgree(seen)
  BY DEF EvaluatedAs, HistoryInv, SamplesAgree, TypeOK, Sample, RuleState, Consistent
<1>2. n \in S /\ \A a \in S : a = n \/ a.at < n.at
  BY <1>1
<1>3. PeakCarried(seen, r.state, n.at, n.value)
  BY <1>1, DispatchCarries DEF EvaluatedAs
<1>4. ResetToNormal(r.state).phase = "normal"
  BY DEF ResetToNormal, DefaultState
<1> HIDE DEF S
<1>5. ASSUME k.phase # "normal"
      PROVE  /\ k.phase = "pending" => PeakOf(k, S, k.pending.since)
             /\ InEvent(k) => PeakOf(k, S, x)
  <2>1. k = r.state /\ r.transition # "close"
    BY <1>4, <1>5 DEF Kept
  <2>2. InEvent(k) => \/ InEvent(seen) /\ r.transition # "open"
                      \/ ~InEvent(seen) /\ r.transition = "open"
    BY <2>1 DEF EvaluatedAs
  <2>3. r.transition = "open" => x = Opened(seen, n).since
    BY DEF EvaluatedAs
  <2>4. r.transition # "open" => x = opening.startedAt
    BY DEF EvaluatedAs
  <2>5. NewCandidate(n.at).since = n.at /\ ExtendCandidate(seen.pending).since = seen.pending.since
    BY <1>1 DEF NewCandidate, ExtendCandidate, RuleState, CandidateState
  <2>6. /\ seen.phase # "pending" => Opened(seen, n).since = n.at
        /\ Opened(seen, n).since \in {n.at, seen.pending.since}
    BY <2>5 DEF Opened
  <2> HIDE DEF k, x
  <2>7. CASE seen.phase = "normal"
    <3>1. k.peak = n.value /\ k.peakAt = n.at /\ (k.phase = "pending" => k.pending.since = n.at)
      BY <1>3, <1>5, <2>1, <2>5, <2>7 DEF PeakCarried
    <3>2. PeakOf(k, S, n.at)
      <4>1. (\E a \in S : a.at = k.peakAt /\ a.value = k.peak) /\ n.value <= k.peak
        BY <1>1, <1>2, <3>1
      <4> QED BY <1>1, <1>2, <4>1, PeakFromNow
    <3>3. InEvent(k) => x = n.at
      BY <2>2, <2>3, <2>6, <2>7 DEF InEvent
    <3> QED BY <3>1, <3>2, <3>3
  <2>8. CASE seen.phase # "normal"
    <3>1. /\ k.peak = seen.peak /\ k.peakAt = seen.peakAt
          /\ k.phase = "pending" => /\ seen.phase = "pending"
                                    /\ k.pending.since \in {n.at, seen.pending.since}
      BY <1>3, <1>5, <2>1, <2>5, <2>8 DEF PeakCarried
    <3>2. /\ n.value <= seen.peak
          /\ \A from : PeakOf(st, accepted, from) => PeakOf(seen, S, from)
          /\ seen.phase = "pending" => st.phase = "pending" /\ seen.pending = st.pending
      BY <2>8, SeenPeak DEF S
    <3>3. \A from : PeakOf(seen, S, from) => PeakOf(k, S, from) /\ PeakOf(k, S, n.at)
      <4>1. ASSUME NEW from, PeakOf(seen, S, from)
            PROVE  PeakOf(k, S, from) /\ PeakOf(k, S, n.at)
        <5>1. PeakOf(k, S, from)
          BY <3>1, <4>1 DEF PeakOf
        <5>2. (\E a \in S : a.at = k.peakAt /\ a.value = k.peak) /\ n.value <= k.peak
          BY <3>1, <3>2, <4>1 DEF PeakOf
        <5> QED BY <1>1, <1>2, <5>1, <5>2, PeakFromNow
      <4> QED BY <4>1
    <3>4. CASE seen.phase = "pending"
      <4>1. PeakOf(st, accepted, seen.pending.since)
        BY <3>2, <3>4 DEF HistoryInv, PeaksAgree
      <4>2. PeakOf(k, S, seen.pending.since) /\ PeakOf(k, S, n.at)
        BY <3>2, <3>3, <4>1
      <4>3. InEvent(k) => x \in {n.at, seen.pending.since}
        BY <2>2, <2>3, <2>6, <3>4 DEF InEvent
      <4> QED BY <3>1, <4>2, <4>3
    <3>5. CASE seen.phase # "pending"
      <4>1. InEvent(seen) /\ InEvent(st)
        BY <1>1, <2>8, <3>5 DEF EvaluatedAs, InEvent, RuleState, Phase
      <4>2. PeakOf(st, accepted, opening.startedAt)
        BY <4>1 DEF HistoryInv, PeaksAgree
      <4>3. PeakOf(k, S, opening.startedAt)
        BY <3>2, <3>3, <4>2
      <4> QED BY <2>2, <2>4, <3>1, <3>5, <4>1, <4>3
    <3> QED BY <3>4, <3>5
  <2> QED BY <2>7, <2>8
<1>6. SameCandidates(st', k) /\ st'.peak = k.peak /\ st'.peakAt = k.peakAt
  BY DEF EvaluatedAs
<1> HIDE DEF k, x
<1>7. /\ k.phase = "pending" => PeakOf(k, S, k.pending.since)
      /\ InEvent(k) => PeakOf(k, S, x)
  BY <1>5 DEF InEvent
<1>8. PeaksAgree(st', S, x)
  BY <1>6, <1>7 DEF PeaksAgree, PeakOf, SameCandidates, InEvent
<1> QED BY <1>8 DEF PeaksAgree, PeakOf, InEvent, S, x

\* A gap, a warning or an escalation drops the critical candidate, a sample below the warning
\* threshold keeps it, and a critical one starts or extends it.
LEMMA CriticalStay ==
    ASSUME HistoryInv, NEW n, NEW seen, NEW r, EvaluatedAs(n, seen, r)
    PROVE  CriticalAgrees'
<1> DEFINE c == r.state.critical
           t == n.at
           \* the samples from a time on, and the critical ones, before and after the step
           From(u) == {a \in accepted : a.at >= u}
           From2(u) == {a \in accepted' : a.at >= u}
           Crit(u) == {a \in From(u) : Band(a.value) = "critical"}
           Crit2(u) == {a \in From2(u) : Band(a.value) = "critical"}
<1>1. /\ n \in Sample /\ t \in Nat \ {0} /\ n.value \in Nat /\ accepted' = accepted \cup {n}
      /\ t > st.lastSample /\ st.lastSample \in Nat /\ accepted \subseteq Sample
      /\ \A a \in accepted : a.at \in Nat /\ a.at <= st.lastSample
      /\ IsFiniteSet(accepted)
      /\ seen \in RuleState /\ CandidatesAgree(seen)
      /\ r.state \in RuleState /\ CandidatesAgree(r.state)
      /\ opening.at \in Nat /\ opening.at <= st.lastSample
  BY DEF EvaluatedAs, HistoryInv, SamplesAgree, TypeOK, Sample, RuleState, Consistent
<1>2. /\ \A a \in accepted : FollowsGap(a)' <=> FollowsGap(a)
      /\ st.lastSample # None => (FollowsGap(n)' <=> DataGap(st, t))
      /\ n \notin accepted
      /\ st.lastSample = None => accepted = {}
  BY <1>1, GapStays DEF HistoryInv
<1>3. CASE Kept(r).critical = NoCandidate
  <2>1. st'.critical = NoCandidate
    BY <1>3 DEF EvaluatedAs, SameCandidates
  <2> QED BY <2>1 DEF CriticalAgrees
<1>4. CASE Kept(r).critical # NoCandidate
  <2>1. ResetToNormal(r.state).critical = NoCandidate
    BY DEF ResetToNormal, DefaultState
  <2>2. r.transition # "close" /\ Kept(r) = r.state
    BY <1>4, <2>1 DEF Kept
  <2>3. st'.critical = c /\ c # NoCandidate
    BY <1>4, <2>2 DEF EvaluatedAs, SameCandidates
  <2>4. InEvent(r.state) /\ r.state.severity = "warning"
    BY <1>1, <2>3, CriticalInWarning
  <2>5. CriticalCarried(seen, r.state, t, n.value)
    BY <1>1, DispatchCarries DEF EvaluatedAs
  <2>6. r.transition # "open" /\ opening' = opening /\ InEvent(seen)
    <3>1. CASE InEvent(seen)
      BY <3>1 DEF EvaluatedAs
    <3>2. CASE ~InEvent(seen)
      <4>1. r.transition = "open"
        BY <2>4, <3>2 DEF EvaluatedAs
      <4>2. r.state.severity = BreachedSeverity(n.value)
        BY <3>2, <4>1, RunsStay DEF Decided
      <4>3. seen.critical = NoCandidate
        BY <1>1, <3>2, CriticalInWarning
      <4>4. Band(n.value) = "critical"
        BY <1>1, <2>3, <2>5, <4>3, Bands DEF CriticalCarried
      <4> QED BY <1>1, <2>4, <4>2, <4>4, Bands
    <3> QED BY <3>1, <3>2
  <2>7. /\ DataGap(st, t) => seen.critical = NoCandidate
        /\ ~DataGap(st, t) => seen.critical = st.critical
    BY SeenMeets DEF SameCandidates
  <2>8. c.since \in Nat
    BY <1>1 DEF RuleState, CandidateState
  <2>9. ASSUME c.since > opening.at,
               \E a \in From2(c.since) : a.at = c.since /\ Band(a.value) = "critical",
               \A a \in From2(c.since) : Band(a.value) # "warning",
               \A a \in From2(c.since) : a.at > c.since => ~FollowsGap(a)',
               c.samples = Cardinality(Crit2(c.since))
        PROVE  CriticalAgrees'
    BY <2>3, <2>6, <2>9 DEF CriticalAgrees, CriticalFaithful
  <2>10. CASE /\ seen.critical # NoCandidate
              /\ c \in {seen.critical, ExtendCandidate(seen.critical)}
              /\ c = seen.critical => Band(n.value) \in {"recovery", "between"}
              /\ c # seen.critical => Band(n.value) = "critical"
    <3> DEFINE u == st.critical.since
    <3>1. seen.critical = st.critical /\ ~DataGap(st, t)
      BY <2>7, <2>10
    <3>2. st.critical \in CandidateState /\ seen.critical \in CandidateState
      BY <1>1, <3>1 DEF RuleState
    <3>3. c.since = u /\ (c # seen.critical => c.samples = st.critical.samples + 1)
             /\ (c = seen.critical => c.samples = st.critical.samples)
      BY <2>10, <3>1, <3>2 DEF ExtendCandidate, CandidateState
    <3>4. CriticalFaithful(st.critical)
      BY <2>10, <3>1 DEF HistoryInv, CriticalAgrees
    <3>5. /\ u > opening.at
          /\ \E a \in From(u) : a.at = u /\ Band(a.value) = "critical"
          /\ \A a \in From(u) : Band(a.value) # "warning"
          /\ \A a \in From(u) : a.at > u => ~FollowsGap(a)
          /\ st.critical.samples = Cardinality(Crit(u))
      BY <3>4 DEF CriticalFaithful
    <3>6. u \in Nat /\ u < t
      BY <1>1, <3>5
    <3>7. From2(u) = From(u) \cup {n} /\ From(u) \subseteq accepted
      BY <1>1, <3>6
    <3>8. accepted # {}
      BY <3>5
    <3>9. ~FollowsGap(n)'
      BY <1>2, <3>1, <3>8
    <3>10. Band(n.value) # "warning"
      BY <2>10
    <3>11. Crit(u) \subseteq accepted /\ IsFiniteSet(Crit(u)) /\ n \notin Crit(u)
      BY <1>1, <1>2, FS_Subset
    <3>12. c.samples = Cardinality(Crit2(u))
      <4>1. CASE c = seen.critical
        <5>1. Crit2(u) = Crit(u)
          BY <2>10, <3>7, <4>1
        <5> QED BY <3>3, <3>5, <4>1, <5>1
      <4>2. CASE c # seen.critical
        <5>1. Crit2(u) = Crit(u) \cup {n}
          BY <2>10, <3>7, <4>2
        <5>2. Cardinality(Crit(u) \cup {n}) = Cardinality(Crit(u)) + 1
          BY <3>11, FS_AddElement
        <5> HIDE DEF c, Crit, Crit2
        <5> QED BY <3>3, <3>5, <4>2, <5>1, <5>2
      <4> QED BY <4>1, <4>2
    <3>13. \A a \in From2(u) : a.at > u => ~FollowsGap(a)'
      BY <1>2, <3>5, <3>7, <3>9
    <3>14. \A a \in From2(u) : Band(a.value) # "warning"
      BY <3>5, <3>7, <3>10
    <3>15. \E a \in From2(u) : a.at = u /\ Band(a.value) = "critical"
      BY <3>5, <3>7
    <3> HIDE DEF c, u, From, From2, Crit, Crit2
    <3> QED BY <2>9, <3>3, <3>5, <3>12, <3>13, <3>14, <3>15
  <2>11. CASE c = NewCandidate(t) /\ Band(n.value) = "critical"
    <3>1. c.since = t /\ c.samples = 1
      BY <2>11 DEF NewCandidate
    <3>2. From2(t) = {n}
      BY <1>1
    <3>3. Crit2(t) = {n}
      BY <2>11, <3>2
    <3>4. Cardinality({n}) = 1
      BY FS_Singleton
    <3>5. t > opening.at
      BY <1>1
    <3>6. c.samples = Cardinality(Crit2(t))
      BY <3>1, <3>3, <3>4
    <3>7. /\ \E a \in From2(t) : a.at = t /\ Band(a.value) = "critical"
          /\ \A a \in From2(t) : Band(a.value) # "warning"
          /\ \A a \in From2(t) : a.at > t => ~FollowsGap(a)'
      BY <1>1, <2>11, <3>2
    <3> HIDE DEF c, t, From2, Crit2
    <3> QED BY <2>9, <3>1, <3>5, <3>6, <3>7
  <2>12. \/ seen.critical # NoCandidate /\ c = seen.critical
               /\ Band(n.value) \in {"recovery", "between"}
         \/ seen.critical # NoCandidate /\ c = ExtendCandidate(seen.critical)
               /\ Band(n.value) = "critical"
         \/ c = NewCandidate(t) /\ Band(n.value) = "critical"
    BY <1>1, <2>3, <2>5, Bands DEF CriticalCarried, NextCritical
  <2>13. ExtendCandidate(seen.critical) # seen.critical
    BY <1>1 DEF ExtendCandidate, RuleState, CandidateState
  <2> QED BY <2>10, <2>11, <2>12, <2>13
<1> QED BY <1>3, <1>4

----------------------------------------------------------------------------
(* The invariant, and the properties of the decisions. *)

LEMMA HistoryHolds == Spec => []HistoryInv
<1>1. Init => HistoryInv
  <2> SUFFICES ASSUME Init
               PROVE  HistoryInv
    OBVIOUS
  <2>1. TypeOK /\ PhaseConsistent
    BY InitTyped
  <2>2. st = DefaultState /\ accepted = {} /\ opening.at = None
    BY DEF Init
  <2>3. /\ st.phase = "normal" /\ st.severity = "none" /\ st.pendingSeverity = "none"
        /\ st.critical = NoCandidate /\ st.lastSample = None
    BY <2>2 DEF DefaultState
  <2>4. \A bands : Run(bands) = {}
    BY <2>2 DEF Run
  <2>5. SamplesAgree
    BY <2>2, <2>3, FS_EmptySet DEF SamplesAgree, None
  <2>6. RunsAgree(st, Run({"warning"}), Run({"critical"}), Run({"recovery"}))
    BY <2>3, <2>4 DEF RunsAgree
  <2>7. PeaksAgree(st, accepted, opening.startedAt) /\ CriticalAgrees
    BY <2>3 DEF PeaksAgree, CriticalAgrees, InEvent
  <2> QED BY <2>1, <2>5, <2>6, <2>7 DEF HistoryInv
<1>2. HistoryInv /\ [Next]_vars => HistoryInv'
  <2> SUFFICES ASSUME HistoryInv, [Next]_vars
               PROVE  HistoryInv'
    OBVIOUS
  <2>1. TypeOK' /\ PhaseConsistent'
    BY StepTyped DEF HistoryInv
  <2>2. ASSUME NEW t \in 1 .. MaxTime, NEW v \in Values, EvaluateSample(t, v)
        PROVE  HistoryInv'
    <3>1. PICK n, seen, r : EvaluatedAs(n, seen, r)
      BY <2>2, EvaluationIs DEF HistoryInv
    <3>2. SamplesAgree'
      BY <3>1, SamplesStay
    <3>3. RunsAgree(st, Run({"warning"}), Run({"critical"}), Run({"recovery"}))'
      BY <3>1, RunsStay
    <3>4. PeaksAgree(st, accepted, opening.startedAt)'
      BY <3>1, PeaksStay
    <3>5. CriticalAgrees'
      BY <3>1, CriticalStay
    <3> QED BY <2>1, <3>2, <3>3, <3>4, <3>5 DEF HistoryInv
  <2>3. CASE UNCHANGED <<st, events, accepted, opening>>
    <3>1. SamplesAgree' /\ PeaksAgree(st, accepted, opening.startedAt)'
      BY <2>3 DEF HistoryInv, SamplesAgree, PeaksAgree, PeakOf, InEvent
    <3>2. \A a : FollowsGap(a)' <=> FollowsGap(a)
      BY <2>3 DEF FollowsGap
    <3>3. \A bands : Run(bands)' = Run(bands)
      BY <2>3, <3>2 DEF Run
    <3>4. RunsAgree(st, Run({"warning"}), Run({"critical"}), Run({"recovery"}))'
      BY <2>3, <3>3 DEF HistoryInv, RunsAgree, InEvent
    <3>5. CriticalAgrees'
      BY <2>3, <3>2 DEF HistoryInv, CriticalAgrees, CriticalFaithful
    <3> QED BY <2>1, <3>1, <3>4, <3>5 DEF HistoryInv
  <2> QED BY <2>2, <2>3 DEF Next, IgnoreStaleSample, vars
<1> QED BY <1>1, <1>2, PTL DEF Spec

\* The latest sample is the one just evaluated.
LEMMA LatestIs ==
    ASSUME HistoryInv, NEW n, NEW seen, NEW r, EvaluatedAs(n, seen, r)
    PROVE  Latest' = {n}
<1>1. /\ accepted' = accepted \cup {n} /\ st'.lastSample = n.at /\ n.at > st.lastSample
      /\ n.at \in Nat /\ st.lastSample \in Nat
      /\ \A a \in accepted : a.at \in Nat /\ a.at <= st.lastSample
  BY DEF EvaluatedAs, HistoryInv, SamplesAgree, TypeOK, Sample, RuleState
<1> QED BY <1>1 DEF Latest

\* A step without a new sample keeps what the properties read.
LEMMA HistoryKept ==
    ASSUME UNCHANGED vars
    PROVE  /\ \A bands : Run(bands)' = Run(bands)
           /\ Latest' = Latest
<1>1. \A a : FollowsGap(a)' <=> FollowsGap(a)
  BY DEF vars, FollowsGap
<1> QED BY <1>1 DEF vars, Run, Latest

\* Every step evaluates a sample, drops one or stutters.
LEMMA StepIs ==
    ASSUME HistoryInv, [Next]_vars
    PROVE  \/ \E n, seen, r : EvaluatedAs(n, seen, r)
           \/ out' = NoEvaluation
           \/ UNCHANGED vars
<1>1. ASSUME NEW t \in 1 .. MaxTime, NEW v \in Values, EvaluateSample(t, v)
      PROVE  \E n, seen, r : EvaluatedAs(n, seen, r)
  BY <1>1, EvaluationIs DEF HistoryInv
<1> QED BY <1>1 DEF Next, IgnoreStaleSample

\* For every rule, an event opens exactly when the trailing run of one severity has lasted for
\* that severity's time and count, and starts with that run: resets, changes of severity and
\* gaps, in any order, neither open it early nor lose a sample of it.
THEOREM OpensWhenSustained == Spec => []OpensExactlyWhenSustained
<1>1. Init => OpensExactlyWhenSustained
  BY DEF Init, NoEvaluation, OpensExactlyWhenSustained, EvaluatedInNoEvent
<1>2. HistoryInv /\ OpensExactlyWhenSustained /\ [Next]_vars => OpensExactlyWhenSustained'
  <2> SUFFICES ASSUME HistoryInv, OpensExactlyWhenSustained, [Next]_vars
               PROVE  OpensExactlyWhenSustained'
    OBVIOUS
  <2>1. ASSUME NEW n, NEW seen, NEW r, EvaluatedAs(n, seen, r), EvaluatedInNoEvent'
        PROVE  OpensExactlyWhenSustained'
    <3> DEFINE x == BreachedSeverity(n.value)
               run == Run({x})'
               W == Run({"warning"})'
               C == Run({"critical"})'
               R == Run({"recovery"})'
    <3>1. /\ ~InEvent(seen) /\ st'.lastSample = n.at /\ out'.transition = r.transition
          /\ st'.severity = Kept(r).severity
      BY <2>1 DEF EvaluatedAs, EvaluatedInNoEvent, SameCandidates
    <3>2. Latest' = {n}
      BY <2>1, LatestIs
    <3>3. x \in {"none", "warning", "critical"}
      BY DEF BreachedSeverity
    <3>4. /\ r.transition = "open" <=> LongBreach(x, W, C, n.at)
          /\ r.transition = "open" => r.state.severity = x
      BY <2>1, <3>1, RunsStay DEF Decided
    <3>5. r.transition = "open" => st'.severity = x
      BY <3>1, <3>4 DEF Kept
    <3>6. /\ x = "warning" => (LongAt(W, TriggerTime, MinSamples, n.at)
                                 <=> Sustained(Run({"warning"}), TriggerTime, MinSamples)')
          /\ x = "critical" => (LongAt(C, CriticalTriggerTime, CriticalMinSamples, n.at)
                                 <=> Sustained(Run({"critical"}), CriticalTriggerTime,
                                               CriticalMinSamples)')
      BY <3>1 DEF LongAt, Sustained
    <3>7. x # "none" /\ SustainedBreach(x)' <=> LongBreach(x, W, C, n.at)
      BY <3>3, <3>6 DEF SustainedBreach, LongBreach, Sustained
    <3>8. r.transition = "open" =>
             /\ out'.startedAt = Opened(seen, n).since
             /\ out'.triggerSamples = Opened(seen, n).samples
      BY <2>1 DEF EvaluatedAs
    <3>9. x # "none" => Counts(Opened(seen, n), run)
      BY <2>1, <3>1, <3>3, OpenedCounts
    <3>10. r.transition = "open" => x # "none"
      BY <3>4 DEF LongBreach
    <3>11. r.transition = "open" =>
              /\ out'.triggerSamples = Cardinality(run)
              /\ \E b \in run : b.at = out'.startedAt
              /\ \A b \in run : b.at >= out'.startedAt
      BY <3>8, <3>9, <3>10 DEF Counts
    <3> HIDE DEF x, run, W, C, R
    <3>12. /\ out'.transition = "open" <=> x # "none" /\ SustainedBreach(x)'
           /\ out'.transition = "open" =>
                 /\ st'.severity = x
                 /\ out'.triggerSamples = Cardinality(run)
                 /\ \E b \in run : b.at = out'.startedAt
                 /\ \A b \in run : b.at >= out'.startedAt
      BY <3>1, <3>4, <3>5, <3>7, <3>11
    <3> QED BY <3>2, <3>12 DEF OpensExactlyWhenSustained, x, run
  <2>2. CASE out' = NoEvaluation
    BY <2>2 DEF NoEvaluation, OpensExactlyWhenSustained, EvaluatedInNoEvent
  <2>3. CASE UNCHANGED vars
    <3>1. /\ \A bands : Run(bands)' = Run(bands)
          /\ Latest' = Latest /\ st' = st /\ out' = out
      BY <2>3, HistoryKept DEF vars
    <3>2. \A x : SustainedBreach(x)' <=> SustainedBreach(x)
      BY <3>1 DEF SustainedBreach, Sustained
    <3> QED BY <3>1, <3>2 DEF OpensExactlyWhenSustained, EvaluatedInNoEvent
  <2>4. ASSUME NEW n, NEW seen, NEW r, EvaluatedAs(n, seen, r)
        PROVE  OpensExactlyWhenSustained'
    BY <2>1, <2>4 DEF OpensExactlyWhenSustained
  <2> QED BY <2>2, <2>3, <2>4, StepIs
<1> QED BY <1>1, <1>2, HistoryHolds, PTL DEF Spec

\* For every rule, an event closes exactly when its samples have stayed at or below the recovery
\* threshold for the recovery time and count, without a gap, and never on the first of them.
THEOREM ClosesWhenRecovered == Spec => []ClosesExactlyWhenRecovered
<1>1. Init => ClosesExactlyWhenRecovered
  BY DEF Init, NoEvaluation, ClosesExactlyWhenRecovered, EvaluatedInEvent
<1>2. HistoryInv /\ ClosesExactlyWhenRecovered /\ [Next]_vars => ClosesExactlyWhenRecovered'
  <2> SUFFICES ASSUME HistoryInv, ClosesExactlyWhenRecovered, [Next]_vars
               PROVE  ClosesExactlyWhenRecovered'
    OBVIOUS
  <2>1. ASSUME NEW n, NEW seen, NEW r, EvaluatedAs(n, seen, r)
        PROVE  ClosesExactlyWhenRecovered'
    <3> DEFINE R == Run({"recovery"})'
    <3>1. /\ EvaluatedInEvent' => InEvent(seen)
          /\ st'.lastSample = n.at /\ out'.transition = r.transition
      BY <2>1 DEF EvaluatedAs, EvaluatedInEvent
    <3>2. InEvent(seen) => (r.transition = "close" <=>
             LongAt(R, RecoveryTime, RecoveryMinSamples, n.at) /\ Cardinality(R) >= 2)
      BY <2>1, RunsStay DEF Decided
    <3> QED BY <3>1, <3>2 DEF ClosesExactlyWhenRecovered, Sustained, LongAt
  <2>2. CASE out' = NoEvaluation
    BY <2>2 DEF NoEvaluation, ClosesExactlyWhenRecovered, EvaluatedInEvent
  <2>3. CASE UNCHANGED vars
    <3>1. \A bands : Run(bands)' = Run(bands)
      BY <2>3, HistoryKept
    <3> QED BY <2>3, <3>1 DEF vars, ClosesExactlyWhenRecovered, EvaluatedInEvent, Sustained
  <2> QED BY <2>1, <2>2, <2>3, StepIs
<1> QED BY <1>1, <1>2, HistoryHolds, PTL DEF Spec

\* For every rule, a sustained critical breach leaves no event a warning: the critical candidate
\* never counts fewer samples, nor a later start, than the trailing critical run.
THEOREM CriticalIsEscalated == Spec => []SustainedCriticalIsEscalated
<1>1. Init => SustainedCriticalIsEscalated
  BY DEF Init, NoEvaluation, SustainedCriticalIsEscalated, EvaluatedInEvent
<1>2. HistoryInv /\ SustainedCriticalIsEscalated /\ [Next]_vars => SustainedCriticalIsEscalated'
  <2> SUFFICES ASSUME HistoryInv, SustainedCriticalIsEscalated, [Next]_vars
               PROVE  SustainedCriticalIsEscalated'
    OBVIOUS
  <2>1. ASSUME NEW n, NEW seen, NEW r, EvaluatedAs(n, seen, r)
        PROVE  SustainedCriticalIsEscalated'
    <3> DEFINE C == Run({"critical"})'
    <3>1. /\ EvaluatedInEvent' => InEvent(seen)
          /\ st'.lastSample = n.at /\ st'.severity = Kept(r).severity
      BY <2>1 DEF EvaluatedAs, EvaluatedInEvent, SameCandidates
    <3>2. /\ InEvent(seen) /\ LongAt(C, CriticalTriggerTime, CriticalMinSamples, n.at) =>
                r.state.severity = "critical"
          /\ r.transition = "close" => C = {}
      BY <2>1, RunsStay DEF Decided
    <3>3. SustainedBreach("critical")' => LongAt(C, CriticalTriggerTime, CriticalMinSamples, n.at)
      BY <3>1 DEF SustainedBreach, Sustained, LongAt
    <3> HIDE DEF C
    <3> QED BY <3>1, <3>2, <3>3, NeverLong DEF SustainedCriticalIsEscalated, Kept
  <2>2. CASE out' = NoEvaluation
    BY <2>2 DEF NoEvaluation, SustainedCriticalIsEscalated, EvaluatedInEvent
  <2>3. CASE UNCHANGED vars
    <3>1. \A bands : Run(bands)' = Run(bands)
      BY <2>3, HistoryKept
    <3> QED BY <2>3, <3>1 DEF vars, SustainedCriticalIsEscalated, EvaluatedInEvent,
            SustainedBreach, Sustained
  <2> QED BY <2>1, <2>2, <2>3, StepIs
<1> QED BY <1>1, <1>2, HistoryHolds, PTL DEF Spec

\* For every rule, what the state says of an open event (its peak, and the critical breach under
\* way) is what the samples were.
THEOREM EventIsFaithful == Spec => []OpenEventIsFaithful
<1>1. HistoryInv => OpenEventIsFaithful
  BY DEF HistoryInv, PeaksAgree, PeakOf, CriticalAgrees, CriticalFaithful, OpenEventIsFaithful
<1> QED BY <1>1, HistoryHolds, PTL
=============================================================================
