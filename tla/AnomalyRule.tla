---------------------------- MODULE AnomalyRule ----------------------------
(***************************************************************************)
(* The detection algorithm of src/anomaly.rs: what one sample does to the  *)
(* state that the engine keeps for one rule and one resource.              *)
(*                                                                         *)
(* A RuleState is a record.  A candidate is the pair (since, samples) the  *)
(* code keeps for a pending opening, a pending escalation and a pending    *)
(* recovery; the two fields are always set and cleared together, so the    *)
(* code's None is NoCandidate.  Sample times, values and event ids are     *)
(* positive, and 0 stands for the None of the other optional fields.       *)
(* last_value is written and never read by the engine, and is left out.    *)
(***************************************************************************)
EXTENDS Integers

CONSTANTS
    RecoveryThreshold, WarningThreshold, CriticalThreshold,
    TriggerTime, MinSamples,                  \* to open as a warning
    CriticalTriggerTime, CriticalMinSamples,  \* to open as, or escalate to, critical
    RecoveryTime, RecoveryMinSamples,         \* to close
    MaxSampleGap,
    EvidenceInterval

\* AppConfig::validate refuses every other rule.
ASSUME RuleAssumption ==
    /\ RecoveryThreshold \in Nat /\ WarningThreshold \in Nat /\ CriticalThreshold \in Nat
    /\ RecoveryThreshold < WarningThreshold
    /\ WarningThreshold <= CriticalThreshold
    /\ TriggerTime \in Nat /\ CriticalTriggerTime \in Nat /\ RecoveryTime \in Nat
    /\ MinSamples \in Nat \ {0} /\ CriticalMinSamples \in Nat \ {0}
    /\ RecoveryMinSamples \in Nat \ {0}
    /\ MaxSampleGap \in Nat \ {0}
    /\ EvidenceInterval \in Nat \ {0}

None == 0

Phase == {"normal", "pending", "open", "recovering"}
Severity == {"warning", "critical"}
Transition == {"none", "open", "escalate", "close"}

CandidateState == [since : Nat, samples : Nat]
NoCandidate == [since |-> None, samples |-> 0]
NewCandidate(t) == [since |-> t, samples |-> 1]
ExtendCandidate(c) == [c EXCEPT !.samples = @ + 1]

RuleState ==
    [phase : Phase, severity : Severity \cup {"none"},
     pendingSeverity : Severity \cup {"none"},
     pending : CandidateState, critical : CandidateState, recovery : CandidateState,
     event : Nat, lastSample : Nat, peak : Nat, peakAt : Nat,
     lastEvidence : Nat, gaps : Nat]

DefaultState ==
    [phase |-> "normal", severity |-> "none", pendingSeverity |-> "none",
     pending |-> NoCandidate, critical |-> NoCandidate, recovery |-> NoCandidate,
     event |-> None, lastSample |-> None, peak |-> None, peakAt |-> None,
     lastEvidence |-> None, gaps |-> 0]

\* reset_to_normal keeps only the last sample.
ResetToNormal(s) == [DefaultState EXCEPT !.lastSample = s.lastSample]

\* The code's assignments to one candidate, to the phase and to the severities.
WithPhase(s, phase) == [s EXCEPT !.phase = phase]
WithSeverity(s, severity) == [s EXCEPT !.severity = severity]
WithPendingSeverity(s, severity) == [s EXCEPT !.pendingSeverity = severity]
WithPending(s, c) == [s EXCEPT !.pending = c]
WithCritical(s, c) == [s EXCEPT !.critical = c]
WithRecovery(s, c) == [s EXCEPT !.recovery = c]
WithPeak(s, t, v) == [[s EXCEPT !.peak = v] EXCEPT !.peakAt = t]

\* Slip: the candidate outlives its severity.
ClearPending_SeverityOnly(s) == WithPendingSeverity(s, "none")

ClearPending(s) == WithPending(WithPendingSeverity(s, "none"), NoCandidate)
ClearCritical(s) == WithCritical(s, NoCandidate)
ClearRecovery(s) == WithRecovery(s, NoCandidate)

----------------------------------------------------------------------------
(* Thresholds and maturity. *)

BreachedSeverity(v) ==
    IF v >= CriticalThreshold THEN "critical"
    ELSE IF v >= WarningThreshold THEN "warning"
    ELSE "none"

\* Slip: the duration must be exceeded.
Matured_Strictly(c, duration, minSamples, t) ==
    /\ c # NoCandidate
    /\ c.samples >= minSamples
    /\ t - c.since > duration

Matured(c, duration, minSamples, t) ==
    /\ c # NoCandidate
    /\ c.samples >= minSamples
    /\ t - c.since >= duration

CandidateMatured(s, t) ==
    \/ /\ s.pendingSeverity = "warning"
       /\ Matured(s.pending, TriggerTime, MinSamples, t)
    \/ /\ s.pendingSeverity = "critical"
       /\ Matured(s.pending, CriticalTriggerTime, CriticalMinSamples, t)

----------------------------------------------------------------------------
(* Before the phase is looked at: the data gap, then the running peak. *)

InEvent(s) == s.phase \in {"open", "recovering"}

DataGap(s, t) == s.lastSample # None /\ t - s.lastSample > MaxSampleGap

CountGap(s) == [s EXCEPT !.gaps = @ + 1]

\* Slips: a gap leaves an event's critical candidate as it was; or a recovery as it was; or
\* it takes a gap back instead of counting it.
AfterGap_KeepsCritical(s, t) ==
    IF ~DataGap(s, t) \/ s.phase = "normal" THEN s
    ELSE IF s.phase = "pending" THEN ResetToNormal(s)
    ELSE CountGap(WithPhase(ClearRecovery(s), "open"))
AfterGap_KeepsRecovery(s, t) ==
    IF ~DataGap(s, t) \/ s.phase = "normal" THEN s
    ELSE IF s.phase = "pending" THEN ResetToNormal(s)
    ELSE CountGap(ClearCritical(s))
AfterGap_CountsDown(s, t) ==
    IF ~DataGap(s, t) \/ s.phase = "normal" THEN s
    ELSE IF s.phase = "pending" THEN ResetToNormal(s)
    ELSE [WithPhase(ClearRecovery(ClearCritical(s)), "open") EXCEPT !.gaps = @ - 1]

\* A gap drops a pending opening; an event survives it, its candidates do not.
AfterGap(s, t) ==
    IF ~DataGap(s, t) \/ s.phase = "normal" THEN s
    ELSE IF s.phase = "pending" THEN ResetToNormal(s)
    ELSE CountGap(WithPhase(ClearRecovery(ClearCritical(s)), "open"))

WithLast(s, t) == [s EXCEPT !.lastSample = t]

\* Slip: the peak is tracked only once the event is open.
WithSample_PeakInEvent(s, t, v) ==
    IF InEvent(s) /\ v > s.peak THEN WithPeak(WithLast(s, t), t, v) ELSE WithLast(s, t)

WithSample(s, t, v) ==
    IF s.phase # "normal" /\ v > s.peak
      THEN WithPeak(WithLast(s, t), t, v)
      ELSE WithLast(s, t)

----------------------------------------------------------------------------
(* One operator per phase.  Each returns the state and the transition. *)

Outcome(s, transition) == [state |-> s, transition |-> transition]

\* candidate_matured after begin_pending and in continue_pending: both open at once.
OpenIfMatured(s, t) ==
    IF CandidateMatured(s, t)
      THEN Outcome(ClearPending(WithSeverity(WithPhase(s, "open"), s.pendingSeverity)), "open")
      ELSE Outcome(s, "none")

Pend(s, severity, t) ==
    WithPending(WithPendingSeverity(WithPhase(s, "pending"), severity), NewCandidate(t))

BeginPendingOrStayNormal(s, t, v) ==
    IF BreachedSeverity(v) = "none"
      THEN Outcome(s, "none")
      ELSE OpenIfMatured(WithPeak(Pend(s, BreachedSeverity(v), t), t, v), t)

\* Slip: a change of severity keeps the candidate running.
ContinuePending_NoRestart(s, t, v) ==
    IF BreachedSeverity(v) = "none"
      THEN Outcome(ResetToNormal(s), "none")
      ELSE OpenIfMatured(WithPending(WithPendingSeverity(s, BreachedSeverity(v)),
                                     ExtendCandidate(s.pending)), t)

\* A change of severity restarts the candidate.
ContinuePending(s, t, v) ==
    IF BreachedSeverity(v) = "none" THEN Outcome(ResetToNormal(s), "none")
    ELSE IF BreachedSeverity(v) # s.pendingSeverity
         THEN OpenIfMatured(Pend(s, BreachedSeverity(v), t), t)
    ELSE OpenIfMatured(WithPending(s, ExtendCandidate(s.pending)), t)

\* The critical candidate of an open warning, one sample further.
NextCritical(s, t) ==
    IF s.critical = NoCandidate THEN NewCandidate(t) ELSE ExtendCandidate(s.critical)

ContinueOpen(s, t, v) ==
    LET quiet == ClearRecovery(s)
    IN  IF v <= RecoveryThreshold
          THEN Outcome(WithRecovery(WithPhase(s, "recovering"), NewCandidate(t)), "none")
        ELSE IF s.severity # "warning" \/ v < CriticalThreshold
          THEN Outcome(ClearCritical(quiet), "none")
        ELSE IF Matured(NextCritical(s, t), CriticalTriggerTime, CriticalMinSamples, t)
          THEN Outcome(ClearCritical(WithSeverity(quiet, "critical")), "escalate")
        ELSE Outcome(WithCritical(quiet, NextCritical(s, t)), "none")

\* A sample between the thresholds returns a recovering event to open, as one at or above
\* the warning threshold does: the recovery starts anew.
ContinueRecovering(s, t, v) ==
    LET reopened == ClearRecovery(WithPhase(s, "open"))
        longer == WithRecovery(s, ExtendCandidate(s.recovery))
    IN  IF v >= WarningThreshold THEN ContinueOpen(reopened, t, v)
        ELSE IF v > RecoveryThreshold THEN Outcome(reopened, "none")
        ELSE IF Matured(longer.recovery, RecoveryTime, RecoveryMinSamples, t)
          THEN Outcome(longer, "close")
        ELSE Outcome(longer, "none")

Dispatch(s, t, v) ==
    IF s.phase = "normal" THEN BeginPendingOrStayNormal(s, t, v)
    ELSE IF s.phase = "pending" THEN ContinuePending(s, t, v)
    ELSE IF s.phase = "open" THEN ContinueOpen(s, t, v)
    ELSE ContinueRecovering(s, t, v)

----------------------------------------------------------------------------
(* evaluate_metric on a sample newer than the last one. *)

Accepts(s, t) == t > s.lastSample

EvidenceDue(s, t) == s.lastEvidence = None \/ t - s.lastEvidence >= EvidenceInterval

WithEvidence(s, t) == [s EXCEPT !.lastEvidence = t]

\* The state the engine keeps (next), and the Evaluation it hands to the store:
\* the state as of this sample, before a closing resets it.
Evaluate(s, t, v) ==
    LET seen == WithSample(AfterGap(s, t), t, v)
        result == Dispatch(seen, t, v)
        closing == result.transition = "close"
        periodic == s.event # None /\ ~closing /\ EvidenceDue(s, t)
        final == IF periodic THEN WithEvidence(result.state, t) ELSE result.state
        \* pending_since and pending_samples of the candidate that matured
        candidate == IF result.transition # "open" THEN NoCandidate
                     ELSE IF seen.phase = "pending"
                             /\ seen.pendingSeverity = BreachedSeverity(v)
                       THEN ExtendCandidate(seen.pending)
                     ELSE NewCandidate(t)
    IN  [next |-> IF closing THEN ResetToNormal(final) ELSE final,
         state |-> final,
         transition |-> result.transition,
         event |-> s.event,
         startedAt |-> candidate.since,
         triggerSamples |-> candidate.samples,
         newPeak |-> s.event # None /\ final.peak # s.peak,
         periodic |-> periodic,
         dataGap |-> DataGap(s, t)]

\* The optional fields agree with the phase, which no type of the code enforces: a
\* candidate exists exactly in the phase that counts it, a severity exactly in an event, a
\* critical candidate only while the event is a warning, and normal keeps nothing.
CandidatesAgree(s) ==
    /\ s.phase = "normal" =>
          s.peak = None /\ s.peakAt = None /\ s.lastEvidence = None /\ s.gaps = 0
    /\ s.pending.samples = 0 <=> s.pending.since = None
    /\ s.critical.samples = 0 <=> s.critical.since = None
    /\ s.recovery.samples = 0 <=> s.recovery.since = None
    /\ s.phase = "pending" <=> s.pendingSeverity # "none"
    /\ s.phase = "pending" <=> s.pending.samples # 0
    /\ s.phase = "recovering" <=> s.recovery.samples # 0
    /\ InEvent(s) <=> s.severity # "none"
    /\ s.critical.samples # 0 => InEvent(s) /\ s.severity = "warning"

\* A state at rest between samples also knows the event it is in.
Consistent(s) ==
    /\ CandidatesAgree(s)
    /\ InEvent(s) <=> s.event # None

\* The store gives an opened event its id; its opening counts as evidence.
AttachEvent(s, id, detectedAt) == WithEvidence([s EXCEPT !.event = id], detectedAt)
=============================================================================
