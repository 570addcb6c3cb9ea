-------------------------- MODULE AnomalyDetector --------------------------
(***************************************************************************)
(* One rule watching one resource, as AnomalyEngine::evaluate_metric and   *)
(* attach_event drive it: samples arrive with any time stamp and any value *)
(* and the engine opens, escalates and closes one event after another.     *)
(*                                                                         *)
(* The engine decides incrementally, from counters and since-times.  The   *)
(* properties say what those decisions mean in terms of the samples that   *)
(* were really seen, which the history variable `accepted` keeps.          *)
(***************************************************************************)
EXTENDS AnomalyRule, FiniteSets

CONSTANTS
    Values,     \* the metric values that occur
    MaxTime,    \* bound: no sample is stamped later
    MaxStep     \* bound: nor later than this after the last accepted one

ASSUME DetectorAssumption ==
    /\ Values \subseteq Nat
    /\ MaxTime \in Nat
    /\ MaxStep \in Nat

VARIABLES
    st,         \* the RuleState
    out,        \* what the latest sample decided, or NoEvaluation
    events,     \* how many events have been opened; event ids are handed out in order
    accepted,   \* history: the samples evaluated so far
    opening     \* history: when the latest event was opened, and its started_at

vars == <<st, out, events, accepted, opening>>

\* The part of an Evaluation that the properties read.
Decision(e) ==
    [transition |-> e.transition, event |-> e.event,
     startedAt |-> e.startedAt, triggerSamples |-> e.triggerSamples]
NoEvaluation ==
    [transition |-> "ignored", event |-> None, startedAt |-> None, triggerSamples |-> 0]

Sample == [at : Nat \ {0}, value : Nat]

Init ==
    /\ st = DefaultState
    /\ out = NoEvaluation
    /\ events = 0
    /\ accepted = {}
    /\ opening = [at |-> None, startedAt |-> None]

\* What becomes of the state once the store has numbered an opened event.
Attached(e, t) ==
    IF e.transition = "open" THEN AttachEvent(e.next, events + 1, t) ELSE e.next

EvaluateSample(t, v) ==
    LET e == Evaluate(st, t, v)
        opens == e.transition = "open"
    IN  /\ Accepts(st, t)
        /\ st' = Attached(e, t)
        /\ out' = Decision(e)
        /\ events' = IF opens THEN events + 1 ELSE events
        /\ accepted' = accepted \cup {[at |-> t, value |-> v]}
        /\ opening' = IF opens THEN [at |-> t, startedAt |-> e.startedAt] ELSE opening

\* A sample no newer than the last one evaluated is dropped.
IgnoreStaleSample(t) ==
    /\ ~Accepts(st, t)
    /\ out' = NoEvaluation
    /\ UNCHANGED <<st, events, accepted, opening>>

Next ==
    \E t \in 1 .. MaxTime :
        /\ t <= st.lastSample + MaxStep
        /\ \/ \E v \in Values : EvaluateSample(t, v)
           \/ IgnoreStaleSample(t)

Spec == Init /\ [][Next]_vars

----------------------------------------------------------------------------
(* Reading the history. *)

Band(v) ==
    IF v <= RecoveryThreshold THEN "recovery"
    ELSE IF v < WarningThreshold THEN "between"
    ELSE IF v < CriticalThreshold THEN "warning"
    ELSE "critical"

\* The sample a came too long after the one before it (or is the first).
FollowsGap(a) ==
    ~\E b \in accepted : b.at < a.at /\ a.at - b.at <= MaxSampleGap

\* The trailing run: the samples since which all lie in one of the bands, without a gap.
Run(bands) ==
    {a \in accepted : \A b \in accepted :
        b.at >= a.at => /\ Band(b.value) \in bands
                        /\ b.at > a.at => ~FollowsGap(b)}

\* The run has the required length and duration, now being the latest sample's time.
Sustained(run, duration, minSamples) ==
    /\ Cardinality(run) >= minSamples
    /\ \E a \in run : st.lastSample - a.at >= duration

SustainedBreach(severity) ==
    /\ severity = "warning" => Sustained(Run({"warning"}), TriggerTime, MinSamples)
    /\ severity = "critical" =>
          Sustained(Run({"critical"}), CriticalTriggerTime, CriticalMinSamples)

Latest == {a \in accepted : a.at = st.lastSample}
EvaluatedInNoEvent == out.transition # "ignored" /\ out.event = None
EvaluatedInEvent == out.transition # "ignored" /\ out.event # None

----------------------------------------------------------------------------
(* Properties. *)

\* Type correctness of the state, the outcome and the history.
TypeOK ==
    /\ st \in RuleState
    /\ events \in Nat
    /\ accepted \subseteq Sample
    /\ opening \in [at : Nat, startedAt : Nat]
    /\ out \in [transition : Transition \cup {"ignored"}, event : Nat,
                startedAt : Nat, triggerSamples : Nat]

\* The phase, the candidates, the severity and the event id never contradict each other,
\* through every reset, gap, opening and closing.
PhaseConsistent == Consistent(st)

\* An event opens exactly when the trailing run of samples of one severity has lasted for
\* that severity's trigger time and minimum count: never earlier, never missed, whatever
\* resets, severity changes and gaps came before.  Its started_at and its sample count are
\* the first sample and the length of that run.
OpensExactlyWhenSustained ==
    EvaluatedInNoEvent =>
        \A a \in Latest :
            LET severity == BreachedSeverity(a.value)
                run == Run({severity})
            IN  /\ out.transition = "open" <=>
                      severity # "none" /\ SustainedBreach(severity)
                /\ out.transition = "open" =>
                      /\ st.severity = severity
                      /\ out.triggerSamples = Cardinality(run)
                      /\ \E b \in run : b.at = out.startedAt
                      /\ \A b \in run : b.at >= out.startedAt

\* An event closes exactly when the samples at or below the recovery threshold have lasted,
\* with no gap and no sample above it in between, for the recovery time and count; and never
\* on its first such sample.  (This is what the code does.  domain-models.md says that values
\* between the recovery and the warning threshold neither recover nor reopen an event; in
\* the code such a value returns a recovering event to open, anomaly.rs:421-424.)
ClosesExactlyWhenRecovered ==
    EvaluatedInEvent =>
        (out.transition = "close" <=>
            /\ Sustained(Run({"recovery"}), RecoveryTime, RecoveryMinSamples)
            /\ Cardinality(Run({"recovery"})) >= 2)

\* An open event never stays a warning through a sustained critical breach.
SustainedCriticalIsEscalated ==
    EvaluatedInEvent /\ SustainedBreach("critical") => st.severity = "critical"

\* domain-models.md's rule for a candidate: an escalation follows a critical breach that was
\* sustained for the trigger time and count.  (The code refutes it: a dip to the recovery
\* threshold leaves the critical candidate as it was.)
EscalatesOnlyWhenSustained ==
    out.transition = "escalate" => SustainedBreach("critical")

\* What the state says of an open event is what the samples were, through gaps, recoveries
\* and escalations.  Its peak is a sample that no sample since its start exceeds; and its
\* critical candidate counts the critical samples from its since on, the first of them
\* after the opening, with no gap and no warning-band sample in between.
OpenEventIsFaithful ==
    /\ InEvent(st) =>
          /\ \E a \in accepted : a.at = st.peakAt /\ a.value = st.peak
          /\ \A a \in accepted : a.at >= opening.startedAt => a.value <= st.peak
    /\ st.critical # NoCandidate =>
          LET since == {a \in accepted : a.at >= st.critical.since}
          IN  /\ st.critical.since > opening.at
              /\ \E a \in since : a.at = st.critical.since /\ Band(a.value) = "critical"
              /\ \A a \in since : Band(a.value) # "warning"
              /\ \A a \in since : a.at > st.critical.since => ~FollowsGap(a)
              /\ st.critical.samples = Cardinality({a \in since : Band(a.value) = "critical"})
=============================================================================
