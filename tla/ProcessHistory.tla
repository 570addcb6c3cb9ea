--------------------------- MODULE ProcessHistory ---------------------------
(***************************************************************************)
(* The process collector and the storage of what it collects: which        *)
(* processes an anomaly event is explained by.  Batches reach the storage  *)
(* in the order of their cycles and under their time stamps, so the        *)
(* channel between them (Runtime) is left out.                             *)
(***************************************************************************)
EXTENDS ProcessCollector, ProcessEvidence

ASSUME HistoryAssumption ==
    /\ FreshFor = 2 * Interval
    /\ EventTopN <= TopCpu              \* as the configuration is validated

VARIABLES
    deltas,     \* the network deltas of the collection that ended last, by process id
    moved       \* history: what a pid's present process transferred since nettop listed it

historyVars == <<machine, clock, collector, storage, deltas, moved>>

Never == -1

HistoryTypeOK ==
    /\ CollectorTypeOK
    /\ \A s \in samples : s \in [time : Times, pid : Pids, start : 0 .. MaxStarts,
                                 cpu : 0 .. TopCpu, network : 0 .. TopNetwork]
    /\ event \in [dimension : Dimensions, detected : Times] \cup {NoEvent}
    /\ \A r \in evidence : r.kind \in {"trigger", "prelude", "checkpoint"} /\ r.sample \in samples
    /\ DOMAIN deltas \subseteq Pids /\ \A p \in DOMAIN deltas : deltas[p] \in 0 .. MaxBytes
    /\ moved \in [Pids -> 0 .. MaxBytes \cup {Never}]

HistoryInit ==
    /\ CollectorInit
    /\ EvidenceInit
    /\ deltas = NoDeltas
    /\ moved = [p \in Pids |-> Never]

MachineStep(p) ==
    /\ \/ Transfer(p) /\ moved' = [moved EXCEPT ![p] = IF @ = Never THEN @ ELSE @ + 1]
       \/ ReusePid(p) /\ moved' = [moved EXCEPT ![p] = Never]
    /\ UNCHANGED <<clock, collector, storage, deltas>>

MetricsOnly ==
    /\ MetricsCycle(CycleStart) \/ RefreshFails(CycleStart)
    /\ StoreBatch(now', {})
    /\ UNCHANGED <<deltas, moved>>

BeginCollection ==
    /\ RefreshProcesses
    /\ deltas' = NoDeltas
    /\ UNCHANGED <<storage, moved>>

CollectsWithNetwork(duration, cpu, listed) ==
    /\ FinishCollection(duration)
    /\ NettopAnswers(listed)
    /\ deltas' = NetworkDeltas(Totals(listed))
    /\ moved' = [p \in Pids |-> IF p \in listed /\ candidates[p] = start[p] THEN 0 ELSE Never]
    /\ StoreBatch(now, Snapshot(cpu, deltas'))

CollectsWithoutNetwork(duration, cpu) ==
    /\ FinishCollection(duration)
    /\ NettopFails
    /\ deltas' = NoDeltas
    /\ StoreBatch(now, Snapshot(cpu, NoDeltas))
    /\ UNCHANGED moved

HistoryNext ==
    \/ \E p \in Active : MachineStep(p)
    \/ MetricsOnly
    \/ BeginCollection
    \/ \E duration \in Durations, cpu \in Usages :
          \/ \E listed \in SUBSET Pids : CollectsWithNetwork(duration, cpu, listed)
          \/ CollectsWithoutNetwork(duration, cpu)

HistorySpec == HistoryInit /\ [][HistoryNext]_historyVars

----------------------------------------------------------------------------
(* Properties. *)

\* A collection ends, and it was the same process at both looks.
ChargedForItself(p) ==
    collecting /\ ~collecting' /\ candidates[p] = start[p] =>
        IF p \in DOMAIN deltas' THEN deltas'[p] = moved[p]
        ELSE moved[p] # Never /\ network_io' = "available" => p \notin DOMAIN previous'

\* domain-models.md:216: network totals are joined by pid and protected against pid reuse.  What
\* a process is charged with is what it has itself transferred since nettop last listed it, and
\* it is charged whenever nettop has listed it twice: whatever failed in between, and whoever
\* had the pid before.  (Only a pid that changes hands between the two looks is left out.)
DeltasBelongToTheirProcess == [][\A p \in Pids : ChargedForItself(p)]_historyVars

\* The newest snapshot when the event was detected.
Trigger == LatestSnapshot(samples, event.detected)

ExplainedBy(s) == [kind |-> "trigger", sample |-> s] \in evidence

\* The cut spares a rank if the snapshot has room for all ranks up to it, of each dimension.
\* (The default is 40 samples for six dimensions; config.rs takes any number from 1 to 100.)
Spared(n) == n * Cardinality(Dimensions) <= MaxSnapshot

\* The newest snapshot is too old for the event only if a refresh has failed since, or its
\* own collection took longer than an interval (so that the next one came late).  If it is
\* not too old, the event has every process of it that ranks high enough in the event's
\* dimension, copied before the prelude can fill the cap; and by the CPU, which every process
\* has, no rank is missing that the cut of a snapshot spares.
EventsAreExplained ==
    event # NoEvent /\ Upto(samples, event.detected) # {} =>
        \/ /\ event.detected - Trigger > FreshFor
           /\ Trigger \in slow \/ \E t \in failed : Trigger < t /\ t <= event.detected
        \/ /\ \A s \in samples :
                 s.time = Trigger /\ RanksIn(event.dimension, s) => ExplainedBy(s)
           /\ event.dimension = "cpu" =>
                 \A n \in 1 .. EventTopN :
                     Spared(n) /\ n <= Cardinality(Pids) =>
                         \E s \in samples : s.cpu = n /\ ExplainedBy(s)

\* Nothing is copied beyond the cap, and what the cap leaves out of the prelude is its oldest.
NewestEvidenceIsKept ==
    /\ Cardinality(evidence) <= MaxRows
    /\ \A r \in evidence : r.kind = "prelude" =>
          \A s \in samples :
              r.sample.time < s.time /\ s.time < Trigger /\ RanksIn(event.dimension, s) =>
                  [kind |-> "prelude", sample |-> s] \in evidence
=============================================================================
