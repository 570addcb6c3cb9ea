-------------------------- MODULE ProcessCollector --------------------------
(***************************************************************************)
(* The process collector of src/collector/process.rs among the ticks of    *)
(* src/runtime.rs: when it collects, what it keeps of the network counters *)
(* from one collection to the next, and which processes it ranks.          *)
(*                                                                         *)
(* A collection takes two looks at the machine: the process list first,    *)
(* the network counters by process id later.  What happens in between is   *)
(* up to the operating system.  Of the six rankings two are modelled: one  *)
(* that every process has (by CPU, as by memory and disk), and one that    *)
(* only processes with a network delta have.  A rate is its delta divided  *)
(* by an elapsed time that all processes share, so it ranks like the delta.*)
(***************************************************************************)
EXTENDS Integers, FiniteSets

CONSTANTS
    Pids,           \* process ids, compared as numbers
    Period,         \* interval_seconds: between two ticks
    Interval,       \* process.interval_seconds: between two collections
    TopCpu, TopNetwork,
    MaxSnapshot,    \* max_snapshot_processes
    Durations,      \* bound: how long a collection may take
    MaxDuration,    \* bound: the longest of them
    Active,         \* bound: the processes that transfer, end, or are missing from nettop's list
    MaxStarts,      \* bound: how often a process id passes on
    MaxBytes,       \* bound: transfers of a process
    MaxFailures,    \* bound: process refreshes that fail
    MaxTime         \* bound: the clock stops here

ASSUME CollectorAssumption ==
    /\ Pids \subseteq Nat /\ IsFiniteSet(Pids) /\ Pids # {}
    /\ Period \in Nat \ {0} /\ Interval \in Nat \ {0}
    /\ Active \subseteq Pids
    /\ TopCpu \in Nat \ {0} /\ TopNetwork \in Nat \ {0} /\ MaxSnapshot \in Nat \ {0}
    /\ MaxDuration \in Nat /\ MaxTime \in Nat /\ Durations \subseteq 0 .. MaxDuration
    /\ MaxStarts \in Nat /\ MaxBytes \in Nat /\ MaxFailures \in Nat

VARIABLES
    now,            \* the clock
    due,            \* the interval's next tick
    collecting,     \* the process list has been read, the counters have not
    candidates,     \* while collecting: the start of each process when the list was read
    last,           \* last_collection
    warmed_up,
    previous,       \* previous_network: by pid, with the start it was recorded under
    network_io,     \* the state of the capability process.network_io
    start,          \* operating system: the start of the process that has the pid now
    counter,        \* operating system: what it has transferred
    failed,         \* history: when process refreshes failed
    slow            \* history: the cycles whose collection took longer than an interval

machine == <<start, counter>>
clock == <<now, due>>
collector == <<collecting, candidates, last, warmed_up, previous, network_io, failed, slow>>

Times == 0 .. MaxTime + MaxDuration
None == -1

CollectorTypeOK ==
    /\ now \in Times /\ due \in Nat
    /\ collecting \in BOOLEAN /\ warmed_up \in BOOLEAN
    /\ candidates \in [Pids -> 0 .. MaxStarts]
    /\ last \in Times \cup {None}
    /\ network_io \in {"unknown", "available", "degraded"}
    /\ DOMAIN previous \subseteq Pids
    /\ \A p \in DOMAIN previous : previous[p] \in [start : 0 .. MaxStarts, total : 0 .. MaxBytes]
    /\ start \in [Pids -> 0 .. MaxStarts]
    /\ counter \in [Pids -> 0 .. MaxBytes]
    /\ failed \subseteq Times /\ slow \subseteq Times

NoCandidates == [p \in Pids |-> 0]

CollectorInit ==
    /\ now = 0 /\ due = 0
    /\ collecting = FALSE
    /\ start = [p \in Pids |-> 0] /\ counter = [p \in Pids |-> 0]
    /\ candidates = NoCandidates
    /\ last = None /\ warmed_up = FALSE
    /\ previous = [p \in {} |-> [start |-> 0, total |-> 0]]
    /\ network_io = "unknown"
    /\ failed = {} /\ slow = {}

----------------------------------------------------------------------------
(* The machine. *)

Transfer(p) ==
    /\ counter[p] < MaxBytes
    /\ counter' = [counter EXCEPT ![p] = @ + 1]
    /\ UNCHANGED start

\* The process ends, and a new one gets its id.
ReusePid(p) ==
    /\ start[p] < MaxStarts
    /\ start' = [start EXCEPT ![p] = @ + 1]
    /\ counter' = [counter EXCEPT ![p] = 0]

----------------------------------------------------------------------------
(* Ticks.  A late tick fires at once, and the next one is aligned again. *)

Later(a, b) == IF a >= b THEN a ELSE b

\* The time at which the next cycle begins, with the batch's time stamp.
CycleStart == Later(now, due)

TickAt(t) ==
    /\ t <= MaxTime
    /\ due' = (t \div Period + 1) * Period

\* The process collector has something to do in the cycle that begins at t.
IsDue(t) == last = None \/ t - last >= Interval

\* A cycle in which only metrics are collected.
MetricsCycle(t) ==
    /\ ~collecting /\ ~IsDue(t)
    /\ t = CycleStart /\ TickAt(t)
    /\ now' = t
    /\ UNCHANGED <<collector, machine>>

\* The refresh of the process list fails: the next cycle tries again.
RefreshFails(t) ==
    /\ ~collecting /\ IsDue(t)
    /\ t = CycleStart /\ TickAt(t)
    /\ Cardinality(failed) < MaxFailures
    /\ now' = t
    /\ failed' = failed \cup {t}
    /\ UNCHANGED <<collecting, candidates, last, warmed_up, previous, network_io, slow, machine>>

\* The process list is read, and nettop is started.
RefreshProcesses ==
    /\ ~collecting /\ IsDue(CycleStart)
    /\ TickAt(CycleStart)
    /\ now' = CycleStart
    /\ collecting' = TRUE
    /\ candidates' = start
    /\ UNCHANGED <<last, warmed_up, previous, network_io, failed, slow, machine>>

----------------------------------------------------------------------------
(* Network deltas. *)

\* The counters that nettop lists, by process id.
Totals(listed) == [p \in listed |-> counter[p]]

\* Slip: a counter is matched by the process id alone.
Recorded_ByPid(p) == p \in DOMAIN previous

\* Whether a counter of this very process is on record.
Recorded(p) == p \in DOMAIN previous /\ previous[p].start = candidates[p]

\* Slip: the subtraction does not saturate.
Less_Plain(a, b) == a - b

\* saturating_sub
Less(a, b) == IF a <= b THEN 0 ELSE a - b

\* apply_network_deltas
NetworkDeltas(totals) ==
    [p \in {q \in DOMAIN totals : Recorded(q)} |-> Less(totals[p], previous[p].total)]
NextPrevious(totals) == [p \in DOMAIN totals |-> [start |-> candidates[p], total |-> totals[p]]]

NoDeltas == [p \in {} |-> 0]

----------------------------------------------------------------------------
(* Rankings.  A sample is a process with the ranks it has; 0 is none. *)

\* rank_by: the highest value first, and of equals the lowest identity.
RankBy(value, p) ==
    1 + Cardinality({q \in DOMAIN value :
                        value[q] > value[p] \/ (value[q] = value[p] /\ q < p)})
Rank(value, p, limit) ==
    IF p \in DOMAIN value /\ RankBy(value, p) <= limit THEN RankBy(value, p) ELSE 0

Sample(t, p, cpu, deltas) ==
    [time |-> t, pid |-> p, start |-> candidates[p],
     cpu |-> Rank(cpu, p, TopCpu), network |-> Rank(deltas, p, TopNetwork)]
Ranked(t, cpu, deltas) ==
    {s \in {Sample(t, p, cpu, deltas) : p \in Pids} : s.cpu # 0 \/ s.network # 0}

BestRank(s) == IF s.cpu = 0 THEN s.network
               ELSE IF s.network = 0 \/ s.cpu <= s.network THEN s.cpu ELSE s.network

\* What sysinfo may report: only the order matters, so one process uses the CPU and the rest idle.
Usages == {[p \in Pids |-> IF p = busy THEN 1 ELSE 0] : busy \in Pids}

\* Slip: the union is cut in the order of the identities.
Before_ByPid(s, t) == s.pid < t.pid

\* The order in which the union of the rankings is cut.
Before(s, t) == BestRank(s) < BestRank(t) \/ (BestRank(s) = BestRank(t) /\ s.pid < t.pid)

\* rank_candidates
RankCandidates(t, cpu, deltas) ==
    LET union == Ranked(t, cpu, deltas)
    IN  {s \in union : Cardinality({r \in union : Before(r, s)}) < MaxSnapshot}

----------------------------------------------------------------------------
(* The rest of a collection.  t is the time stamp of its cycle. *)

\* nettop answers with the counters of some processes.
NettopAnswers(listed) ==
    /\ listed # {} /\ Pids \ Active \subseteq listed
    /\ previous' = NextPrevious(Totals(listed))
    /\ network_io' = "available"

\* It fails, times out or lists nothing: the capability is degraded.
NettopFails ==
    /\ network_io' = "degraded"
    /\ UNCHANGED previous

FinishCollection(duration) ==
    /\ collecting
    /\ collecting' = FALSE
    /\ candidates' = NoCandidates
    /\ now' = now + duration
    /\ last' = now'
    /\ slow' = IF duration > Interval THEN slow \cup {now} ELSE slow
    /\ warmed_up' = TRUE
    /\ UNCHANGED <<due, failed, machine>>

\* The first collection only sets the base line.
Snapshot(cpu, deltas) == IF warmed_up THEN RankCandidates(now, cpu, deltas) ELSE {}
=============================================================================
