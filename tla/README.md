# Simple Profiler: TLA+ specifications

Simple Profiler samples a machine's CPU, memory, disks, network and processes, stores the samples
in SQLite, detects sustained anomalies, rolls old samples up and deletes them, and shows the result
in reports and a local dashboard. This directory holds TLA+ models of the parts whose correctness
depends on state kept over time or on several actors, the TLC configurations that check them, and
the proofs that TLAPS checks. Paths below are relative to the repository (`src/...` is the Rust
crate's source directory).

    tlc -config AnomalyDetector.cfg AnomalyDetector.tla      # a run
    tlapm AnomalyDetectorProofs.tla                           # proofs; the other *Proofs.tla likewise

`PROJECT.json` lists the components, the runs, the mutants that show that a property can fail, the
source lines behind every definition, the hazards and the theorems.

## Inventory

| Component | State | Operations | Interacts with | Hard behaviour |
|---|---|---|---|---|
| Runtime (`runtime.rs`) | loop position, sample count, channel | tick, collect, send, stop, join | collectors (calls), writer (channel, join), signal, instance lock | backpressure while a signal waits, early returns, order of drop and join |
| Writer task (`storage.rs: spawn_writer`) | SQLite connection, live anomaly engine, time of last maintenance | open, receive, insert, maintain, drain | runtime (channel), storage | dies at any statement; nobody looks at it until the next send |
| Instance lock (`instance.rs`) | advisory file lock | acquire, drop | runtime | release must not precede the writer's end |
| Anomaly engine (`anomaly.rs`) | one `RuleState` per rule and resource | evaluate a sample, attach an event, restore | anomaly storage | candidates, gaps, hysteresis, escalation: long sequences of samples |
| Anomaly storage (`anomaly_storage.rs`) | `anomaly_events`, `_states`, `_event_evidence` | insert a batch, load the engine, delete closed events | engine, writer, process storage | engine and tables in step over rollback, crash, restart |
| Metric storage (`storage.rs`) | `metric_samples`, `metric_rollups`, two watermarks | insert, roll up, delete | writer | three tiers, bounded passes, late batches, failed passes |
| Process storage (`process_storage.rs`) | `process_samples`, their rollups, event process evidence | insert, capture evidence, roll up, delete | anomaly storage, maintenance | evidence cap, freshness of snapshots |
| Capability storage (`capability_storage.rs`) | latest state per capability | upsert | batch transaction | last report wins |
| System, disk, network collectors (`collector/`) | OS counters, last capacity time | collect | runtime | warm-up, wall-clock steps, idle suppression |
| Process collector (`collector/process.rs`) | previous network counters, last collection | collect, rank | runtime, `nettop` | time-out of the provider, cadence, PID reuse |
| Schema and migration (`storage.rs: open, open_read_only, migrate`) | schema version, tables, columns | upgrade in one transaction, refuse | every command that opens the database | the version is read before the transaction; several openers |
| Reports (`report.rs`, `report_storage.rs`) | none | choose a tier, read the series, summarise, render | the tiers of metric and process storage, while the writer commits | partial tiers, statements without a transaction, point budget |
| Dashboard server (`dashboard.rs`) | four query permits, session token | snapshot, status, event | browser, read-only connection | client gone, query still running |
| Dashboard client (`dashboard/app.js`) | range, refresh flags, timers | refresh, navigate, open event | server | overlapping requests, late answers |
| Logging (`logging.rs`) | the file, its handle and a byte count per process, numbered older files | open, write, rotate | every component, other processes with the same configuration | a rename fails half-way, two processes rotate at once |
| Service manager (`service.rs`) | files, launchd's state | install, start, stop, restart, uninstall | launchd | time-outs, stale status |
| Configuration, CLI, model | none | parse, validate, dispatch | all | - |

What makes each component correct:

* *Runtime, writer, lock.* Every accepted batch is stored in order; a run that returns `Ok` stored
  all of them; a signal or a sample limit ends the run; a dead writer is an error; one writer per
  database.
* *Anomaly engine.* Events open, escalate and close exactly for sustained conditions of the samples
  that were seen; peak, gap count, start and sample count are those of the samples.
* *Anomaly storage.* Memory and tables never diverge; an event row and its evidence tell what
  happened; only closed events disappear.
* *Metric storage.* Nothing is deleted before the next tier has it; a rollup row aggregates all of
  its bucket. The same for processes.
* *Reports.* A report shows every sample its tier has for the range, nothing else, and no more
  points than a chart may have, whatever is committed while it reads.
* *Schema and migration.* However many commands open an old database, and wherever they fail, it is
  upgraded at a stroke, once, without losing a row, before anyone uses it.
* *Logging.* The newest records stay readable, in order, in files of bounded size.
* *Dashboard.* No query slot is lost and no more queries run than there are slots; the view settles
  on the chosen range, or says that it cannot; historical views stay put and live ones stay awake.
* *Process history.* A process is charged with its own transfers only; an event has the processes
  that were busiest when it opened; caps cut what matters least.
* *Service manager.* A command that reports success has done what it says; a started service runs.
* *The rest* is listed, component by component, under "Plan".

## Modules

    AnomalyRule  <---- AnomalyDetector <---- AnomalyDetectorProofs
         ^ ^---- AnomalyRuleProofs -------------^
         +------------ EventStore <--------- MCEventStore
                        ^------------------- EventStoreProofs (and AnomalyRuleProofs)
    Retention <----- Reports <------------- MCRetention
         ^------------------------------- RetentionProofs
    BatchDelivery <=== Runtime <----------- RuntimeProofs      (<=== : implements)
    DashboardServer <--+
    DashboardClient <--+-- Dashboard <------+
    ProcessCollector <-+                    +-- HistoryAndDashboardProofs
    ProcessEvidence <--+-- ProcessHistory <-+                  (<--- : is extended by)
                       +-- LogRotation <---+              +-- MCSharedFiles
    ProgramProcesses <-+                   +-- SharedFiles <-- SharedFilesProofs
                       +-- SchemaMigration-+
    AtomicUpgrade <======= SchemaMigration
    ServiceManager <----------------------- ServiceManagerProofs

**AnomalyRule** is the algorithm of `anomaly.rs`, one operator per function: `Evaluate` is
`evaluate_metric`, with `AfterGap`, `WithSample` and `Dispatch` in the order the code performs them,
`BeginPendingOrStayNormal`, `ContinuePending`, `ContinueOpen`, `ContinueRecovering` for the four
phases, `Matured` and `BreachedSeverity` for the conditions. A state is a record with the fields of
`RuleState`; the pairs of a since-time and a count are one candidate each. Its ASSUME is what
`AppConfig::validate_anomaly` accepts. `CandidatesAgree` and `Consistent` state how the optional
fields agree with the phase.

**AnomalyDetector** drives one state with arbitrary samples (`EvaluateSample`, `IgnoreStaleSample`).
The engine is incremental; the history variable `accepted` keeps what it has seen, and the
properties define from that history alone what a sustained breach, a recovery, a gap and a peak are
(`Run`, `Sustained`) and compare.

**EventStore** puts the engine into the writer's transaction: `InsertBatch` is `insert_batch` with
`evaluate_batch`, `apply_evaluation`, `insert_prelude`, `persist_states` and the commit;
`InsertFails` is the rollback, which ends the writer; `DeleteClosedEvents` is the deletion pass;
`Restart` is `load_engine` with the then configured rules. The order in which the keys of a batch
get their event ids is left open, because a batch's order is the collectors'. A rule that is
configured but `enabled = false` is not modelled apart from a rule that is absent. **MCEventStore**
gives it two resources, one that has a sample at any time and whose rule may be taken out of the
configuration, and one with a single critical sample.

**Retention** models one metric series and one process through the tiers. A sample is its time stamp
and a rollup row is the set of samples it aggregates. `metrics` and `processes` are two records of the
same form: raw rows, minute and quarter-hour rows, two watermarks. `RunMaintenance` is the whole
transaction of `run_maintenance_with_anomalies` on both: `Maintained` performs both roll-up passes
and the three deletions; the operators before it follow the functions they are named after.
`storage.rs` and `process_storage.rs` hold one copy of these passes each, with different tables and
retentions; the map names the lines of both. Process snapshots come with every `ProcessInterval`-th
batch. Ticks are abstract: two make a minute and two minutes a quarter hour in the runs.

**Reports** is what `report_storage.rs` reads from these tables: `select_resolution` takes the first
of three candidates that has a row in the range, `select_process_tier` the finest tier that reaches
back to its beginning; `query_series`, `query_processes` and `query_process_series` then read it in
buckets of a bounded number. A report itself changes nothing, so
it has no actions: the operators take the tables that each statement reads as parameters, and the two
properties are action properties that evaluate one statement before a step and the next after it. For
processes there are two parameters, since `query_processes` and `query_process_series` each choose
their own tier (`report_storage.rs:341` and 519): `chosenIn` are the tables of the choice and `s` those
of the rows. A commit of the writer thus falls between a choice and its rows, or between the
summaries and the charts, which may then come from different tiers.

**BatchDelivery** is the abstract promise: a run accepts batches, they become stored as a growing
prefix, success requires all of them. **Runtime** is `run_with_collectors` and `spawn_writer` in
detail for several processes on one database, with the lock; `sent` and `committed` record, outside
the code's data, what the current run has put into the channel and the database. `Delivery` is the
refinement mapping and `DeliversBatches` says that the runtime implements the promise.

**DashboardServer** is what the three query handlers of `dashboard.rs` have in common. A request has
a `handler` (the future, which owns the permit) and a `query` (the closure on the blocking thread);
they end separately, which is what `Disconnect` is about. The queries only read, so what they return
is left out. **DashboardClient** is the refresh machinery of `app.js`, one action per event handler;
`refresh` is cut at its await into `Refresh` and the three ways an answer arrives. Of the two
requests of a refresh, `Promise.all` waits for both but not after a failure (`FailedAnswer`). A range
is a preset or a window of the past; `snapshot` is the range that the charts show. **Dashboard**
composes the two: `purpose` says which request of the refresh in flight a handler serves, and all
other requests (other tabs, and the abandoned half of a failed refresh) compete for the same slots.

**ProcessCollector** is `collector/process.rs` among the ticks of the runtime. A collection takes two
looks at the machine, the process list (`RefreshProcesses`) and, later, nettop's counters
(`NettopAnswers`, `NettopFails`); between them the operating system transfers bytes and gives the id
of a process that ended to another. `NetworkDeltas` and `NextPrevious` are `apply_network_deltas`,
`RankCandidates` is the union of the rankings with its cut. **ProcessEvidence** is
`process_storage.rs` for the samples and the evidence of one event: `CaptureOpenEvent` with trigger
and prelude, `CaptureCheckpoint`, each with the freshness test, the cap and the table's uniqueness
constraint, all in the transaction of `StoreBatch`. **ProcessHistory** composes them (its
specification is `HistorySpec`); its variable
`moved` counts, outside the code's data, what each process transferred since nettop last listed it.
A batch carries its cycle's time stamp whenever it is stored, so the channel is left out here.

**ServiceManager** is `service.rs`: a command is a sequence of steps (`pc`), one per file that is
replaced and per `launchctl` call, and after each the command may fail or be interrupted. `Spawn`,
`ExitsAsAsked`, `ExitsUnasked` and `Unloads` are launchd as the property list configures it
(RunAtLoad, KeepAlive unless the exit was a success). `Loaded` and `Running` are `status()`, which
does not ask launchd when the property list is missing.

**LogRotation** is `RotatingState` for several processes on the same files. `write` is one step
while the record fits; a rotation is one step per system call (`RemoveOldest`, `RenameNext` for each
number, `OpenNext` with the record), each of which may fail (`RotationFails`) or be the last
(`CloseLog`). A process holds a handle, not a name: `logger[p].file` is the number that its file has
now, and `Handles` moves it along when anyone renames, replaces or removes the file.

**SchemaMigration** is `Storage::open`, `open_read_only` and `migrate`. A database is its version,
its layout and its rows. `ReadVersion` precedes the transaction; `BeginMigration` is the first read,
which fixes the snapshot; `TakeWriteLock` the first write, which SQLite refuses if the snapshot is no
longer the newest (SQLITE_BUSY_SNAPSHOT) or another holds the lock; `CommitMigration` performs all
the steps, or fails on time stamps that are no dates. What SQLite does is assumed, not modelled from
code. **AtomicUpgrade** is the promise: one step from any older database to the current one, before
which it has no user. `UpgradeIsAtomic` says that migration implements it, with the version, layout
and rows of the committed database and the processes that have it open as the mapping.

**SharedFiles** composes the two as `main.rs` does: every command opens the log first; `run`,
`status`, `events`, `processes` and `report` open the database for writing, and upgrade it; the
dashboard opens it read-only per request. Only one `run` works on the database (the instance lock),
but another on a different database may share the log. **ProgramProcesses** declares the processes.

## Runs

| Run | Shows | Bounds, and why they suffice |
|---|---|---|
| `anomaly_detector` | six invariants of the engine; 756,281 states | times to 8 and steps to 3, gap limit 2, so every history has room for opening, gap, escalation, recovery and a second event; one value per band; warning and critical differ in duration; recovery needs a duration as well as a count |
| `anomaly_escalation` | counterexample: an escalation that is not sustained | same |
| `retention` | three invariants of the tiers, two action properties of reports; 81,613 states | nine ticks cover every tier's retention and a sample's whole life; two buckets per pass make catching-up take several passes; batches of two deletions; ranges of 2, 3 and 6 ticks (one for each preferred resolution, one not a multiple of a bucket) that end now or three ticks ago, so that some begin before the first sample, some behind what was deleted and some ahead of the watermarks |
| `retention_late_batch` | counterexample: a batch that waits longer than the grace is lost | as above with no bound on the wait |
| `event_store` | six invariants and an action property of the tables; 961,022 states | two keys: `busy` with a sample at any time, whose events open, escalate, peak, recover, close and are deleted by time 5, and another can follow; `single` with one sample, whose event opens at every point of that history and never closes; the fastest rule; prelude limit 1 makes the limit bite. At most one closed event exists at a time, so the batch limit of the deletion and ties in end time do not occur here: for them there is the theorem `ClosedEventsFinal` |
| `runtime` | type and lock invariants, refinement of BatchDelivery, two liveness properties; 66,494 states | two processes, channel of one, sample limits none and 2, two batches: full channel, backlog at shutdown and a second run after a failed one all occur |
| `runtime_lock` | counterexample: two writers after an early return | same |
| `dashboard` | slots, the view, the timers; two liveness properties; 215,768 states | two slots for three requests, so a refresh alone fills the server, and other tabs can take a slot from it; one preset and one window suffice, since the properties compare a range with the chosen one |
| `dashboard_queries` | counterexample: three queries run with two slots | same |
| `process_history` | whose network delta it is, what an event is explained by; 996,701 states | three processes, two ranks of CPU and one of network, `EventTopN` 2 and a cut to two samples: the rankings overlap, rank 1 is spared by the cut and rank 2 is not; collections that take 0, 1 or 5 ticks (`Durations`) at an interval of 2, so that a snapshot may be too old when the next cycle opens an event; one of them (`Active`) transfers, hands its pid on or is missed by nettop, since the properties speak of one process at a time; time 7 holds a base line and up to three snapshots; each process transfers (`MaxBytes`) once and hands its pid on (`MaxStarts`) once, so that it shows in each delta whether the transfer counts in it (with two transfers and durations 0 and 5 the run has 1,250,139 states and holds too); a cap of two rows is reached by trigger, prelude and checkpoint in each order |
| `shared_files` | order and size of the log, refinement of AtomicUpgrade; 2,080,516 states | two processes, three launches (`MaxLaunches`) of any command: two that open at once and one that comes after a failure; two retained files, so that the oldest is removed and the others renamed; every record rotates (`MaxBytes` and `Sizes` 1), and four of them (`MaxRecords`) fill the three files and lose one; a new file, the databases of versions 1 and 6 and one of a future version; no record before the upgrade (`EarlyRecords` 0), as the two are independent. Deadlock is not checked: all launches may be used up |
| `service_manager` | truth of the answers, and that started services run; 48,041 states | two versions tell an old process from a new one; two crashes allow one before and one during a command; commands follow each other without end |

Each bound is a constant with a comment saying that it is one (`MaxTime`, `MaxStep`, `MaxDelay`,
`MaxBatches`, `MaxSamples`, `Durations`, `Ages`, `MaxRecords`, `MaxLaunches`, ...). `Retention`
holds with `MaxDelay <= Grace`; that is the condition the code relies on and does not enforce.

### The four violations

* `EscalatesOnlyWhenSustained`: `continue_open` returns from its recovery branch without clearing the
  critical candidate (`anomaly.rs:368-373`) and `continue_recovering` never clears it (421-424). A
  warning that sees a critical sample, recovers for a while and sees a critical sample again
  escalates as if it had been critical all the time. `docs/domain-models.md:263` requires duration
  and count of a candidate. What the code does guarantee is in `OpenEventIsFaithful`: only
  critical samples are counted, and neither a gap nor a warning-band sample lies between them.
* `NothingDeletedUnprocessed` without the delay bound: samples are stamped when their cycle starts,
  but roll-up compares with the clock at the pass. A writer that is more than the grace period
  behind (a long checkpoint, a sleeping machine) inserts rows behind the watermark, which no pass
  visits again; `docs/domain-models.md:229-230` says that this never happens.
* `OneWriterPerDatabase`: the `?` at `runtime.rs:119` returns without joining the writer and so
  releases the instance lock (`docs/domain-models.md:202-203` and `docs/project-overview.md:130`
  promise otherwise). `WriterHoldsLock` is the weaker statement that holds: only a run that returned
  an error can leave a writer behind. The database stays consistent, since SQLite serialises them.
* `QueriesAreBounded`: the permit belongs to the handler's future (`dashboard.rs:157`). A client that
  goes away frees it, but a closure on a blocking thread cannot be cancelled, and the next request is
  admitted beside it. `docs/domain-models.md:395` promises a limit of four queries. What holds is
  `SlotsAreAccountedFor`: the limit on handlers. Moving the permit into the closure would give both.

### What the properties leave out

`DeltasBelongToTheirProcess` speaks of pids that do not change hands between the two looks of one
collection: the code joins them by pid, and the list's start time is the older one. `Recorded`
compares start times in whole seconds in the code; the model's starts are distinct. The rate of a
delta that spans two intervals, after a failure of nettop, is divided by one (`process.rs:133`, in
the hazards); only deltas are checked.

`EventsAreExplained` says when an event has no trigger rows although there is a snapshot: only if that
is older than `FreshFor` and a refresh has failed since, or its own collection took longer than an
interval. Otherwise the event has all the processes of the snapshot that rank within `EventTopN`; that
they are in the snapshot is a matter of its cut (`process.rs:401`). Rank n is sure to survive the cut
if n times the number of dimensions fits into `max_snapshot_processes` (`Spared`). With the defaults (5
ranks, 6 dimensions, 40 samples) that is every rank an event asks for. `config.rs:285-329` does not
validate it: with 10 samples, which it accepts, only rank 1 is sure to be there. The property then
claims the spared ranks, and claims them for the CPU only, by which every process is ranked; by network
a process has a rank only if nettop listed it twice.

`ClosesExactlyWhenRecovered` follows the code where `docs/domain-models.md:264-265` can be read
differently. It says that values between the recovery and the warning threshold "neither recover nor
reopen an event"; in the code (`anomaly.rs:421-424`) such a value returns a recovering event to
`Open` and clears its recovery candidate, so a recovery must start again. If "reopen" is about that
return, code and document disagree. If it is about events that were closed, they agree, which
`OpensExactlyWhenSustained` shows; so there is no counterexample run for it.

`KeptRecordsAreNewest` leaves out histories in which two rotations overlapped. Nothing in
`logging.rs` keeps them apart: one process may rename an older file over one that the other has just
rotated, so that a newer record is lost while an older one stays. After a rotation that was cut short
it asks for order only, since the retry removes another old file (`logging.rs:120`).
`LogFilesAreBounded` multiplies the limit by the number of processes, as each counts its own bytes.
A rotation cut short leaves handle and counter on the renamed file: a record that still fits is
appended there, the next that does not rotates again, so no file grows past the limit. In the run
every record rotates; the same run with `MaxBytes = 2`, `Sizes = {1, 2}` and `MaxRecords = 3`, in which
records of both kinds occur, takes about twice as long (5,177,724 states) and holds too.

`ProcessReportsAreComplete` speaks of ranges whose beginning some tier reaches back to. For a range
that begins before the first process sample, `select_process_rollup_resolution` returns the raw tier
even when its rows have long been deleted and a rollup tier has them (`report_storage.rs:424-438`).
The charts of one report may come from another tier than its summaries, since the tier is chosen twice:
if a commit in between deletes the raw rows at the beginning of the range, the charts are read from
the minutes and lack samples that the summaries count, although these have not expired. The property
allows it only when the tier changed and only for samples that the charts' tier does not have yet.
Neither report property speaks of samples that the chosen tier does not have yet, nor of rows that
begin before the range. `MetricReportsAreComplete` takes the tier that was chosen for granted: the first
with any row in the range, of which retention may have left only the end.

`status`, `events`, `processes` and `report` open the database with `Storage::open` and so upgrade an
old one, as the model has it, though they only read.

`AnswersAreTrue` says of `stop` that the process that *ran* is gone: `stop` looks once, and finds
nothing to stop while launchd waits to start a failed process again (`service.rs:135`), so the
service may run after a successful `stop`. `StartedServiceRuns` excepts a `start` that finds a
process running which an earlier `stop` had told to end (127). Both are listed as hazards.

## Fairness

`Runtime`, `Dashboard` and `ServiceManager` state fairness. In `Runtime`, the loop and the writer each
have weak fairness on their own steps: tokio polls the task, and the blocking thread runs. `Shutdown`
has strong fairness because `tokio::select!` picks at random among the ready branches, so a pending
signal cannot lose to a tick for ever; weak fairness would not do, because the branch is not offered
while a cycle is collected. `CollectBatch` has strong fairness because the system collector succeeds
on a working machine; it is used only by the half of `RunsEnd` that is about a stopped writer, which
waits for the next *non-empty* batch. Starts, signals, handler failures, crashes and writer errors
have none. As the number of batches is bounded, that half excepts the states in which the bound is
reached.

In `Dashboard` there is weak fairness on what the platform does by itself: a request reaches the
server or is refused, a query ends (it reads a bounded number of rows), a handler whose query is done
is polled, the slider's timer fires, and a drained server stops. The user, other tabs, clients that
go away and the signal have none. `SettlesWhenLeftAlone` is therefore conditional on the user's
stopping; its automatic refreshes may go on for ever.

In `ServiceManager`, launchd's own steps together have weak fairness: a loaded job that is due is
started, a process that received SIGTERM ends (its shutdown completes by `ShutdownCompletes`, and
launchd kills it after `ExitTimeOut` when it unloads it), and a job that was booted out goes away.
Commands, failures and crashes have none, and a command may stop at any step.

## Proofs

Every theorem holds for all values of the constants that the named ASSUMEs admit; TLC evaluates those
ASSUMEs in the runs. Each proof has the same form: an inductive invariant that was first checked by
TLC, a lemma for each action, and a temporal step. Induction over data (a history that grows, a sum,
a run of samples) is done without an induction rule: a smallest counterexample is taken, by the order
of the naturals or of the subsets of a finite set, and refuted.

| Module | Theorem | Property | Assumes |
|---|---|---|---|
| `AnomalyDetectorProofs` | `TypeCorrect`, `FieldsAgree` | `TypeOK`, `PhaseConsistent` | `RuleAssumption`, `DetectorAssumption` |
| | `OpensWhenSustained`, `ClosesWhenRecovered` | `OpensExactlyWhenSustained`, `ClosesExactlyWhenRecovered` | same |
| | `CriticalIsEscalated`, `EventIsFaithful` | `SustainedCriticalIsEscalated`, `OpenEventIsFaithful` | same |
| `EventStoreProofs` | `TypeCorrect`, `EngineAgrees`, `EventMatches` | `TypeOK`, `EngineMatchesStore`, `EventMatchesState` | `RuleAssumption`, `EventStoreAssumption` |
| | `SamplesCounted`, `EvidenceTells` | `SamplesAreCounted`, `EvidenceTellsTheHistory` | same |
| | `PeakAndCheckpoints`, `ClosedEventsFinal` | `PeakAndCheckpointsAreKept`, `ClosedEventsAreFinal` (action) | same |
| `RetentionProofs` | `TypeCorrect` | `TypeOK` | `RetentionAssumption` |
| | `NothingIsLost`, `RowsAreComplete` | `NothingDeletedUnprocessed`, `RollupsAreComplete` | and `MaxDelay <= Grace` |
| | `MetricReports`, `ProcessReports` | `MetricReportsAreComplete`, `ProcessReportsAreComplete` (actions) | and `ReportsAssumption` |
| `RuntimeProofs` | `TypeCorrect`, `LockHeld` | `TypeOK`, `WriterHoldsLock` | `RuntimeAssumption` |
| | `DeliveryImplemented` | `DeliversBatches` (refinement) | same |
| `SharedFilesProofs` | `UpgradeImplemented` | `UpgradeIsAtomic` (refinement) | `MigrationAssumption` |
| | `TypeCorrect`, `FilesBounded` | `TypeOK`, `LogFilesAreBounded` | and `LogAssumption`, `ProcessesAssumption`, `CommandsAssumption` |
| | `NewestAreKept` | `KeptRecordsAreNewest` | same |
| `HistoryAndDashboardProofs` | `HistoryTypeCorrect`, `DeltasAreTheirOwn` | `HistoryTypeOK`, `DeltasBelongToTheirProcess` (action) | `CollectorAssumption`, `EvidenceAssumption`, `HistoryAssumption` |
| | `EventsExplained`, `NewestEvidence` | `EventsAreExplained`, `NewestEvidenceIsKept` | same |
| | `TypeCorrect`, `SlotsAccounted` | `TypeOK`, `SlotsAreAccountedFor` | `ServerAssumption`, `ClientAssumption` |
| | `HealthyView`, `AutoRefresh` | `HealthyViewIsTheChosenOne`, `AutoRefreshFollowsTheView` | same |
| `ServiceManagerProofs` | `TypeCorrect`, `AnswersHold` | `TypeOK`, `AnswersAreTrue` | `ServiceAssumption` |

**The engine.** `PhaseConsistent` is about fields that twelve functions assign one by one: no type of
the code stops a state from being `open` without an event or `pending` without a severity. It is
inductive together with `TypeOK`, but not across a step's middle: between `Dispatch` and
`attach_event` an opened state has no event id yet. So the lemmas of `AnomalyRuleProofs` are about
`CandidatesAgree`, which holds throughout a sample, and follow the code's own order.

The other four theorems say that an incremental engine, which keeps three candidates of a time and a
number each, decides what the whole history of samples would decide. `HistoryInv` is the relation
between the two: a pending candidate counts the trailing run of its severity (`RunsAgree`), a recovery
candidate that of the recovery band, the critical candidate of an open warning counts at least the
trailing critical run (`CriticalAgrees`; it may count more, which is the first of the violations
above), and the peak is that of the samples since (`PeaksAgree`). The step is a statement about runs:
the next sample extends the trailing run of its class by one and ends those of the others, and a gap
ends them all.

**The events and their evidence.** A batch evaluates any set of keys at once, so the proof first says
what it does key by key: `InsertIs` turns `InsertBatch` into `InsertedAs`, and `RowIs` says that every
row afterwards was opened by a key, updated by one, or left alone. `EvaluationMeans` says what one
evaluation means for the event: it opens one, stays outside or stays in one, and in each case which
fields of the state and of the row change alike. Three invariants build on each other:

* `StoreInv` relates states and rows: the engine in memory is the stored one, the one open event of a
  key is the one of its state, no two rows of a key have one time stamp, and no key has seen a sample
  later than the last batch. That stamps increase from batch to batch is part of the model;
* `CountInv` adds that what a pending candidate counts is the samples evaluated since it began, and
  that the peak is the value of one of them. The count that an event takes over when it opens
  (`trigger_sample_count`) is right only because of that, although no event existed yet;
* `HistoryInv` adds the evidence. `Tells` is stronger than the property: an escalation is critical and
  no evidence is later than the event's last sample, so that a batch's row is new and an escalation
  happens once. `EvidenceIsFresh` ties the state's `last_evidence` to a row: a peak may take that row's
  place, but is then as new itself. A peak that an event has when it opens comes from a sample of the
  candidate (`CountInv`), so it is the trigger, a row of the prelude, or one beyond it.

A failed batch, a restart and the deletion of old events leave samples, states and the events that
stay alone (`OtherSteps`), and deletion takes closed events only, which no state is in.

**Tiers.** `TierInv` says of one set of tables where every committed sample is, by the two watermarks:
raw until the minutes' watermark passes it, then in its minute's row until the quarter-hours' passes
it too, then in its quarter-hour's row until that expires; the watermarks are aligned, in order and at
most `now - Grace`; and a row lies behind its watermark and has all samples of its bucket. `QueueInv`
keeps the channel in order and within the delay. Insert, roll-up of minutes, of quarter-hours,
deletion and the clock are a lemma each; metrics and processes are two instances of the same lemmas.
The hypothesis `MaxDelay <= Grace` is what the program relies on and does not enforce: a batch is
inserted no later after its stamp than the grace period. The run `retention_late_batch` shows what
happens otherwise. `TypeCorrect` needs no such hypothesis.

**Reports.** A report's statements see different commits, so its property relates the tables before a
step to those after it. `CoverageInv` is what a reader may rely on in any state: a sample that its
tier should have is missing only if its row has expired, and where a row is missing no older one is
left, since retention deletes from the oldest on (that is why "the finest tier that reaches back to
the beginning" misses nothing). `InOrderInv` is needed for the raw table: batches are inserted in the
order of their stamps, so a late one cannot fall behind what was deleted. Between two statements
a sample may only disappear by expiring or appear by being inserted or rolled up, which each step of
the writer is shown to do. For processes the same invariant is used before the step, for the tier of
the summaries, and after it, for the tier that the charts choose: `SummariesAre` and `ChartsAre` bring
what both show into one form, the samples of the rows of their tier. What a
summary counted was not too recent for its tier, and is not after the step, as watermarks only grow;
in the charts' tier it is shown, too recent or expired, and too recent only if the tier is another.
That no chart has too many points is arithmetic about `Bucket`. Both
theorems need `MaxDelay <= Grace`, like the ones about the tiers they rest on.

**Processes.** Four invariants, each used by the next:

* `ChargeInv` ties the counters that the collector keeps to the processes that have the pids now:
  what is on record belongs to the present process exactly if `moved` counts for it, and then its
  counter is the recorded total and what it has moved since. A pid that changed hands between the two
  looks is on record under its old start, which is why its next delta is dropped;
* `TimeInv` says that everything stored is older than the tick to come and than a collection under
  way, and that the newest snapshot is at most an interval older than the end of the last
  collection, or its collection was slow. Hence at a cycle without a collection the newest snapshot is
  not older than `2 * Interval`, unless it was slow or a refresh has failed;
* `SampleInv` says that a snapshot has each process and each rank at most once, and every rank by
  CPU up to `EventTopN` that there are processes for and that the cut spares. A rank is the number of
  elements before one in a total order, of which the first section of the module proves what is needed
  (ranks are distinct, all are taken, at most n lie below n). `CutSparesTopN` is the pigeonhole: at
  most n processes per dimension rank within n, so fewer than `MaxSnapshot` come before one of them
  if n times the number of dimensions fits. That a snapshot is never cut to nothing needs no such
  condition (`CutLeavesTheFirst`), so the constants are as free as `config.rs` leaves them;
* `EvidenceInv` adds that the trigger is a stored snapshot and the evidence within its cap. A LIMIT
  takes a prefix of the same kind of order (`FirstType`): a row with all the newer ones, which is why
  the cap drops the oldest of the prelude. Batches after the detection are later than it, so neither
  the trigger nor what precedes it changes (`TriggerStays`), and a checkpoint only adds rows.

**Runtime.** `WriterHoldsLock` says nothing of a loop whose writer has ended, nor of what `Returns`
may do to a lock; `LockFollowsLoop` ties the three together: a running loop holds the lock and has no
result yet, a process that is down has no writer, and a loop that returned either reports an error or
has outlived its writer. `HoldsBatch` says that a loop that sends and a writer that inserts have a
batch in hand. For the refinement, `Pipeline` says that while the writer lives, what was sent is what
is committed, followed by the batch in hand, followed by the channel, and that a writer that finished
has committed all that was sent: so `JoinWriter` can answer `ok` only when `BatchDelivery` may
`Succeed`, and each commit is the next batch of `Store`. A send is `Accept`; every way out of the loop
is `Succeed` or `Fail`; a crash of a run that had returned is invisible.

**Files.** Each step of the migration is a step of `AtomicUpgrade` or leaves its state alone:
`MigrationInv` says that whoever holds the write lock has a snapshot of what is committed, that a
connection that is going to migrate has seen an older version, and that a current database is
complete. The log's bound is a sum: `SharesBounded` says that a process has no more bytes in a file
than the limit, nor more in the file it writes to than it has counted there; the lemmas about sums of
folds are in the same module.

**The log's order.** Records survive renames in place, so `KeptRecordsAreNewest` follows from where a
process may have records at all: none in files newer than the one it has open (`NothingBeyond`), and
those it can read are in order and reach up to its last one (`Newest`). A rename keeps that because
the number it renames to is free (`StepIsFree`), which holds as long as one process rotates at a time
(`OneRotates`); with two it is false, and the property then claims nothing. That records are lost
only from a full set of files needs two more facts, for histories in which no rotation was cut short:
the numbers of the files have no hole but the one that a rotation is moving (`NoHoles`), and once a
process has lost a record every number is taken (`LostWhenFull`).

**Dashboard.** `HealthyViewIsTheChosenOne` speaks of the moment of the answer only; what makes it
inductive is `InFlightIsChosen`: a refresh in flight asks for the chosen range unless another is
queued behind it or the slider's timer is running. The slots are a statement about cardinalities: a
handler that starts or ends changes the set of querying handlers by one element. The server's and the
client's invariants are proved apart, since every step of the composition is a step of each or leaves
it unchanged.

**Service manager.** `AnswersAreTrue` speaks of a command that has ended. `IInv` says what holds at
each of its steps: which command the step belongs to, how far the files are, that launchd knows no job
whose property list is gone, and what may still run. What launchd does between two steps keeps all of
it (`LaunchdKeeps`), so each step of a command needs one lemma.

Every type invariant, safety invariant, action property and refinement that a run checks and that
holds is thus proved. Model-checked only are the five liveness properties (`ShutdownCompletes`,
`RunsEnd`, `SettlesWhenLeftAlone`, `StopCompletes`, `StartedServiceRuns`), since neither fairness nor
ENABLED is within this prover's reach; and a counterexample is a matter for TLC.

The proofs of the process history and of the dashboard have nothing in common but their module.

## Not modelled

Contents of samples beyond their band or time stamp, floating point, texts and SQL itself; time
zones; rendering, and exceptions in it; the dashboard's routing and headers; the read-only queries
except those of reports that read samples. SQLite's transactions are taken to be atomic, durable and
isolated as its documentation says.

* *Disk and network collectors.* All their state is one time stamp and the operating system's
  counters. That an idle device sends no sample (`collector/disk.rs:104`), so that an event over an
  I/O rate has nothing to recover by, is a listed hazard; `AnomalyDetector` takes every sequence of
  samples, those that end included.
* *Migration.* The switch to WAL mode, and a program of a later version that upgrades the database
  between `ReadVersion` and the transaction: its version would be overwritten with 7.
* *Logging.* A write that stores part of a record; commands other than `run` that log because
  `RUST_LOG` asks for more than the default.
* *Reports.* The ranking and the cut of processes, the list of events, the memory total, and
  `process_coverage`, which gives the time span of all tiers together while summaries and charts read
  one; output to a file.
* *Dashboard client.* The event dialog, whose late answers may overwrite a newer one.

## Plan

Done: the detector and its storage, the runtime, metric and process tiers with their reports, the
process history, the dashboard, the service manager, log rotation and schema migration are modelled and
checked; what is proved is listed under "Proofs". Left:

* The event dialog of the dashboard, and the composition of the disk collector's cadence with a rule
  (a capacity interval longer than the rule's sample gap makes every sample a gap).
