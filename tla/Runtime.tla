------------------------------ MODULE Runtime ------------------------------
(***************************************************************************)
(* The profiler process of src/runtime.rs: the collection loop, the        *)
(* bounded channel, the writer task that spawn_writer of src/storage.rs    *)
(* runs on a blocking thread, and the advisory lock of src/instance.rs     *)
(* that keeps a second process off the same database.                      *)
(*                                                                         *)
(* All processes are started on one database.  A batch is a number; its    *)
(* contents are in EventStore and Retention.  A transaction is one step:   *)
(* SQLite makes it atomic, and a crash before the commit is a crash before *)
(* the step.                                                               *)
(***************************************************************************)
EXTENDS Naturals, Sequences, FiniteSets

CONSTANTS
    Processes, NoProcess,
    Capacity,       \* channel_capacity
    SampleLimits,   \* the --samples that occur, NoLimit for none
    MaxBatches      \* bound: after that many batches the collectors yield nothing more

NoLimit == 0
NoBatch == 0

ASSUME RuntimeAssumption ==
    /\ NoProcess \notin Processes
    /\ Capacity \in Nat \ {0}
    /\ SampleLimits \subseteq Nat
    /\ MaxBatches \in Nat

VARIABLES
    loop,       \* where run_with_collectors of each process is
    signalled,  \* SIGINT or SIGTERM has arrived
    limit,      \* sample_limit of the current run
    cycles,     \* collected_cycles, counted up to the limit
    batch,      \* the batch that the loop is collecting or sending
    queue,      \* the channel
    writer,     \* where the writer task is
    current,    \* the batch it is inserting
    result,     \* what the latest run returned
    lock,       \* who holds the instance lock
    produced,   \* how many batches have been collected
    sent,       \* history: the batches the current run has put into the channel
    committed   \* history: those of them that are in the database, in the order of the commits

vars == <<loop, signalled, limit, cycles, batch, queue, writer, current, result, lock, produced,
          sent, committed>>
loopVars == <<loop, signalled, limit, cycles, batch, result, lock, produced>>
writerVars == <<writer, current, committed>>

LoopState == {"down", "waiting", "collecting", "sending", "joining", "returned"}
WriterState == {"absent", "opening", "receiving", "inserting", "finished", "failed"}
Result == {"none", "ok", "error"}

Init ==
    /\ loop = [p \in Processes |-> "down"]
    /\ signalled = [p \in Processes |-> FALSE]
    /\ limit = [p \in Processes |-> NoLimit]
    /\ cycles = [p \in Processes |-> 0]
    /\ batch = [p \in Processes |-> NoBatch]
    /\ queue = [p \in Processes |-> <<>>]
    /\ writer = [p \in Processes |-> "absent"]
    /\ current = [p \in Processes |-> NoBatch]
    /\ result = [p \in Processes |-> "none"]
    /\ lock = NoProcess
    /\ produced = 0
    /\ sent = [p \in Processes |-> <<>>]
    /\ committed = [p \in Processes |-> <<>>]

\* Slip: the sender is dropped when the function returns.
SenderAlive_UntilReturn(p) == loop[p] \in {"waiting", "collecting", "sending", "joining"}

\* The sender lives as long as the loop, the receiver as long as the writer.
SenderAlive(p) == loop[p] \in {"waiting", "collecting", "sending"}
ReceiverAlive(p) == writer[p] \in {"opening", "receiving", "inserting"}

----------------------------------------------------------------------------
(* Starting. *)

\* The lock is taken, the channel is created and the writer is spawned.  While another
\* process holds the lock a start is refused before it has done anything.
Start(p, samples) ==
    /\ loop[p] = "down"
    /\ lock = NoProcess
    /\ lock' = p
    /\ loop' = [loop EXCEPT ![p] = "waiting"]
    /\ writer' = [writer EXCEPT ![p] = "opening"]
    /\ signalled' = [signalled EXCEPT ![p] = FALSE]
    /\ limit' = [limit EXCEPT ![p] = samples]
    /\ cycles' = [cycles EXCEPT ![p] = 0]
    /\ result' = [result EXCEPT ![p] = "none"]
    /\ sent' = [sent EXCEPT ![p] = <<>>]
    /\ committed' = [committed EXCEPT ![p] = <<>>]
    /\ UNCHANGED <<batch, queue, current, produced>>

SignalArrives(p) ==
    /\ loop[p] \notin {"down", "returned"}
    /\ signalled' = [signalled EXCEPT ![p] = TRUE]
    /\ UNCHANGED <<loop, limit, cycles, batch, result, lock, produced, queue, writerVars, sent>>

----------------------------------------------------------------------------
(* The collection loop. *)

\* interval.tick() wins the select.  From here on the signal is not looked at.
BeginCycle(p) ==
    /\ loop[p] = "waiting"
    /\ loop' = [loop EXCEPT ![p] = "collecting"]
    /\ UNCHANGED <<signalled, limit, cycles, batch, result, lock, produced, queue, writerVars, sent>>

\* The cycle is counted, and the last one leaves the loop, dropping the sender.
CycleCompletes(p) ==
    /\ cycles' = [cycles EXCEPT ![p] = IF @ < limit[p] THEN @ + 1 ELSE @]
    /\ loop' = [loop EXCEPT ![p] = IF limit[p] # NoLimit /\ cycles'[p] >= limit[p]
                                     THEN "joining" ELSE "waiting"]

\* The collectors yielded something.
CollectBatch(p) ==
    /\ loop[p] = "collecting"
    /\ produced < MaxBatches
    /\ produced' = produced + 1
    /\ batch' = [batch EXCEPT ![p] = produced']
    /\ loop' = [loop EXCEPT ![p] = "sending"]
    /\ UNCHANGED <<signalled, limit, cycles, result, lock, queue, writerVars, sent>>

\* Slip: only a cycle with a batch counts.
CollectNothing_Uncounted(p) ==
    /\ loop[p] = "collecting"
    /\ loop' = [loop EXCEPT ![p] = "waiting"]
    /\ UNCHANGED <<signalled, limit, cycles, batch, result, lock, produced, queue, writerVars,
                   sent>>

\* Every collector failed or had nothing to say: nothing is sent, but the cycle counts.
CollectNothing(p) ==
    /\ loop[p] = "collecting"
    /\ CycleCompletes(p)
    /\ UNCHANGED <<signalled, limit, batch, result, lock, produced, queue, writerVars, sent>>

\* Slip: an unbounded channel.
Send_Unbounded(p) ==
    /\ loop[p] = "sending"
    /\ ReceiverAlive(p)
    /\ queue' = [queue EXCEPT ![p] = Append(@, batch[p])]
    /\ sent' = [sent EXCEPT ![p] = Append(@, batch[p])]
    /\ batch' = [batch EXCEPT ![p] = NoBatch]
    /\ CycleCompletes(p)
    /\ UNCHANGED <<signalled, limit, result, lock, produced, writerVars>>

\* send().await returns once the channel has room.
Send(p) ==
    /\ loop[p] = "sending"
    /\ ReceiverAlive(p)
    /\ Len(queue[p]) < Capacity
    /\ queue' = [queue EXCEPT ![p] = Append(@, batch[p])]
    /\ sent' = [sent EXCEPT ![p] = Append(@, batch[p])]
    /\ batch' = [batch EXCEPT ![p] = NoBatch]
    /\ CycleCompletes(p)
    /\ UNCHANGED <<signalled, limit, result, lock, produced, writerVars>>

\* run_with_collectors returns: the sender and the lock are dropped.
Returns(p, outcome) ==
    /\ loop' = [loop EXCEPT ![p] = "returned"]
    /\ result' = [result EXCEPT ![p] = outcome]
    /\ lock' = NoProcess

\* Slip: a closed channel is logged and the cycle repeated.
SendFails_Retries(p) ==
    /\ loop[p] = "sending"
    /\ ~ReceiverAlive(p)
    /\ UNCHANGED vars

\* "storage writer stopped": the receiver is gone, the writer's own error is not fetched.
SendFails(p) ==
    /\ loop[p] = "sending"
    /\ ~ReceiverAlive(p)
    /\ batch' = [batch EXCEPT ![p] = NoBatch]
    /\ Returns(p, "error")
    /\ UNCHANGED <<signalled, limit, cycles, produced, queue, writerVars, sent>>

\* The signal wins the select.
Shutdown(p) ==
    /\ loop[p] = "waiting"
    /\ signalled[p]
    /\ loop' = [loop EXCEPT ![p] = "joining"]
    /\ UNCHANGED <<signalled, limit, cycles, batch, result, lock, produced, queue, writerVars, sent>>

\* signal?: the handlers could not be installed.  The writer task is not joined.
SignalHandlerFails(p) ==
    /\ loop[p] = "waiting"
    /\ ~signalled[p]
    /\ Returns(p, "error")
    /\ UNCHANGED <<signalled, limit, cycles, batch, produced, queue, writerVars, sent>>

\* Slip: the loop does not wait for the writer.
JoinWriter_Detached(p) ==
    /\ loop[p] = "joining"
    /\ Returns(p, IF writer[p] = "failed" THEN "error" ELSE "ok")
    /\ UNCHANGED <<signalled, limit, cycles, batch, produced, queue, writerVars, sent>>

\* writer.await??
JoinWriter(p) ==
    /\ loop[p] = "joining"
    /\ writer[p] \in {"finished", "failed"}
    /\ Returns(p, IF writer[p] = "failed" THEN "error" ELSE "ok")
    /\ UNCHANGED <<signalled, limit, cycles, batch, produced, queue, writerVars, sent>>

\* main returns, and dropping the tokio runtime waits for the blocking writer.
Exit(p) ==
    /\ loop[p] = "returned"
    /\ ~ReceiverAlive(p)
    /\ loop' = [loop EXCEPT ![p] = "down"]
    /\ writer' = [writer EXCEPT ![p] = "absent"]
    /\ UNCHANGED <<signalled, limit, cycles, batch, result, lock, produced, queue, current,
                   committed, sent>>

----------------------------------------------------------------------------
(* The writer task. *)

\* Storage::open and load_anomaly_engine
OpenStorage(p) ==
    /\ writer[p] = "opening"
    /\ writer' = [writer EXCEPT ![p] = "receiving"]
    /\ UNCHANGED <<loopVars, queue, current, committed, sent>>

\* Any error ends the task; the receiver is dropped with what still waits in it.
WriterFails(p) ==
    /\ writer[p] \in {"opening", "inserting"}
    /\ writer' = [writer EXCEPT ![p] = "failed"]
    /\ queue' = [queue EXCEPT ![p] = <<>>]
    /\ current' = [current EXCEPT ![p] = NoBatch]
    /\ UNCHANGED <<loopVars, committed, sent>>

\* blocking_recv yields a batch, also after the sender is gone.
Receive(p) ==
    /\ writer[p] = "receiving"
    /\ queue[p] # <<>>
    /\ current' = [current EXCEPT ![p] = Head(queue[p])]
    /\ queue' = [queue EXCEPT ![p] = Tail(@)]
    /\ writer' = [writer EXCEPT ![p] = "inserting"]
    /\ UNCHANGED <<loopVars, committed, sent>>

\* The insert commits; maintenance, whose errors are only logged, ends the iteration.
Commit(p) ==
    /\ writer[p] = "inserting"
    /\ committed' = [committed EXCEPT ![p] = Append(@, current[p])]
    /\ current' = [current EXCEPT ![p] = NoBatch]
    /\ writer' = [writer EXCEPT ![p] = "receiving"]
    /\ UNCHANGED <<loopVars, queue, sent>>

\* Slip: the loop ends with the sender, whatever is still queued.
Finish_Undrained(p) ==
    /\ writer[p] = "receiving"
    /\ ~SenderAlive(p)
    /\ writer' = [writer EXCEPT ![p] = "finished"]
    /\ queue' = [queue EXCEPT ![p] = <<>>]
    /\ UNCHANGED <<loopVars, current, committed, sent>>

\* blocking_recv returns None: the sender is gone and the channel is empty.
Finish(p) ==
    /\ writer[p] = "receiving"
    /\ ~SenderAlive(p)
    /\ queue[p] = <<>>
    /\ writer' = [writer EXCEPT ![p] = "finished"]
    /\ UNCHANGED <<loopVars, queue, current, committed, sent>>

----------------------------------------------------------------------------

\* SIGKILL, a power cut: the kernel drops the lock, the batches in memory are gone.
Crash(p) ==
    /\ loop[p] # "down"
    /\ loop' = [loop EXCEPT ![p] = "down"]
    /\ writer' = [writer EXCEPT ![p] = "absent"]
    /\ batch' = [batch EXCEPT ![p] = NoBatch]
    /\ queue' = [queue EXCEPT ![p] = <<>>]
    /\ current' = [current EXCEPT ![p] = NoBatch]
    /\ result' = [result EXCEPT ![p] = IF @ = "none" THEN "error" ELSE @]
    /\ lock' = IF lock = p THEN NoProcess ELSE lock
    /\ UNCHANGED <<signalled, limit, cycles, produced, sent, committed>>

LoopStep(p) ==
    BeginCycle(p) \/ CollectBatch(p) \/ CollectNothing(p) \/ Send(p) \/ SendFails(p)
        \/ Shutdown(p) \/ JoinWriter(p) \/ Exit(p)
WriterStep(p) ==
    OpenStorage(p) \/ Receive(p) \/ Commit(p) \/ WriterFails(p) \/ Finish(p)

Next ==
    \E p \in Processes :
        \/ \E samples \in SampleLimits : Start(p, samples)
        \/ SignalArrives(p)
        \/ SignalHandlerFails(p)
        \/ Crash(p)
        \/ LoopStep(p)
        \/ WriterStep(p)

(***************************************************************************)
(* The loop and the writer thread are scheduled.  The select picks a ready *)
(* branch at random, so a pending signal cannot lose to the tick forever;  *)
(* and while SystemCollector works not every cycle is empty.  The          *)
(* environment owes nothing: no start, no signal, no failure, no crash.    *)
(***************************************************************************)
Fairness ==
    \A p \in Processes :
        /\ WF_vars(LoopStep(p))
        /\ WF_vars(WriterStep(p))
        /\ SF_vars(Shutdown(p))
        /\ SF_vars(CollectBatch(p))

Spec == Init /\ [][Next]_vars /\ Fairness

----------------------------------------------------------------------------
(* Properties. *)

TypeOK ==
    /\ loop \in [Processes -> LoopState]
    /\ signalled \in [Processes -> BOOLEAN]
    /\ limit \in [Processes -> SampleLimits \cup {NoLimit}]
    /\ cycles \in [Processes -> Nat] /\ \A p \in Processes : cycles[p] <= limit[p]
    /\ batch \in [Processes -> 0 .. produced] /\ current \in [Processes -> 0 .. produced]
    /\ queue \in [Processes -> Seq(1 .. produced)] /\ sent \in [Processes -> Seq(1 .. produced)]
    /\ \A p \in Processes : Len(queue[p]) <= Capacity
    /\ writer \in [Processes -> WriterState]
    /\ result \in [Processes -> Result]
    /\ lock \in Processes \cup {NoProcess}
    /\ produced \in 0 .. MaxBatches
    /\ committed \in [Processes -> Seq(1 .. produced)]

StatusOf(p) ==
    IF loop[p] \notin {"down", "returned"} THEN "running"
    ELSE IF result[p] = "none" THEN "idle"
    ELSE IF result[p] = "ok" THEN "succeeded"
    ELSE "failed"

Delivery ==
    INSTANCE BatchDelivery WITH
        status <- [p \in Processes |-> StatusOf(p)],
        accepted <- sent,
        stored <- committed

\* Through backpressure, shutdown, sample limits, failures and crashes, every run keeps the
\* promise of BatchDelivery: in order, without a gap, and all of it if it returns Ok.
DeliversBatches == Delivery!Spec

\* A writer works under its process's lock, and two writers never work on the database at
\* once, except that a loop that returned early has left its writer behind.
WriterHoldsLock ==
    /\ \A p \in Processes : ReceiverAlive(p) => lock = p \/ result[p] = "error"
    /\ \A p, q \in Processes :
          p # q /\ ReceiverAlive(p) /\ ReceiverAlive(q) => "error" \in {result[p], result[q]}

\* project-overview.md: one writer task owns the SQLite connection.  (An early return from
\* run_with_collectors refutes it: the lock is gone while the writer drains its queue.)
OneWriterPerDatabase ==
    \A p, q \in Processes : ReceiverAlive(p) /\ ReceiverAlive(q) => p = q

\* A signal ends the process, whatever the loop and the writer are doing and even if the
\* channel is full, because the writer drains it.
ShutdownCompletes ==
    \A p \in Processes : signalled[p] /\ loop[p] # "down" ~> loop[p] = "down"

\* A run does not outlast its purpose: one with a sample limit ends by itself, also when
\* every cycle is empty; and (domain-models.md) an unexpectedly stopped writer is an
\* application error, with which the run ends unless the collectors have no more to send.
RunsEnd ==
    \A p \in Processes :
        /\ limit[p] # NoLimit /\ loop[p] # "down" ~> loop[p] = "down"
        /\ writer[p] = "failed" ~>
              \/ loop[p] = "down" /\ result[p] = "error"
              \/ produced = MaxBatches
=============================================================================
