--------------------------- MODULE RuntimeProofs ---------------------------
(***************************************************************************)
(* Theorems about Runtime, for every set of processes, channel capacity    *)
(* and set of sample limits: its types, that a writer works under its      *)
(* process's lock, and that the runtime implements BatchDelivery.          *)
(***************************************************************************)
EXTENDS Runtime, SequenceTheorems, TLAPS

\* The loop is between the start and the return of run_with_collectors.
Running(p) == loop[p] \in {"waiting", "collecting", "sending", "joining"}

\* A batch is being held exactly where one is needed.
HoldsBatch ==
    /\ \A p \in Processes : loop[p] = "sending" => batch[p] # NoBatch
    /\ \A p \in Processes : writer[p] = "inserting" => current[p] # NoBatch

\* What ties the lock, the result and the writer to the position of the loop.
LockFollowsLoop ==
    \A p \in Processes :
        /\ Running(p) => lock = p /\ result[p] = "none"
        /\ loop[p] = "down" => writer[p] = "absent"
        /\ loop[p] = "returned" =>
              result[p] = "error" \/ writer[p] \in {"finished", "failed"}

IInv == TypeOK /\ HoldsBatch /\ LockFollowsLoop

----------------------------------------------------------------------------
(* Sequences of batch numbers. *)

LEMMA SeqGrows ==
    ASSUME NEW n \in Nat, NEW s \in Seq(1 .. n)
    PROVE  s \in Seq(1 .. n + 1)
<1>1. 1 .. n \subseteq 1 .. n + 1
  OBVIOUS
<1> QED BY <1>1

LEMMA InitInvariant == Init => IInv
<1> SUFFICES ASSUME Init PROVE IInv
  OBVIOUS
<1>1. TypeOK
  <2>1. <<>> \in Seq(1 .. produced) /\ Len(<<>>) = 0
    OBVIOUS
  <2> QED
    BY <2>1, RuntimeAssumption
       DEF Init, TypeOK, LoopState, WriterState, Result, NoLimit, NoBatch
<1>2. HoldsBatch /\ LockFollowsLoop
  BY DEF Init, HoldsBatch, LockFollowsLoop, Running
<1> QED BY <1>1, <1>2 DEF IInv

----------------------------------------------------------------------------
(* Each step preserves the invariant. *)

LEMMA StartStep ==
    ASSUME IInv, NEW p \in Processes, NEW samples \in SampleLimits, Start(p, samples)
    PROVE  IInv'
<1> USE DEF IInv, Start
<1>1. TypeOK'
  <2>1. /\ loop' \in [Processes -> LoopState] /\ signalled' \in [Processes -> BOOLEAN]
        /\ limit' \in [Processes -> SampleLimits \cup {NoLimit}]
        /\ writer' \in [Processes -> WriterState] /\ result' \in [Processes -> Result]
        /\ lock' \in Processes \cup {NoProcess}
    BY DEF TypeOK, LoopState, WriterState, Result
  <2>2. cycles' \in [Processes -> Nat] /\ \A q \in Processes : cycles'[q] <= limit'[q]
    BY RuntimeAssumption DEF TypeOK
  <2>3. /\ sent' \in [Processes -> Seq(1 .. produced)]
        /\ committed' \in [Processes -> Seq(1 .. produced)]
    BY DEF TypeOK
  <2> QED BY <2>1, <2>2, <2>3 DEF TypeOK
<1>2. HoldsBatch'
  BY DEF TypeOK, HoldsBatch
<1>3. LockFollowsLoop'
  BY RuntimeAssumption DEF TypeOK, LockFollowsLoop, Running
<1> QED BY <1>1, <1>2, <1>3

LEMMA SignalArrivesStep ==
    ASSUME IInv, NEW p \in Processes, SignalArrives(p)
    PROVE  IInv'
<1> USE DEF IInv, SignalArrives, writerVars
<1>1. TypeOK'
  BY DEF TypeOK
<1>2. HoldsBatch' /\ LockFollowsLoop'
  BY DEF HoldsBatch, LockFollowsLoop, Running
<1> QED BY <1>1, <1>2

\* A step that only moves the loop between positions in which it holds no batch.
LEMMA MoveStep ==
    ASSUME IInv, NEW p \in Processes, NEW to \in {"waiting", "collecting", "joining"},
           Running(p), loop' = [loop EXCEPT ![p] = to],
           UNCHANGED <<signalled, limit, cycles, batch, result, lock, produced, queue, writerVars,
                       sent>>
    PROVE  IInv'
<1> USE DEF IInv, writerVars
<1>1. TypeOK'
  BY DEF TypeOK, LoopState
<1>2. HoldsBatch'
  BY DEF HoldsBatch, TypeOK
<1>3. LockFollowsLoop'
  BY DEF LockFollowsLoop, Running, TypeOK
<1> QED BY <1>1, <1>2, <1>3

LEMMA BeginCycleStep ==
    ASSUME IInv, NEW p \in Processes, BeginCycle(p)
    PROVE  IInv'
BY MoveStep DEF BeginCycle, Running

LEMMA ShutdownStep ==
    ASSUME IInv, NEW p \in Processes, Shutdown(p)
    PROVE  IInv'
BY MoveStep DEF Shutdown, Running

LEMMA CollectBatchStep ==
    ASSUME IInv, NEW p \in Processes, CollectBatch(p)
    PROVE  IInv'
<1> USE DEF IInv, CollectBatch, writerVars
<1>1. produced \in Nat /\ produced' = produced + 1 /\ produced' \in 0 .. MaxBatches
  BY RuntimeAssumption DEF TypeOK
<1>2. /\ queue' \in [Processes -> Seq(1 .. produced')]
      /\ sent' \in [Processes -> Seq(1 .. produced')]
      /\ committed' \in [Processes -> Seq(1 .. produced')]
  <2>1. \A s \in Seq(1 .. produced) : s \in Seq(1 .. produced')
    BY <1>1, SeqGrows
  <2>2. queue' = queue /\ sent' = sent /\ committed' = committed
    OBVIOUS
  <2>3. /\ queue \in [Processes -> Seq(1 .. produced)]
        /\ sent \in [Processes -> Seq(1 .. produced)]
        /\ committed \in [Processes -> Seq(1 .. produced)]
    BY DEF TypeOK
  <2> HIDE DEF IInv, CollectBatch, writerVars
  <2>4. queue' \in [Processes -> Seq(1 .. produced')]
    BY <2>1, <2>2, <2>3
  <2>5. sent' \in [Processes -> Seq(1 .. produced')]
    BY <2>1, <2>2, <2>3
  <2>6. committed' \in [Processes -> Seq(1 .. produced')]
    BY <2>1, <2>2, <2>3
  <2> QED BY <2>4, <2>5, <2>6
<1>3. TypeOK'
  <2>1. loop' \in [Processes -> LoopState]
    BY DEF TypeOK, LoopState
  <2>2. batch' \in [Processes -> 0 .. produced'] /\ current' \in [Processes -> 0 .. produced']
    <3>1. /\ batch \in [Processes -> 0 .. produced] /\ current \in [Processes -> 0 .. produced]
          /\ batch' = [batch EXCEPT ![p] = produced'] /\ current' = current
      BY DEF TypeOK
    <3> HIDE DEF IInv, CollectBatch, writerVars
    <3>2. 0 .. produced \subseteq 0 .. produced' /\ produced' \in 0 .. produced'
      BY <1>1
    <3> QED BY <3>1, <3>2
  <2>3. /\ signalled' \in [Processes -> BOOLEAN] /\ writer' \in [Processes -> WriterState]
        /\ limit' \in [Processes -> SampleLimits \cup {NoLimit}]
        /\ cycles' \in [Processes -> Nat] /\ \A q \in Processes : cycles'[q] <= limit'[q]
        /\ result' \in [Processes -> Result] /\ lock' \in Processes \cup {NoProcess}
        /\ \A q \in Processes : Len(queue'[q]) <= Capacity
    BY DEF TypeOK
  <2> HIDE DEF IInv, CollectBatch, writerVars
  <2> QED BY <1>1, <1>2, <2>1, <2>2, <2>3 DEF TypeOK
<1>4. HoldsBatch'
  BY <1>1 DEF HoldsBatch, TypeOK, NoBatch
<1>5. LockFollowsLoop'
  BY DEF LockFollowsLoop, Running, TypeOK
<1> QED BY <1>3, <1>4, <1>5

\* What CycleCompletes does to the loop and its count.
LEMMA CycleFacts ==
    ASSUME IInv, NEW p \in Processes, CycleCompletes(p), UNCHANGED limit
    PROVE  /\ cycles' \in [Processes -> Nat]
           /\ \A q \in Processes : cycles'[q] <= limit'[q]
           /\ \E to \in {"waiting", "joining"} : loop' = [loop EXCEPT ![p] = to]
<1>1. \A q \in Processes : limit[q] \in Nat
  <2>1. SampleLimits \cup {NoLimit} \subseteq Nat
    BY RuntimeAssumption DEF NoLimit
  <2>2. limit \in [Processes -> SampleLimits \cup {NoLimit}]
    BY DEF IInv, TypeOK
  <2> QED BY <2>1, <2>2
<1>2. cycles' \in [Processes -> Nat] /\ \A q \in Processes : cycles'[q] <= limit'[q]
  <2> DEFINE next == IF cycles[p] < limit[p] THEN cycles[p] + 1 ELSE cycles[p]
  <2>1. cycles \in [Processes -> Nat] /\ \A q \in Processes : cycles[q] <= limit[q]
    BY DEF IInv, TypeOK
  <2>2. next \in Nat /\ next <= limit[p]
    BY <1>1, <2>1
  <2>3. cycles' = [cycles EXCEPT ![p] = next]
    BY DEF CycleCompletes
  <2> HIDE DEF next
  <2> QED BY <2>1, <2>2, <2>3
<1>3. \E to \in {"waiting", "joining"} : loop' = [loop EXCEPT ![p] = to]
  BY DEF CycleCompletes
<1> QED BY <1>2, <1>3

LEMMA CollectNothingStep ==
    ASSUME IInv, NEW p \in Processes, CollectNothing(p)
    PROVE  IInv'
<1> USE DEF IInv, CollectNothing, writerVars
<1>1. PICK to \in {"waiting", "joining"} : loop' = [loop EXCEPT ![p] = to]
  BY CycleFacts
<1>2. cycles' \in [Processes -> Nat] /\ \A q \in Processes : cycles'[q] <= limit'[q]
  BY CycleFacts
<1>3. TypeOK'
  BY <1>1, <1>2 DEF TypeOK, LoopState
<1>4. HoldsBatch'
  BY <1>1 DEF HoldsBatch, TypeOK
<1>5. LockFollowsLoop'
  BY <1>1 DEF LockFollowsLoop, Running, TypeOK
<1> QED BY <1>3, <1>4, <1>5

LEMMA SendStep ==
    ASSUME IInv, NEW p \in Processes, Send(p)
    PROVE  IInv'
<1> USE DEF IInv, Send, writerVars
<1>1. PICK to \in {"waiting", "joining"} : loop' = [loop EXCEPT ![p] = to]
  BY CycleFacts
<1>2. cycles' \in [Processes -> Nat] /\ \A q \in Processes : cycles'[q] <= limit'[q]
  BY CycleFacts
<1>3. batch[p] \in 1 .. produced
  BY DEF TypeOK, HoldsBatch, NoBatch
<1>4. /\ queue' \in [Processes -> Seq(1 .. produced')]
      /\ \A q \in Processes : Len(queue'[q]) <= Capacity
  <2>1. /\ Append(queue[p], batch[p]) \in Seq(1 .. produced)
        /\ Len(Append(queue[p], batch[p])) <= Capacity
    BY <1>3, RuntimeAssumption DEF TypeOK
  <2> QED BY <2>1 DEF TypeOK
<1>5. sent' \in [Processes -> Seq(1 .. produced')]
  BY <1>3 DEF TypeOK
<1>6. TypeOK'
  <2>1. loop' \in [Processes -> LoopState]
    BY <1>1 DEF TypeOK, LoopState
  <2>2. batch' \in [Processes -> 0 .. produced'] /\ current' \in [Processes -> 0 .. produced']
    BY RuntimeAssumption DEF TypeOK, NoBatch
  <2>3. /\ signalled' \in [Processes -> BOOLEAN] /\ writer' \in [Processes -> WriterState]
        /\ limit' \in [Processes -> SampleLimits \cup {NoLimit}]
        /\ result' \in [Processes -> Result] /\ lock' \in Processes \cup {NoProcess}
        /\ produced' \in 0 .. MaxBatches /\ committed' \in [Processes -> Seq(1 .. produced')]
    BY DEF TypeOK
  <2> HIDE DEF IInv, Send, writerVars
  <2> QED BY <1>2, <1>4, <1>5, <2>1, <2>2, <2>3 DEF TypeOK
<1>7. HoldsBatch'
  BY <1>1 DEF HoldsBatch, TypeOK
<1>8. LockFollowsLoop'
  BY <1>1 DEF LockFollowsLoop, Running, TypeOK
<1> QED BY <1>6, <1>7, <1>8

\* A return releases the lock; with "ok" the writer must have ended.
LEMMA ReturnStep ==
    ASSUME IInv, NEW p \in Processes, NEW outcome \in {"ok", "error"}, Running(p),
           Returns(p, outcome), outcome = "ok" => writer[p] \in {"finished", "failed"},
           UNCHANGED <<signalled, limit, cycles, produced, queue, writerVars, sent>>,
           batch' = batch \/ batch' = [batch EXCEPT ![p] = NoBatch]
    PROVE  IInv'
<1> USE DEF IInv, Returns, writerVars
<1>1. TypeOK'
  <2>1. batch' \in [Processes -> 0 .. produced]
    <3>1. batch \in [Processes -> 0 .. produced] /\ NoBatch \in 0 .. produced
      BY RuntimeAssumption DEF TypeOK, NoBatch
    <3>2. CASE batch' = batch
      BY <3>1, <3>2
    <3>3. CASE batch' = [batch EXCEPT ![p] = NoBatch]
      BY <3>1, <3>3
    <3> QED BY <3>2, <3>3
  <2>2. /\ loop' \in [Processes -> LoopState] /\ result' \in [Processes -> Result]
        /\ lock' \in Processes \cup {NoProcess}
    BY DEF TypeOK, LoopState, Result
  <2> QED BY <2>1, <2>2 DEF TypeOK
<1>2. HoldsBatch'
  BY DEF HoldsBatch, TypeOK
<1>3. \A q \in Processes : Running(q) => q = p
  BY DEF LockFollowsLoop
<1>4. LockFollowsLoop'
  BY <1>3 DEF LockFollowsLoop, Running, TypeOK
<1> QED BY <1>1, <1>2, <1>4

LEMMA SendFailsStep ==
    ASSUME IInv, NEW p \in Processes, SendFails(p)
    PROVE  IInv'
BY ReturnStep DEF SendFails, Running

LEMMA SignalHandlerFailsStep ==
    ASSUME IInv, NEW p \in Processes, SignalHandlerFails(p)
    PROVE  IInv'
BY ReturnStep DEF SignalHandlerFails, Running

LEMMA JoinWriterStep ==
    ASSUME IInv, NEW p \in Processes, JoinWriter(p)
    PROVE  IInv'
BY ReturnStep DEF JoinWriter, Running

LEMMA ExitStep ==
    ASSUME IInv, NEW p \in Processes, Exit(p)
    PROVE  IInv'
<1> USE DEF IInv, Exit
<1>1. TypeOK'
  BY DEF TypeOK, LoopState, WriterState
<1>2. HoldsBatch'
  BY DEF HoldsBatch, TypeOK
<1>3. LockFollowsLoop'
  BY DEF LockFollowsLoop, Running, TypeOK
<1> QED BY <1>1, <1>2, <1>3

LEMMA OpenStorageStep ==
    ASSUME IInv, NEW p \in Processes, OpenStorage(p)
    PROVE  IInv'
<1> USE DEF IInv, OpenStorage, loopVars
<1>1. TypeOK'
  BY DEF TypeOK, WriterState
<1>2. HoldsBatch' /\ LockFollowsLoop'
  BY DEF HoldsBatch, LockFollowsLoop, Running, TypeOK
<1> QED BY <1>1, <1>2

LEMMA WriterFailsStep ==
    ASSUME IInv, NEW p \in Processes, WriterFails(p)
    PROVE  IInv'
<1> USE DEF IInv, WriterFails, loopVars
<1>1. TypeOK'
  <2>1. <<>> \in Seq(1 .. produced) /\ Len(<<>>) = 0
    OBVIOUS
  <2>2. /\ queue' \in [Processes -> Seq(1 .. produced)]
        /\ \A q \in Processes : Len(queue'[q]) <= Capacity
    BY <2>1, RuntimeAssumption DEF TypeOK
  <2>3. current' \in [Processes -> 0 .. produced]
    BY RuntimeAssumption DEF TypeOK, NoBatch
  <2>4. writer' \in [Processes -> WriterState]
    BY DEF TypeOK, WriterState
  <2> QED BY <2>2, <2>3, <2>4 DEF TypeOK
<1>2. HoldsBatch' /\ LockFollowsLoop'
  BY DEF HoldsBatch, LockFollowsLoop, Running, TypeOK
<1> QED BY <1>1, <1>2

LEMMA ReceiveStep ==
    ASSUME IInv, NEW p \in Processes, Receive(p)
    PROVE  IInv'
<1> USE DEF IInv, Receive, loopVars
<1>1. /\ Head(queue[p]) \in 1 .. produced
      /\ Tail(queue[p]) \in Seq(1 .. produced)
      /\ Len(Tail(queue[p])) <= Capacity
  <2>1. queue[p] \in Seq(1 .. produced) /\ queue[p] # <<>> /\ Len(queue[p]) <= Capacity
    BY DEF TypeOK
  <2>2. Len(Tail(queue[p])) = Len(queue[p]) - 1
    BY <2>1, HeadTailProperties
  <2>3. Head(queue[p]) \in 1 .. produced /\ Tail(queue[p]) \in Seq(1 .. produced)
    BY <2>1, HeadTailProperties
  <2> QED BY <2>1, <2>2, <2>3, RuntimeAssumption
<1>2. TypeOK'
  <2>1. /\ queue' \in [Processes -> Seq(1 .. produced)]
        /\ \A q \in Processes : Len(queue'[q]) <= Capacity
    BY <1>1 DEF TypeOK
  <2>2. current' \in [Processes -> 0 .. produced]
    <3>1. current \in [Processes -> 0 .. produced] /\ produced \in Nat
      BY RuntimeAssumption DEF TypeOK
    <3>2. current' = [current EXCEPT ![p] = Head(queue[p])]
      OBVIOUS
    <3> HIDE DEF IInv, Receive, loopVars
    <3>3. Head(queue[p]) \in 0 .. produced
      BY <1>1, <3>1
    <3> QED BY <3>1, <3>2, <3>3
  <2>3. writer' \in [Processes -> WriterState]
    BY DEF TypeOK, WriterState
  <2> QED BY <2>1, <2>2, <2>3 DEF TypeOK
<1>3. HoldsBatch'
  <2>1. Head(queue[p]) # NoBatch
    BY <1>1, RuntimeAssumption DEF TypeOK, NoBatch
  <2>2. /\ current' = [current EXCEPT ![p] = Head(queue[p])]
        /\ current \in [Processes -> 0 .. produced]
    BY DEF TypeOK
  <2> HIDE DEF Receive
  <2>3. writer' = [writer EXCEPT ![p] = "inserting"] /\ loop' = loop /\ batch' = batch
    BY DEF Receive
  <2>4. writer \in [Processes -> WriterState]
    BY DEF TypeOK
  <2> QED BY <2>1, <2>2, <2>3, <2>4 DEF HoldsBatch
<1>4. LockFollowsLoop'
  BY DEF LockFollowsLoop, Running, TypeOK
<1> QED BY <1>2, <1>3, <1>4

LEMMA CommitStep ==
    ASSUME IInv, NEW p \in Processes, Commit(p)
    PROVE  IInv'
<1> USE DEF IInv, Commit, loopVars
<1>1. current[p] \in 1 .. produced
  BY DEF TypeOK, HoldsBatch, NoBatch
<1>2. TypeOK'
  <2>1. committed' \in [Processes -> Seq(1 .. produced)]
    <3>1. committed \in [Processes -> Seq(1 .. produced)]
      BY DEF TypeOK
    <3>2. Append(committed[p], current[p]) \in Seq(1 .. produced)
      BY <1>1, <3>1, AppendProperties
    <3>3. committed' = [committed EXCEPT ![p] = Append(committed[p], current[p])]
      OBVIOUS
    <3> HIDE DEF IInv, Commit, loopVars
    <3> QED BY <3>1, <3>2, <3>3
  <2>2. current' \in [Processes -> 0 .. produced]
    BY RuntimeAssumption DEF TypeOK, NoBatch
  <2>3. writer' \in [Processes -> WriterState]
    BY DEF TypeOK, WriterState
  <2> QED BY <2>1, <2>2, <2>3 DEF TypeOK
<1>3. HoldsBatch' /\ LockFollowsLoop'
  BY DEF HoldsBatch, LockFollowsLoop, Running, TypeOK
<1> QED BY <1>2, <1>3

LEMMA FinishStep ==
    ASSUME IInv, NEW p \in Processes, Finish(p)
    PROVE  IInv'
<1> USE DEF IInv, Finish, loopVars
<1>1. TypeOK'
  <2>1. writer' \in [Processes -> WriterState]
    BY DEF TypeOK, WriterState
  <2> QED BY <2>1 DEF TypeOK
<1>2. HoldsBatch' /\ LockFollowsLoop'
  BY DEF HoldsBatch, LockFollowsLoop, Running, TypeOK
<1> QED BY <1>1, <1>2

LEMMA CrashStep ==
    ASSUME IInv, NEW p \in Processes, Crash(p)
    PROVE  IInv'
<1> USE DEF IInv, Crash
<1>1. TypeOK'
  <2>1. <<>> \in Seq(1 .. produced) /\ Len(<<>>) = 0
    OBVIOUS
  <2>2. /\ queue' \in [Processes -> Seq(1 .. produced)]
        /\ \A q \in Processes : Len(queue'[q]) <= Capacity
    BY <2>1, RuntimeAssumption DEF TypeOK
  <2>3. batch' \in [Processes -> 0 .. produced] /\ current' \in [Processes -> 0 .. produced]
    BY RuntimeAssumption DEF TypeOK, NoBatch
  <2>4. /\ loop' \in [Processes -> LoopState] /\ writer' \in [Processes -> WriterState]
        /\ result' \in [Processes -> Result] /\ lock' \in Processes \cup {NoProcess}
    BY DEF TypeOK, LoopState, WriterState, Result
  <2> QED BY <2>2, <2>3, <2>4 DEF TypeOK
<1>2. HoldsBatch'
  BY DEF HoldsBatch, TypeOK
<1>3. LockFollowsLoop'
  BY DEF LockFollowsLoop, Running, TypeOK
<1> QED BY <1>1, <1>2, <1>3

LEMMA NextInvariant == IInv /\ [Next]_vars => IInv'
<1> SUFFICES ASSUME IInv, [Next]_vars PROVE IInv'
  OBVIOUS
<1>1. CASE UNCHANGED vars
  <2>1. TypeOK'
    BY <1>1 DEF IInv, TypeOK, vars
  <2>2. HoldsBatch' /\ LockFollowsLoop'
    BY <1>1 DEF IInv, HoldsBatch, LockFollowsLoop, Running, vars
  <2> QED BY <2>1, <2>2 DEF IInv
<1>2. ASSUME NEW p \in Processes,
             \/ \E samples \in SampleLimits : Start(p, samples)
             \/ SignalArrives(p) \/ SignalHandlerFails(p) \/ Crash(p)
      PROVE  IInv'
  BY <1>2, StartStep, SignalArrivesStep, SignalHandlerFailsStep, CrashStep
<1>3. ASSUME NEW p \in Processes, LoopStep(p)
      PROVE  IInv'
  BY <1>3, BeginCycleStep, CollectBatchStep, CollectNothingStep, SendStep, SendFailsStep,
     ShutdownStep, JoinWriterStep, ExitStep DEF LoopStep
<1>4. ASSUME NEW p \in Processes, WriterStep(p)
      PROVE  IInv'
  BY <1>4, OpenStorageStep, ReceiveStep, CommitStep, WriterFailsStep, FinishStep DEF WriterStep
<1> QED BY <1>1, <1>2, <1>3, <1>4 DEF Next

\* The invariant gives the lock property: a writer that works belongs to a running loop,
\* which holds the lock, or to one that returned an error.
LEMMA InvariantGivesLock == IInv => WriterHoldsLock
<1> SUFFICES ASSUME IInv PROVE WriterHoldsLock
  OBVIOUS
<1>1. \A p \in Processes : ReceiverAlive(p) => lock = p \/ result[p] = "error"
  BY DEF IInv, TypeOK, LockFollowsLoop, Running, LoopState, WriterState, ReceiverAlive
<1> QED BY <1>1 DEF WriterHoldsLock

\* Type correctness of the loop, the channel, the writer and the lock, in particular that
\* the channel never exceeds its capacity.
THEOREM TypeCorrect == Spec => []TypeOK
<1>1. Init => IInv
  BY InitInvariant
<1>2. IInv /\ [Next]_vars => IInv'
  BY NextInvariant
<1>3. IInv => TypeOK
  BY DEF IInv
<1> QED BY <1>1, <1>2, <1>3, PTL DEF Spec

\* A writer works under its process's lock unless its loop has returned an error, for any
\* number of processes that are started, stopped and killed on one database.
THEOREM LockHeld == Spec => []WriterHoldsLock
<1>1. Init => IInv
  BY InitInvariant
<1>2. IInv /\ [Next]_vars => IInv'
  BY NextInvariant
<1>3. IInv => WriterHoldsLock
  BY InvariantGivesLock
<1> QED BY <1>1, <1>2, <1>3, PTL DEF Spec
----------------------------------------------------------------------------
(* The runtime implements BatchDelivery. *)

\* The batch the writer has taken from the channel and not committed yet.
InHand(p) == IF writer[p] = "inserting" THEN <<current[p]>> ELSE <<>>

\* No batch is lost or overtaken on its way: while the writer lives, what was sent is what is
\* committed, in hand and queued, in this order; a writer that finished has committed it all.
Pipeline ==
    \A p \in Processes :
        /\ ReceiverAlive(p) => sent[p] = committed[p] \o InHand(p) \o queue[p]
        /\ ~ReceiverAlive(p) => queue[p] = <<>>
        /\ writer[p] = "finished" => committed[p] = sent[p]
        /\ loop[p] = "returned" => result[p] # "none"

LEMMA TakeTheFirst ==
    ASSUME NEW S, NEW s \in Seq(S), NEW u \in Seq(S), u # <<>>
    PROVE  s \o <<>> \o u = s \o <<Head(u)>> \o Tail(u)
<1>1. Head(u) \in S /\ Tail(u) \in Seq(S)
  BY HeadTailProperties
<1>2. <<Head(u)>> \in Seq(S)
  BY <1>1
<1>3. u = <<Head(u)>> \o Tail(u)
  <2>1. Len(u) \in 1 .. Len(u)
    BY EmptySeq, LenProperties
  <2>2. 1 \in 1 .. Len(u) /\ Len(u) \in 1 .. Len(u)
    BY <2>1, LenProperties
  <2>3. SubSeq(u, 1, Len(u)) = <<u[1]>> \o SubSeq(u, 2, Len(u))
    BY <2>2, SubSeqRecursiveFirst
  <2>4. SubSeq(u, 1, Len(u)) = u /\ Tail(u) = SubSeq(u, 2, Len(u)) /\ Head(u) = u[1]
    BY SubSeqFull, TailIsSubSeq
  <2> QED BY <2>3, <2>4
<1>4. s \o <<>> = s
  BY ConcatEmptySeq
<1>5. (s \o <<Head(u)>>) \o Tail(u) = s \o (<<Head(u)>> \o Tail(u))
  BY <1>1, <1>2, ConcatAssociative
<1> QED BY <1>3, <1>4, <1>5

LEMMA CommitTheNext ==
    ASSUME NEW S, NEW s \in Seq(S), NEW e \in S, NEW u \in Seq(S),
           NEW all, all = s \o <<e>> \o u
    PROVE  /\ Append(s, e) = SubSeq(all, 1, Len(s) + 1)
           /\ Len(s) < Len(all)
           /\ all = Append(s, e) \o <<>> \o u
<1>1. Append(s, e) = s \o <<e>> /\ Append(s, e) \in Seq(S) /\ Len(Append(s, e)) = Len(s) + 1
  BY AppendIsConcat, AppendProperties
<1>2. Append(s, e) \o <<>> = Append(s, e)
  BY <1>1, ConcatEmptySeq
<1>3. Len(s) \in Nat /\ Len(u) \in Nat
  BY LenProperties
<1>4. Len(all) = Len(s) + 1 + Len(u)
  BY <1>1, ConcatProperties
<1>5. SubSeq(Append(s, e) \o u, 1, Len(s) + 1) = SubSeq(Append(s, e), 1, Len(s) + 1)
  BY <1>1, <1>3, SubSeqOfConcat1
<1>6. SubSeq(Append(s, e), 1, Len(s) + 1) = Append(s, e)
  BY <1>1, SubSeqFull
<1> QED BY <1>1, <1>2, <1>3, <1>4, <1>5, <1>6

LEMMA InHandType ==
    ASSUME IInv, NEW p \in Processes
    PROVE  InHand(p) \in Seq(1 .. produced)
<1>1. CASE writer[p] = "inserting"
  <2>1. current[p] \in 1 .. produced
    BY <1>1, RuntimeAssumption DEF IInv, TypeOK, HoldsBatch, NoBatch
  <2> QED BY <1>1, <2>1 DEF InHand
<1>2. CASE writer[p] # "inserting"
  BY <1>2 DEF InHand
<1> QED BY <1>1, <1>2

\* What Delivery sees of a step that changes the loop and the result of one process only.
LEMMA OthersKeepStatus ==
    ASSUME IInv, NEW p \in Processes, NEW to \in LoopState, NEW outcome \in Result,
           loop' = [loop EXCEPT ![p] = to], result' = [result EXCEPT ![p] = outcome]
    PROVE  [q \in Processes |-> StatusOf(q)']
              = [[q \in Processes |-> StatusOf(q)] EXCEPT ![p] = StatusOf(p)']
<1>1. \A q \in Processes \ {p} : loop'[q] = loop[q] /\ result'[q] = result[q]
  BY DEF IInv, TypeOK
<1>2. \A q \in Processes \ {p} : StatusOf(q)' = StatusOf(q)
  BY <1>1 DEF StatusOf
<1> QED BY <1>2

LEMMA StatusKept ==
    ASSUME UNCHANGED <<loop, result>>
    PROVE  [q \in Processes |-> StatusOf(q)'] = [q \in Processes |-> StatusOf(q)]
BY DEF StatusOf

\* The steps of the loop that neither send nor return.
LEMMA LoopMoves ==
    ASSUME IInv, Pipeline, NEW p \in Processes, Running(p),
           NEW to \in {"waiting", "collecting", "sending", "joining"},
           loop' = [loop EXCEPT ![p] = to],
           UNCHANGED <<result, queue, writer, current, committed, sent>>
    PROVE  Pipeline' /\ UNCHANGED Delivery!vars
<1>1. Pipeline'
  BY DEF IInv, TypeOK, Pipeline, ReceiverAlive, InHand
<1>2. StatusOf(p) = "running" /\ StatusOf(p)' = "running"
  BY DEF IInv, TypeOK, StatusOf, Running
<1>3. \A q \in Processes \ {p} : loop'[q] = loop[q] /\ result'[q] = result[q]
  BY DEF IInv, TypeOK
<1>4. \A q \in Processes : StatusOf(q)' = StatusOf(q)
  BY <1>2, <1>3 DEF StatusOf
<1> QED BY <1>1, <1>4 DEF Delivery!vars

LEMMA SendDelivers ==
    ASSUME IInv, Pipeline, NEW p \in Processes, Send(p)
    PROVE  Pipeline' /\ Delivery!Accept(p)
<1>1. PICK to \in {"waiting", "joining"} : loop' = [loop EXCEPT ![p] = to]
  BY CycleFacts DEF Send
<1>2. batch[p] \in 1 .. produced
  BY DEF Send, IInv, TypeOK, HoldsBatch, NoBatch
<1>3. /\ queue' = [queue EXCEPT ![p] = Append(queue[p], batch[p])]
      /\ sent' = [sent EXCEPT ![p] = Append(sent[p], batch[p])]
      /\ UNCHANGED <<result, writer, current, committed>>
      /\ loop[p] = "sending" /\ ReceiverAlive(p)
  BY DEF Send, writerVars
<1>4. /\ loop \in [Processes -> LoopState] /\ queue \in [Processes -> Seq(1 .. produced)]
      /\ sent \in [Processes -> Seq(1 .. produced)]
      /\ committed \in [Processes -> Seq(1 .. produced)]
      /\ current \in [Processes -> 0 .. produced]
  BY DEF IInv, TypeOK
<1>5. InHand(p) \in Seq(1 .. produced)
  BY InHandType
<1>6. Pipeline'
  <2>1. sent'[p] = committed'[p] \o InHand(p)' \o queue'[p]
    <3>1. sent[p] = committed[p] \o InHand(p) \o queue[p]
      BY <1>3 DEF Pipeline
    <3>2. Append(sent[p], batch[p]) = committed[p] \o InHand(p) \o Append(queue[p], batch[p])
      <4>1. committed[p] \in Seq(1 .. produced) /\ queue[p] \in Seq(1 .. produced)
        BY <1>4
      <4> DEFINE Batches == 1 .. produced
      <4> DEFINE ahead == committed[p] \o InHand(p)
      <4>2. /\ ahead \in Seq(Batches) /\ sent[p] \in Seq(Batches)
            /\ queue[p] \in Seq(Batches) /\ batch[p] \in Batches
        BY <1>2, <1>4, <1>5, <4>1, ConcatProperties
      <4>3. sent[p] = ahead \o queue[p]
        BY <3>1
      <4> DEFINE last == <<batch[p]>>
      <4> HIDE DEF Batches, ahead
      <4>4. last \in Seq(Batches)
        BY <4>2
      <4>5. /\ Append(sent[p], batch[p]) = sent[p] \o last
            /\ Append(queue[p], batch[p]) = queue[p] \o last
        BY <4>2, AppendIsConcat
      <4> HIDE DEF last
      <4>6. (ahead \o queue[p]) \o last = ahead \o (queue[p] \o last)
        <5>1. \A s, t, u \in Seq(Batches) : (s \o t) \o u = s \o (t \o u)
          BY ConcatAssociative
        <5> DEFINE waiting == queue[p]
        <5>2. waiting \in Seq(Batches)
          BY <4>2
        <5> HIDE DEF waiting
        <5>3. (ahead \o waiting) \o last = ahead \o (waiting \o last)
          BY <4>2, <4>4, <5>1, <5>2
        <5> QED BY <5>3 DEF waiting
      <4>7. Append(sent[p], batch[p]) = ahead \o Append(queue[p], batch[p])
        BY <4>3, <4>5, <4>6
      <4> QED BY <4>7 DEF ahead
    <3>3. InHand(p)' = InHand(p)
      BY <1>3 DEF InHand
    <3> QED BY <1>3, <1>4, <3>2, <3>3
  <2>2. loop'[p] # "returned"
    BY <1>1, <1>4
  <2>3. ReceiverAlive(p)' /\ writer'[p] # "finished"
    BY <1>3 DEF ReceiverAlive
  <2>4. ASSUME NEW q \in Processes \ {p}
        PROVE  /\ sent'[q] = sent[q] /\ committed'[q] = committed[q] /\ queue'[q] = queue[q]
               /\ InHand(q)' = InHand(q) /\ ReceiverAlive(q)' = ReceiverAlive(q)
               /\ writer'[q] = writer[q] /\ loop'[q] = loop[q] /\ result'[q] = result[q]
    BY <1>1, <1>3, <1>4 DEF InHand, ReceiverAlive
  <2> QED BY <2>1, <2>2, <2>3, <2>4 DEF Pipeline
<1>7. Delivery!Accept(p)
  <2>1. StatusOf(p) = "running" /\ StatusOf(p)' = "running"
    BY <1>1, <1>3, <1>4 DEF StatusOf
  <2>2. \A q \in Processes : StatusOf(q)' = StatusOf(q)
    BY <1>1, <1>3, <1>4, <2>1 DEF StatusOf
  <2>3. /\ Len(Append(sent[p], batch[p])) = Len(sent[p]) + 1
        /\ SubSeq(Append(sent[p], batch[p]), 1, Len(sent[p])) = sent[p]
    <3>1. sent[p] \in Seq(1 .. produced)
      BY <1>4
    <3>2. Len(Append(sent[p], batch[p])) = Len(sent[p]) + 1
      BY <1>2, <3>1, AppendProperties
    <3>3. SubSeq(Append(sent[p], batch[p]), 1, Len(sent[p])) = sent[p]
      <4> DEFINE longer == Append(sent[p], batch[p])
      <4>1. longer \in Seq(1 .. produced) /\ \A i \in 1 .. Len(sent[p]) : longer[i] = sent[p][i]
        BY <1>2, <3>1, AppendProperties
      <4>2. Len(sent[p]) \in Nat /\ Len(longer) = Len(sent[p]) + 1
        BY <3>1, <3>2, LenProperties
      <4> HIDE DEF longer
      <4>3. \A i \in 1 .. Len(sent[p]) : longer[i] \in 1 .. produced
        BY <3>1, <4>1, ElementOfSeq
      <4>4. /\ SubSeq(longer, 1, Len(sent[p])) \in Seq(1 .. produced)
            /\ Len(SubSeq(longer, 1, Len(sent[p]))) = Len(sent[p])
            /\ \A i \in 1 .. Len(sent[p]) : SubSeq(longer, 1, Len(sent[p]))[i] = longer[i]
        BY <4>2, <4>3, SubSeqProperties
      <4>5. SubSeq(longer, 1, Len(sent[p])) = sent[p]
        BY <3>1, <4>1, <4>4, SeqEqual
      <4> QED BY <4>5 DEF longer
    <3> QED BY <3>2, <3>3
  <2>4. sent'[p] = Append(sent[p], batch[p])
    BY <1>3, <1>4
  <2> QED BY <1>3, <2>1, <2>2, <2>3, <2>4 DEF Delivery!Accept
<1> QED BY <1>6, <1>7

\* A run that returns has failed, or its writer had committed everything.
LEMMA ReturnDelivers ==
    ASSUME IInv, Pipeline, NEW p \in Processes, NEW outcome \in {"ok", "error"}, Running(p),
           Returns(p, outcome), outcome = "ok" => writer[p] = "finished",
           UNCHANGED <<queue, writer, current, committed, sent>>
    PROVE  Pipeline' /\ (Delivery!Succeed(p) \/ Delivery!Fail(p))
<1>1. /\ loop' = [loop EXCEPT ![p] = "returned"] /\ result' = [result EXCEPT ![p] = outcome]
      /\ loop \in [Processes -> LoopState] /\ result \in [Processes -> Result]
  BY DEF Returns, IInv, TypeOK
<1>2. Pipeline'
  BY <1>1 DEF Pipeline, ReceiverAlive, InHand
<1>3. /\ StatusOf(p) = "running"
      /\ StatusOf(p)' = IF outcome = "ok" THEN "succeeded" ELSE "failed"
  BY <1>1 DEF StatusOf, Running
<1>4. [q \in Processes |-> StatusOf(q)']
        = [[q \in Processes |-> StatusOf(q)] EXCEPT ![p] = StatusOf(p)']
  BY <1>1, OthersKeepStatus DEF LoopState, Result
<1>5. CASE outcome = "ok"
  <2>1. committed[p] = sent[p]
    BY <1>5 DEF Pipeline
  <2> QED BY <1>2, <1>3, <1>4, <1>5, <2>1 DEF Delivery!Succeed
<1>6. CASE outcome = "error"
  BY <1>2, <1>3, <1>4, <1>6 DEF Delivery!Fail
<1> QED BY <1>5, <1>6

LEMMA StartDelivers ==
    ASSUME IInv, Pipeline, NEW p \in Processes, NEW samples \in SampleLimits, Start(p, samples)
    PROVE  Pipeline' /\ Delivery!Start(p)
<1>1. /\ loop[p] = "down" /\ loop' = [loop EXCEPT ![p] = "waiting"]
      /\ writer' = [writer EXCEPT ![p] = "opening"] /\ result' = [result EXCEPT ![p] = "none"]
      /\ sent' = [sent EXCEPT ![p] = <<>>] /\ committed' = [committed EXCEPT ![p] = <<>>]
      /\ queue' = queue /\ current' = current
  BY DEF Start
<1>2. /\ loop \in [Processes -> LoopState] /\ result \in [Processes -> Result]
      /\ writer \in [Processes -> WriterState] /\ DOMAIN sent = Processes
      /\ DOMAIN committed = Processes
  BY DEF IInv, TypeOK
<1>3. Pipeline'
  <2>1. queue[p] = <<>>
    BY <1>1 DEF IInv, LockFollowsLoop, Pipeline, ReceiverAlive
  <2>2. /\ sent'[p] = committed'[p] \o InHand(p)' \o queue'[p]
        /\ ReceiverAlive(p)' /\ writer'[p] # "finished" /\ loop'[p] # "returned"
    BY <1>1, <1>2, <2>1 DEF InHand, ReceiverAlive
  <2>3. ASSUME NEW q \in Processes \ {p}
        PROVE  /\ sent'[q] = sent[q] /\ committed'[q] = committed[q] /\ queue'[q] = queue[q]
               /\ InHand(q)' = InHand(q) /\ ReceiverAlive(q)' = ReceiverAlive(q)
               /\ writer'[q] = writer[q] /\ loop'[q] = loop[q] /\ result'[q] = result[q]
    BY <1>1, <1>2 DEF InHand, ReceiverAlive
  <2> QED BY <2>2, <2>3 DEF Pipeline
<1>4. Delivery!Start(p)
  <2>1. StatusOf(p) # "running" /\ StatusOf(p)' = "running"
    BY <1>1, <1>2 DEF StatusOf
  <2>2. [q \in Processes |-> StatusOf(q)']
          = [[q \in Processes |-> StatusOf(q)] EXCEPT ![p] = StatusOf(p)']
    BY <1>1, OthersKeepStatus DEF LoopState, Result
  <2> QED BY <1>1, <2>1, <2>2 DEF Delivery!Start
<1> QED BY <1>3, <1>4

LEMMA ExitDelivers ==
    ASSUME IInv, Pipeline, NEW p \in Processes, Exit(p)
    PROVE  Pipeline' /\ UNCHANGED Delivery!vars
<1>1. /\ loop[p] = "returned" /\ ~ReceiverAlive(p) /\ loop' = [loop EXCEPT ![p] = "down"]
      /\ writer' = [writer EXCEPT ![p] = "absent"]
      /\ UNCHANGED <<result, queue, current, committed, sent>>
  BY DEF Exit
<1>2. loop \in [Processes -> LoopState] /\ writer \in [Processes -> WriterState]
  BY DEF IInv, TypeOK
<1>3. Pipeline'
  <2>1. queue'[p] = <<>> /\ ~ReceiverAlive(p)' /\ writer'[p] # "finished" /\ loop'[p] # "returned"
    BY <1>1, <1>2 DEF Pipeline, ReceiverAlive
  <2>2. ASSUME NEW q \in Processes \ {p}
        PROVE  /\ sent'[q] = sent[q] /\ committed'[q] = committed[q] /\ queue'[q] = queue[q]
               /\ InHand(q)' = InHand(q) /\ ReceiverAlive(q)' = ReceiverAlive(q)
               /\ writer'[q] = writer[q] /\ loop'[q] = loop[q] /\ result'[q] = result[q]
    BY <1>1, <1>2 DEF InHand, ReceiverAlive
  <2> QED BY <2>1, <2>2 DEF Pipeline
<1>4. \A q \in Processes : StatusOf(q)' = StatusOf(q)
  BY <1>1, <1>2 DEF StatusOf
<1> QED BY <1>1, <1>3, <1>4 DEF Delivery!vars

\* A crash fails a run, unless it had returned before.
LEMMA CrashDelivers ==
    ASSUME IInv, Pipeline, NEW p \in Processes, Crash(p)
    PROVE  Pipeline' /\ (Delivery!Fail(p) \/ UNCHANGED Delivery!vars)
<1>1. /\ loop[p] # "down" /\ loop' = [loop EXCEPT ![p] = "down"]
      /\ writer' = [writer EXCEPT ![p] = "absent"] /\ queue' = [queue EXCEPT ![p] = <<>>]
      /\ current' = [current EXCEPT ![p] = NoBatch]
      /\ result' = [result EXCEPT ![p] = IF result[p] = "none" THEN "error" ELSE result[p]]
      /\ UNCHANGED <<committed, sent>>
  BY DEF Crash
<1>2. /\ loop \in [Processes -> LoopState] /\ writer \in [Processes -> WriterState]
      /\ result \in [Processes -> Result] /\ DOMAIN queue = Processes /\ DOMAIN current = Processes
  BY DEF IInv, TypeOK
<1>3. Pipeline'
  <2>1. queue'[p] = <<>> /\ ~ReceiverAlive(p)' /\ writer'[p] # "finished" /\ loop'[p] # "returned"
    BY <1>1, <1>2 DEF ReceiverAlive
  <2>2. ASSUME NEW q \in Processes \ {p}
        PROVE  /\ sent'[q] = sent[q] /\ committed'[q] = committed[q] /\ queue'[q] = queue[q]
               /\ InHand(q)' = InHand(q) /\ ReceiverAlive(q)' = ReceiverAlive(q)
               /\ writer'[q] = writer[q] /\ loop'[q] = loop[q] /\ result'[q] = result[q]
    BY <1>1, <1>2 DEF InHand, ReceiverAlive
  <2> QED BY <2>1, <2>2 DEF Pipeline
<1>4. CASE Running(p)
  <2>1. result[p] = "none"
    BY <1>4 DEF IInv, LockFollowsLoop
  <2>2. StatusOf(p) = "running" /\ StatusOf(p)' = "failed"
    BY <1>1, <1>2, <1>4, <2>1 DEF StatusOf, Running
  <2>3. result' = [result EXCEPT ![p] = "error"]
    BY <1>1, <2>1
  <2>4. [q \in Processes |-> StatusOf(q)']
          = [[q \in Processes |-> StatusOf(q)] EXCEPT ![p] = StatusOf(p)']
    BY <1>1, <2>3, OthersKeepStatus DEF LoopState, Result
  <2> QED BY <1>1, <1>3, <2>2, <2>4 DEF Delivery!Fail
<1>5. CASE ~Running(p)
  <2>1. loop[p] = "returned" /\ result[p] # "none"
    BY <1>1, <1>2, <1>5 DEF Running, LoopState, Pipeline
  <2>2. result' = result
    BY <1>1, <1>2, <2>1
  <2>3. \A q \in Processes : StatusOf(q)' = StatusOf(q)
    BY <1>1, <1>2, <2>1, <2>2 DEF StatusOf
  <2> QED BY <1>1, <1>3, <2>3 DEF Delivery!vars
<1> QED BY <1>4, <1>5

\* The writer's steps up to a commit are invisible in BatchDelivery.
LEMMA WriterMoves ==
    ASSUME IInv, Pipeline, NEW p \in Processes,
           OpenStorage(p) \/ Receive(p) \/ WriterFails(p) \/ Finish(p)
    PROVE  Pipeline' /\ UNCHANGED Delivery!vars
<1>1. /\ writer \in [Processes -> WriterState] /\ queue \in [Processes -> Seq(1 .. produced)]
      /\ committed \in [Processes -> Seq(1 .. produced)] /\ DOMAIN current = Processes
  BY DEF IInv, TypeOK
<1>2. UNCHANGED <<loop, result, committed, sent>>
  BY DEF OpenStorage, Receive, WriterFails, Finish, loopVars
<1>3. UNCHANGED Delivery!vars
  BY <1>2, StatusKept DEF Delivery!vars
<1>4. ASSUME NEW q \in Processes \ {p}
      PROVE  /\ sent'[q] = sent[q] /\ committed'[q] = committed[q] /\ queue'[q] = queue[q]
             /\ InHand(q)' = InHand(q) /\ ReceiverAlive(q)' = ReceiverAlive(q)
             /\ writer'[q] = writer[q] /\ loop'[q] = loop[q] /\ result'[q] = result[q]
  BY <1>1, <1>2 DEF OpenStorage, Receive, WriterFails, Finish, InHand, ReceiverAlive
<1>5. /\ ReceiverAlive(p)' => sent[p] = committed[p] \o InHand(p)' \o queue'[p]
      /\ ~ReceiverAlive(p)' => queue'[p] = <<>>
      /\ writer'[p] = "finished" => committed[p] = sent[p]
  <2>1. CASE OpenStorage(p)
    BY <1>1, <2>1 DEF OpenStorage, Pipeline, ReceiverAlive, InHand
  <2>2. CASE WriterFails(p)
    BY <1>1, <2>2 DEF WriterFails, ReceiverAlive
  <2>3. CASE Receive(p)
    <3>1. /\ writer[p] = "receiving" /\ writer' = [writer EXCEPT ![p] = "inserting"]
          /\ current' = [current EXCEPT ![p] = Head(queue[p])]
          /\ queue' = [queue EXCEPT ![p] = Tail(queue[p])] /\ queue[p] # <<>>
      BY <2>3 DEF Receive
    <3>2. sent[p] = committed[p] \o <<>> \o queue[p]
      BY <3>1 DEF Pipeline, ReceiverAlive, InHand
    <3>3. committed[p] \o <<>> \o queue[p]
            = committed[p] \o <<Head(queue[p])>> \o Tail(queue[p])
      <4> DEFINE done == committed[p]
                 waiting == queue[p]
      <4>1. done \in Seq(1 .. produced) /\ waiting \in Seq(1 .. produced) /\ waiting # <<>>
        BY <1>1, <3>1
      <4> HIDE DEF done, waiting
      <4>2. done \o <<>> \o waiting = done \o <<Head(waiting)>> \o Tail(waiting)
        BY <4>1, TakeTheFirst
      <4> QED BY <4>2 DEF done, waiting
    <3>4. InHand(p)' = <<Head(queue[p])>> /\ queue'[p] = Tail(queue[p]) /\ ReceiverAlive(p)'
      BY <1>1, <3>1 DEF InHand, ReceiverAlive
    <3>5. writer'[p] # "finished"
      BY <1>1, <3>1
    <3> QED BY <3>2, <3>3, <3>4, <3>5
  <2>4. CASE Finish(p)
    <3>1. writer[p] = "receiving" /\ queue[p] = <<>> /\ queue' = queue
      BY <2>4 DEF Finish
    <3>2. sent[p] = committed[p] \o <<>> \o <<>>
      BY <3>1 DEF Pipeline, ReceiverAlive, InHand
    <3>3. committed[p] \o <<>> = committed[p]
      BY <1>1, ConcatEmptySeq
    <3>4. ~ReceiverAlive(p)'
      BY <1>1, <2>4 DEF Finish, ReceiverAlive
    <3> QED BY <3>1, <3>2, <3>3, <3>4
  <2> QED BY <2>1, <2>2, <2>3, <2>4
<1>6. Pipeline'
  BY <1>2, <1>4, <1>5 DEF Pipeline
<1> QED BY <1>3, <1>6

LEMMA CommitDelivers ==
    ASSUME IInv, Pipeline, NEW p \in Processes, Commit(p)
    PROVE  Pipeline' /\ Delivery!Store(p)
<1>1. /\ writer[p] = "inserting" /\ writer' = [writer EXCEPT ![p] = "receiving"]
      /\ committed' = [committed EXCEPT ![p] = Append(committed[p], current[p])]
      /\ current' = [current EXCEPT ![p] = NoBatch]
      /\ UNCHANGED <<loop, result, queue, sent>>
  BY DEF Commit, loopVars
<1>2. /\ writer \in [Processes -> WriterState] /\ queue \in [Processes -> Seq(1 .. produced)]
      /\ committed \in [Processes -> Seq(1 .. produced)] /\ DOMAIN current = Processes
      /\ loop \in [Processes -> LoopState] /\ result \in [Processes -> Result]
  BY DEF IInv, TypeOK
<1>3. current[p] \in 1 .. produced
  BY <1>1, RuntimeAssumption DEF IInv, TypeOK, HoldsBatch, NoBatch
<1>4. sent[p] = committed[p] \o <<current[p]>> \o queue[p]
  BY <1>1 DEF Pipeline, ReceiverAlive, InHand
<1>5. /\ Append(committed[p], current[p]) = SubSeq(sent[p], 1, Len(committed[p]) + 1)
      /\ Len(committed[p]) < Len(sent[p])
      /\ sent[p] = Append(committed[p], current[p]) \o <<>> \o queue[p]
  <2> DEFINE Batches == 1 .. produced
             done == committed[p]
             next == current[p]
             waiting == queue[p]
             all == sent[p]
  <2>1. done \in Seq(Batches) /\ next \in Batches /\ waiting \in Seq(Batches)
    BY <1>2, <1>3
  <2>2. all = done \o <<next>> \o waiting
    BY <1>4
  <2> HIDE DEF Batches, done, next, waiting, all
  <2>3. ASSUME NEW s \in Seq(Batches), NEW e \in Batches, NEW u \in Seq(Batches),
               all = s \o <<e>> \o u
        PROVE  /\ Append(s, e) = SubSeq(all, 1, Len(s) + 1)
               /\ Len(s) < Len(all)
               /\ all = Append(s, e) \o <<>> \o u
    BY <2>3, CommitTheNext
  <2>4. /\ Append(done, next) = SubSeq(all, 1, Len(done) + 1)
        /\ Len(done) < Len(all)
        /\ all = Append(done, next) \o <<>> \o waiting
    BY ONLY <2>1, <2>2, <2>3
  <2> QED BY <2>4 DEF done, next, waiting, all
<1>6. Pipeline'
  <2>1. /\ sent'[p] = committed'[p] \o InHand(p)' \o queue'[p]
        /\ ReceiverAlive(p)' /\ writer'[p] # "finished"
    <3>1. /\ committed'[p] = Append(committed[p], current[p]) /\ writer'[p] = "receiving"
          /\ queue'[p] = queue[p] /\ sent'[p] = sent[p]
      BY <1>1, <1>2
    <3> QED BY <1>5, <3>1 DEF InHand, ReceiverAlive
  <2>2. ASSUME NEW q \in Processes \ {p}
        PROVE  /\ sent'[q] = sent[q] /\ committed'[q] = committed[q] /\ queue'[q] = queue[q]
               /\ InHand(q)' = InHand(q) /\ ReceiverAlive(q)' = ReceiverAlive(q)
               /\ writer'[q] = writer[q] /\ loop'[q] = loop[q] /\ result'[q] = result[q]
    BY <1>1, <1>2 DEF InHand, ReceiverAlive
  <2> QED BY <1>1, <2>1, <2>2 DEF Pipeline
<1>7. Delivery!Store(p)
  <2>1. StatusOf(p) \in {"running", "failed"}
    BY <1>1, <1>2 DEF StatusOf, IInv, LockFollowsLoop, LoopState
  <2>2. [q \in Processes |-> StatusOf(q)'] = [q \in Processes |-> StatusOf(q)]
    BY <1>1, StatusKept
  <2> QED BY <1>1, <1>5, <2>1, <2>2 DEF Delivery!Store
<1> QED BY <1>6, <1>7

LEMMA LoopDelivers ==
    ASSUME IInv, Pipeline, NEW p \in Processes, LoopStep(p)
    PROVE  Pipeline' /\ [Delivery!Next]_Delivery!vars
<1>1. CASE BeginCycle(p) \/ Shutdown(p) \/ CollectBatch(p)
  BY <1>1, LoopMoves DEF BeginCycle, Shutdown, CollectBatch, writerVars, Running
<1>2. CASE CollectNothing(p)
  <2>1. PICK to \in {"waiting", "joining"} : loop' = [loop EXCEPT ![p] = to]
    BY <1>2, CycleFacts DEF CollectNothing
  <2> QED BY <1>2, <2>1, LoopMoves DEF CollectNothing, writerVars, Running
<1>3. CASE Send(p)
  BY <1>3, SendDelivers DEF Delivery!Next
<1>4. CASE SendFails(p)
  <2>1. Delivery!Succeed(p) \/ Delivery!Fail(p)
    BY <1>4, ReturnDelivers DEF SendFails, Running, writerVars
  <2>2. Pipeline'
    BY <1>4, ReturnDelivers DEF SendFails, Running, writerVars
  <2> QED BY <2>1, <2>2 DEF Delivery!Next
<1>5. CASE JoinWriter(p)
  <2>1. Pipeline' /\ (Delivery!Succeed(p) \/ Delivery!Fail(p))
    BY <1>5, ReturnDelivers DEF JoinWriter, Running, writerVars
  <2> QED BY <2>1 DEF Delivery!Next
<1>6. CASE Exit(p)
  BY <1>6, ExitDelivers
<1> QED BY <1>1, <1>2, <1>3, <1>4, <1>5, <1>6 DEF LoopStep

LEMMA StepDelivers ==
    ASSUME IInv, Pipeline, [Next]_vars
    PROVE  Pipeline' /\ [Delivery!Next]_Delivery!vars
<1>1. CASE UNCHANGED vars
  <2>1. UNCHANGED <<loop, result, queue, writer, current, committed, sent>>
    BY <1>1 DEF vars
  <2>2. Pipeline'
    BY <2>1 DEF Pipeline, ReceiverAlive, InHand
  <2> QED BY <2>1, <2>2, StatusKept DEF Delivery!vars
<1>2. ASSUME NEW p \in Processes, NEW samples \in SampleLimits, Start(p, samples)
      PROVE  Pipeline' /\ [Delivery!Next]_Delivery!vars
  BY <1>2, StartDelivers DEF Delivery!Next
<1>3. ASSUME NEW p \in Processes, SignalArrives(p)
      PROVE  Pipeline' /\ [Delivery!Next]_Delivery!vars
  <2>1. UNCHANGED <<loop, result, queue, writer, current, committed, sent>>
    BY <1>3 DEF SignalArrives, writerVars
  <2>2. Pipeline'
    BY <2>1 DEF Pipeline, ReceiverAlive, InHand
  <2> QED BY <2>1, <2>2, StatusKept DEF Delivery!vars
<1>4. ASSUME NEW p \in Processes, SignalHandlerFails(p)
      PROVE  Pipeline' /\ [Delivery!Next]_Delivery!vars
  <2>1. Pipeline' /\ (Delivery!Succeed(p) \/ Delivery!Fail(p))
    BY <1>4, ReturnDelivers DEF SignalHandlerFails, Running, writerVars
  <2> QED BY <2>1 DEF Delivery!Next
<1>5. ASSUME NEW p \in Processes, Crash(p)
      PROVE  Pipeline' /\ [Delivery!Next]_Delivery!vars
  BY <1>5, CrashDelivers DEF Delivery!Next
<1>6. ASSUME NEW p \in Processes, WriterStep(p)
      PROVE  Pipeline' /\ [Delivery!Next]_Delivery!vars
  BY <1>6, WriterMoves, CommitDelivers DEF WriterStep, Delivery!Next
<1> QED BY <1>1, <1>2, <1>3, <1>4, <1>5, <1>6, LoopDelivers DEF Next

\* However full the channel, whenever a signal, a limit, an error or a crash ends a run, and
\* however many processes work on the database: the batches of a run are stored in order and
\* without a gap, and all of them if it returns Ok.
THEOREM DeliveryImplemented == Spec => DeliversBatches
<1>1. Init => Pipeline /\ Delivery!Init
  <2> SUFFICES ASSUME Init PROVE Pipeline /\ Delivery!Init
    OBVIOUS
  <2>1. Pipeline
    BY DEF Init, Pipeline, ReceiverAlive
  <2>2. \A p \in Processes : StatusOf(p) = "idle"
    BY DEF Init, StatusOf
  <2> QED BY <2>1, <2>2 DEF Init, Delivery!Init
<1>2. IInv /\ Pipeline /\ [Next]_vars => Pipeline' /\ [Delivery!Next]_Delivery!vars
  BY StepDelivers
<1> QED BY <1>1, <1>2, InitInvariant, NextInvariant, PTL DEF Spec, DeliversBatches, Delivery!Spec
=============================================================================
