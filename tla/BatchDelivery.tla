--------------------------- MODULE BatchDelivery ---------------------------
(***************************************************************************)
(* What the profiler promises about its batches, whatever the channel, the *)
(* writer task and the shutdown do: the batches a run accepted are stored  *)
(* in order and without a gap, and a run that ends without an error has    *)
(* stored them all.  Each process runs many times.                         *)
(***************************************************************************)
EXTENDS Naturals, Sequences

CONSTANT Processes

VARIABLES
    status,     \* of the current or latest run of each process
    accepted,   \* the batches it has accepted, in order
    stored      \* those of them that are stored, in the order they were

vars == <<status, accepted, stored>>

Init ==
    /\ status = [p \in Processes |-> "idle"]
    /\ accepted = [p \in Processes |-> <<>>]
    /\ stored = [p \in Processes |-> <<>>]

Start(p) ==
    /\ status[p] # "running"
    /\ status' = [status EXCEPT ![p] = "running"]
    /\ accepted' = [accepted EXCEPT ![p] = <<>>]
    /\ stored' = [stored EXCEPT ![p] = <<>>]

Accept(p) ==
    /\ status[p] = "running"
    /\ Len(accepted'[p]) = Len(accepted[p]) + 1
    /\ SubSeq(accepted'[p], 1, Len(accepted[p])) = accepted[p]
    /\ accepted' = [accepted EXCEPT ![p] = accepted'[p]]
    /\ UNCHANGED <<status, stored>>

\* A run that fails may still store what it had accepted.
Store(p) ==
    /\ status[p] \in {"running", "failed"}
    /\ Len(stored[p]) < Len(accepted[p])
    /\ stored' = [stored EXCEPT ![p] = SubSeq(accepted[p], 1, Len(stored[p]) + 1)]
    /\ UNCHANGED <<status, accepted>>

Succeed(p) ==
    /\ status[p] = "running"
    /\ stored[p] = accepted[p]
    /\ status' = [status EXCEPT ![p] = "succeeded"]
    /\ UNCHANGED <<accepted, stored>>

Fail(p) ==
    /\ status[p] = "running"
    /\ status' = [status EXCEPT ![p] = "failed"]
    /\ UNCHANGED <<accepted, stored>>

Next ==
    \E p \in Processes : Start(p) \/ Accept(p) \/ Store(p) \/ Succeed(p) \/ Fail(p)

Spec == Init /\ [][Next]_vars
=============================================================================
