-------------------------- MODULE DashboardServer --------------------------
(***************************************************************************)
(* The dashboard server of src/dashboard.rs: handlers around a semaphore   *)
(* of query slots, each of which runs its query on a blocking thread, and  *)
(* the graceful stop.  The queries themselves only read.                   *)
(***************************************************************************)
EXTENDS Naturals, FiniteSets

CONSTANTS
    Requests,   \* the requests that can be in progress at once
    Slots       \* MAX_CONCURRENT_QUERIES

ASSUME ServerAssumption == Slots \in Nat \ {0} /\ IsFiniteSet(Requests)

VARIABLES
    server,     \* "up", "draining" after the signal, "down"
    permits,    \* what query_slots has left
    handler,    \* the future that serves a request, with its permit
    query       \* the closure on the blocking thread

serverVars == <<server, permits, handler, query>>

ServerTypeOK ==
    /\ server \in {"up", "draining", "down"}
    /\ permits \in 0 .. Slots
    /\ handler \in [Requests -> {"none", "querying"}]
    /\ query \in [Requests -> {"none", "running", "done"}]

ServerInit ==
    /\ server = "up"
    /\ permits = Slots
    /\ handler = [q \in Requests |-> "none"]
    /\ query = [q \in Requests |-> "none"]

\* Slip: a request that comes after the signal is still accepted.
Busy_AcceptsWhileDraining == permits = 0

\* try_acquire_owned has nothing to give, or nobody listens any more.
Busy == permits = 0 \/ server # "up"

Free(q) == handler[q] = "none" /\ query[q] = "none"

\* A permit is taken and the query moves to a blocking thread.
Admit(q) ==
    /\ Free(q)
    /\ ~Busy
    /\ permits' = permits - 1
    /\ handler' = [handler EXCEPT ![q] = "querying"]
    /\ query' = [query EXCEPT ![q] = "running"]
    /\ UNCHANGED server

\* Slip: the permit is given back with the query, and again with the handler.
FinishQuery_Releases(q) ==
    /\ query[q] = "running"
    /\ query' = [query EXCEPT ![q] = IF handler[q] = "querying" THEN "done" ELSE "none"]
    /\ permits' = permits + 1
    /\ UNCHANGED <<server, handler>>

\* The closure ends.  If nobody awaits it any more, its result is dropped.
FinishQuery(q) ==
    /\ query[q] = "running"
    /\ query' = [query EXCEPT ![q] = IF handler[q] = "querying" THEN "done" ELSE "none"]
    /\ UNCHANGED <<server, permits, handler>>

\* The handler returns, with the data or with the query's error.
Respond(q) ==
    /\ handler[q] = "querying"
    /\ query[q] = "done"
    /\ handler' = [handler EXCEPT ![q] = "none"]
    /\ query' = [query EXCEPT ![q] = "none"]
    /\ permits' = permits + 1
    /\ UNCHANGED server

\* Slip: the permit is not given back on this path.
Disconnect_Leaks(q) ==
    /\ handler[q] = "querying"
    /\ handler' = [handler EXCEPT ![q] = "none"]
    /\ query' = [query EXCEPT ![q] = IF @ = "done" THEN "none" ELSE @]
    /\ UNCHANGED <<server, permits>>

\* The client goes away.  The handler's future is dropped and its permit with it; a closure
\* on a blocking thread cannot be stopped and runs on.
Disconnect(q) ==
    /\ handler[q] = "querying"
    /\ handler' = [handler EXCEPT ![q] = "none"]
    /\ query' = [query EXCEPT ![q] = IF @ = "done" THEN "none" ELSE @]
    /\ permits' = permits + 1
    /\ UNCHANGED server

\* shutdown_signal: the listener accepts nothing more.
Signal ==
    /\ server = "up"
    /\ server' = "draining"
    /\ UNCHANGED <<permits, handler, query>>

\* Every handler has returned, and the runtime has waited for the blocking threads.
Stop ==
    /\ server = "draining"
    /\ \A q \in Requests : Free(q)
    /\ server' = "down"
    /\ UNCHANGED <<permits, handler, query>>

----------------------------------------------------------------------------
(* Properties. *)

\* Whatever way a handler ends, each slot is either free or held by one request: no slot is
\* lost and none is handed out twice.
SlotsAreAccountedFor ==
    permits + Cardinality({q \in Requests : handler[q] = "querying"}) = Slots

\* domain-models.md: dashboard queries run with a four-query admission limit.  (A client that
\* goes away refutes it: its slot is free again while its query still runs.)
QueriesAreBounded == Cardinality({q \in Requests : query[q] = "running"}) <= Slots
=============================================================================
