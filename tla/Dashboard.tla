----------------------------- MODULE Dashboard -----------------------------
(***************************************************************************)
(* The dashboard: one browser tab (DashboardClient) and the server         *)
(* (DashboardServer), whose query slots the tab shares with other tabs and *)
(* with its own requests whose answer nobody waits for any more.           *)
(***************************************************************************)
EXTENDS DashboardServer, DashboardClient

VARIABLE purpose    \* which request of the refresh in flight a handler serves, if any

vars == <<serverVars, clientVars, purpose>>

Other == "other"

TypeOK ==
    /\ ServerTypeOK
    /\ ClientTypeOK
    /\ purpose \in [Requests -> Parts \cup {Other}]

Init ==
    /\ ServerInit
    /\ ClientInit
    /\ purpose = [q \in Requests |-> Other]

\* The request has left the browser and has not reached a handler.
Underway(part) == part \in awaiting /\ \A q \in Requests : purpose[q] # part

\* Nobody waits for the other request of a refresh that has failed.
Abandon == purpose' = [q \in Requests |-> Other]

----------------------------------------------------------------------------
Reaches(part) ==
    /\ Underway(part)
    /\ \E q \in Requests : Admit(q) /\ purpose' = [purpose EXCEPT ![q] = part]
    /\ UNCHANGED clientVars

\* 503, or no connection.
IsRefused(part) ==
    /\ Underway(part)
    /\ Busy
    /\ FailedAnswer(part)
    /\ Abandon
    /\ UNCHANGED serverVars

Succeeds(q) ==
    /\ Respond(q)
    /\ purpose[q] \in Parts
    /\ FirstAnswer(purpose[q]) \/ LastAnswer(purpose[q])
    /\ purpose' = [purpose EXCEPT ![q] = Other]

\* The query returned an error, status 500.
Fails(q) ==
    /\ Respond(q)
    /\ purpose[q] \in Parts
    /\ FailedAnswer(purpose[q])
    /\ Abandon

\* Bound: other tabs leave a request number for each request of this one that is under way.
RoomForOthers ==
    Cardinality({q \in Requests : Free(q)}) > Cardinality({part \in Parts : Underway(part)})

\* Other tabs, and abandoned requests.
OtherReaches(q) ==
    /\ RoomForOthers
    /\ Admit(q)
    /\ UNCHANGED <<clientVars, purpose>>

OtherIsAnswered(q) ==
    /\ purpose[q] = Other
    /\ Respond(q)
    /\ UNCHANGED <<clientVars, purpose>>

OtherGoesAway(q) ==
    /\ purpose[q] = Other
    /\ Disconnect(q)
    /\ UNCHANGED <<clientVars, purpose>>

QueryEnds(q) ==
    /\ FinishQuery(q)
    /\ UNCHANGED <<clientVars, purpose>>

ServerStops ==
    /\ Signal \/ Stop
    /\ UNCHANGED <<clientVars, purpose>>

ClientSteps ==
    /\ UserStep \/ TimerStep
    /\ UNCHANGED <<serverVars, purpose>>

Next ==
    \/ ClientSteps
    \/ \E part \in Parts : Reaches(part) \/ IsRefused(part)
    \/ \E q \in Requests : Succeeds(q) \/ Fails(q) \/ QueryEnds(q)
    \/ \E q \in Requests : OtherReaches(q) \/ OtherIsAnswered(q) \/ OtherGoesAway(q)
    \/ ServerStops

\* Requests travel, queries are bounded and end, handlers are polled, timers fire, and a
\* server that has drained stops.
Fairness ==
    /\ \A part \in Parts : WF_vars(Reaches(part) \/ IsRefused(part))
    /\ \A q \in Requests : WF_vars(QueryEnds(q))
    /\ \A q \in Requests : WF_vars(Succeeds(q) \/ Fails(q) \/ OtherIsAnswered(q))
    /\ WF_vars(NavTimerFires /\ UNCHANGED <<serverVars, purpose>>)
    /\ WF_vars(Stop /\ UNCHANGED <<clientVars, purpose>>)

Spec == Init /\ [][Next]_vars /\ Fairness

----------------------------------------------------------------------------
(* Properties. *)

\* Left alone, the tab ends up showing the range that is chosen, or says that it cannot: no
\* refresh hangs or is forgotten, whatever was in flight when the user stopped, whoever else
\* holds the query slots, and also when the server stops.
SettlesWhenLeftAlone ==
    <>[][~UserStep]_clientVars =>
        []<>(badge = "error" \/ (badge = "healthy" /\ snapshot = range))

\* Ctrl-C ends the server after the requests that it has admitted.
StopCompletes == server = "draining" ~> server = "down"
=============================================================================
