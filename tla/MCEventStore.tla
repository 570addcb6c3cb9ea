---------------------------- MODULE MCEventStore ----------------------------
(* EventStore with one key that has a sample at any time, whose rule may   *)
(* leave the configuration, and one that has a single critical sample,     *)
(* which meets the first key at every point of its history.                *)
EXTENDS EventStore, TLC

CONSTANTS busy, single

KeyValues == busy :> {1, 3, 4, 5} @@ single :> {5}
KeySamples == busy :> MaxTime @@ single :> 1
KeyConfigurations == {Keys, {single}}
=============================================================================
