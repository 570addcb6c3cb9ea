--------------------------- MODULE AtomicUpgrade ---------------------------
(***************************************************************************)
(* What opening a database promises: its upgrade happens at most once and  *)
(* at a stroke, takes nothing away but the rows of the retired GPU         *)
(* monitoring, and only then does anyone use the database.                 *)
(***************************************************************************)
EXTENDS Integers

CONSTANTS
    Processes,
    CurrentVersion,
    CurrentLayout,
    GpuRows

VARIABLES version, layout, rows, users

abstractVars == <<version, layout, rows, users>>

Init == users = {}

Upgrade ==
    /\ version < CurrentVersion
    /\ version' = CurrentVersion
    /\ layout' = CurrentLayout
    /\ rows' = rows \ GpuRows

Insert(p) ==
    /\ p \in users
    /\ rows \subseteq rows' /\ (rows' \ rows) \cap GpuRows = {}
    /\ UNCHANGED <<version, layout, users>>

\* The upgrade makes its process a user.
UpgradeAndJoin(p) == Upgrade /\ users' = users \cup {p}

Join(p) ==
    /\ version = CurrentVersion /\ layout = CurrentLayout
    /\ users' = users \cup {p}
    /\ UNCHANGED <<version, layout, rows>>

Leave(p) ==
    /\ users' = users \ {p}
    /\ UNCHANGED <<version, layout, rows>>

Next == \E p \in Processes : Insert(p) \/ UpgradeAndJoin(p) \/ Join(p) \/ Leave(p)

Spec == Init /\ [][Next]_abstractVars
=============================================================================
