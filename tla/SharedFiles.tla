---------------------------- MODULE SharedFiles ----------------------------
(***************************************************************************)
(* The commands of src/main.rs that share the log and the database.  Every *)
(* command opens the log first; run, status, events, processes and report  *)
(* then open the database for writing, and with it upgrade an old one; the *)
(* dashboard opens it read-only for each request.  At the default level    *)
(* only run logs.  The instance lock keeps a second run from the same      *)
(* database, not from the same log: it may work on another database.       *)
(***************************************************************************)
EXTENDS LogRotation, SchemaMigration

CONSTANTS
    MaxLaunches,    \* bound: how often a command is started
    EarlyRecords    \* bound: records written before the database is current

ASSUME CommandsAssumption == MaxLaunches \in Nat /\ EarlyRecords \in Nat

VARIABLES
    command,        \* process -> what it was started as
    launches        \* how many commands have been started

vars == <<logVars, migrationVars, command, launches>>

\* "query" is status, events, processes or report; "elsewhere" a run on another database.
Commands == {"run", "elsewhere", "query", "dashboard"}
None == "none"

Init ==
    /\ LogInit
    /\ MigrationInit
    /\ command = [p \in Processes |-> None]
    /\ launches = 0

Launch(p, c) ==
    /\ command[p] = None
    /\ launches < MaxLaunches
    /\ c = "run" => \A q \in Processes : command[q] # "run"
    /\ command' = [command EXCEPT ![p] = c]
    /\ launches' = launches + 1
    /\ OpenLog(p)
    /\ UNCHANGED migrationVars

Log(p) ==
    /\ command[p] \in {"run", "elsewhere"}
    /\ WriteLog(p)
    /\ database.version = CurrentVersion \/ SumFunction(acknowledged') <= EarlyRecords
    /\ UNCHANGED <<migrationVars, command, launches>>

UseDatabase(p) ==
    /\ \/ command[p] \in {"run", "query"} /\ OpenDatabase(p)
       \/ command[p] = "run" /\ InsertRow(p)
       \/ command[p] = "dashboard" /\ (OpenReadOnly(p) \/ CloseReadOnly(p))
    /\ UNCHANGED <<logVars, command, launches>>

\* It has done its work, a step has failed, or it is killed.
End(p) ==
    /\ command[p] # None
    /\ command' = [command EXCEPT ![p] = None]
    /\ CloseLog(p)
    /\ CloseDatabase(p)
    /\ UNCHANGED launches

Next ==
    \E p \in Processes :
        \/ \E c \in Commands : Launch(p, c)
        \/ Log(p)
        \/ UseDatabase(p)
        \/ End(p)

Spec == Init /\ [][Next]_vars

----------------------------------------------------------------------------
(* Properties. *)

TypeOK ==
    /\ LogTypeOK
    /\ MigrationTypeOK
    /\ command \in [Processes -> Commands \cup {None}]
    /\ launches \in 0 .. MaxLaunches
    /\ \A p \in Processes : command[p] = None => logger[p] = Closed /\ connection[p] = NoConnection
    /\ \A p \in Processes : Stage(p) # "closed" => logger[p].file # NoFile
=============================================================================
