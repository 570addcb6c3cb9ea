--------------------------- MODULE ServiceManager ---------------------------
(***************************************************************************)
(* The service commands of src/service.rs: install, start, stop, restart   *)
(* and uninstall, each a sequence of file operations and launchctl calls.  *)
(* Between any two of them the service's process may end, launchd may      *)
(* start it again, and the command itself may fail or be interrupted.      *)
(*                                                                         *)
(* launchd is external: what it does is what the commands rely on and what *)
(* the property list written by render_plist asks of it.                   *)
(***************************************************************************)
EXTENDS Integers

CONSTANTS
    MaxVersion,     \* bound: versions of the program
    MaxCrashes      \* bound: processes that end without success

ASSUME ServiceAssumption == MaxVersion \in Nat \ {0} /\ MaxCrashes \in Nat

VARIABLES
    plist,          \* the property list is in place: status().installed
    binary,         \* version of the installed program, 0 if there is none
    launcher,       \* what is at the path of the command line launcher
    data,           \* the configuration, with the database and the logs
    job,            \* launchd: the job
    process,        \* launchd: the version that the job's process runs, 0 if it has none
    terminating,    \* the process has received SIGTERM
    due,            \* launchd is about to start a process: RunAtLoad, KeepAlive
    crashes,
    pc,             \* the command: its next step
    command,        \* what was asked for
    last,           \* how the last command ended
    veteran         \* history: the process is the one that ran when the command began

files == <<plist, binary, launcher, data>>
launchd == <<job, process, terminating, due, crashes, veteran>>
cli == <<pc, command, last>>
vars == <<files, launchd, cli>>

Versions == 1 .. MaxVersion
Commands ==
    [name : {"install"}, version : Versions]
    \cup [name : {"start", "stop", "restart", "uninstall", "uninstall --purge"}]
NoCommand == [name |-> "none"]
Steps == {"idle", "check launcher", "copy binary", "write config", "write plist",
          "write launcher", "query", "bootout", "await unloaded", "bootstrap", "start",
          "start if not running", "kickstart", "stop", "kill", "await stopped",
          "remove launcher", "remove plist", "remove binary", "purge"}

\* Type correctness; no process without its job; and what is installed can be run.
TypeOK ==
    /\ plist \in BOOLEAN /\ data \in BOOLEAN
    /\ binary \in Versions \cup {0}
    /\ launcher \in {"none", "managed", "unmanaged"}
    /\ job \in {"unloaded", "loaded", "unloading"}
    /\ process \in Versions \cup {0}
    /\ terminating \in BOOLEAN /\ due \in BOOLEAN /\ veteran \in BOOLEAN
    /\ crashes \in 0 .. MaxCrashes
    /\ pc \in Steps
    /\ command \in Commands \cup {NoCommand}
    /\ last \in [name : {c.name : c \in Commands \cup {NoCommand}},
                 ok : BOOLEAN, terminating : BOOLEAN]
    /\ process # 0 => job # "unloaded"
    /\ plist => binary # 0

Init ==
    /\ plist = FALSE /\ binary = 0 /\ data = FALSE
    /\ launcher \in {"none", "unmanaged"}
    /\ job = "unloaded" /\ process = 0
    /\ terminating = FALSE /\ due = FALSE /\ veteran = FALSE
    /\ crashes = 0
    /\ pc = "idle" /\ command = NoCommand
    /\ last = [name |-> "none", ok |-> TRUE, terminating |-> FALSE]

----------------------------------------------------------------------------
(* launchd and the process. *)

\* A process is started from the program that is installed now.
RunsProgram ==
    /\ process' = binary
    /\ terminating' = FALSE /\ due' = FALSE /\ veteran' = FALSE

Spawn ==
    /\ job = "loaded" /\ due /\ process = 0 /\ binary # 0
    /\ RunsProgram
    /\ UNCHANGED <<job, crashes>>

\* The process is gone; a job that was being unloaded is gone with it.
Ended ==
    /\ process # 0
    /\ process' = 0
    /\ terminating' = FALSE /\ veteran' = FALSE
    /\ job' = IF job = "unloading" THEN "unloaded" ELSE job

\* SIGTERM leads to a shutdown that exits with success (Runtime).  When it unloads a job,
\* launchd kills the process after ExitTimeOut.
ExitsAsAsked ==
    /\ terminating
    /\ Ended
    /\ UNCHANGED <<due, crashes>>

\* It ends otherwise: KeepAlive starts a process again unless it exited with success.
ExitsUnasked ==
    /\ crashes < MaxCrashes
    /\ Ended
    /\ due' = (job = "loaded")
    /\ crashes' = crashes + 1

\* A job without a process is unloaded at once.
Unloads ==
    /\ job = "unloading" /\ process = 0
    /\ job' = "unloaded"
    /\ UNCHANGED <<process, terminating, due, crashes, veteran>>

Launchd == Spawn \/ ExitsAsAsked \/ Unloads

----------------------------------------------------------------------------
(* What the commands see and how they go on. *)

\* status(): without the property list launchctl is not asked.
Loaded == plist /\ job # "unloaded"
Running == Loaded /\ process # 0

Goto(step) == pc' = step /\ UNCHANGED <<command, last>>

Answer(ok) ==
    /\ pc' = "idle"
    /\ command' = NoCommand
    /\ last' = [name |-> command.name, ok |-> ok, terminating |-> terminating]

At(step) == pc = step

\* Slip: uninstall forgets to unload the job.
FirstStep_FilesOnly(name) ==
    CASE name = "install" -> "check launcher"
      [] name = "start" -> "start"
      [] name \in {"stop", "restart"} -> "stop"
      [] OTHER -> "remove launcher"

FirstStep(name) ==
    CASE name = "install" -> "check launcher"
      [] name = "start" -> "start"
      [] name \in {"stop", "restart"} -> "stop"
      [] OTHER -> "query"

Begin(c) ==
    /\ At("idle")
    /\ pc' = FirstStep(c.name)
    /\ command' = c
    /\ veteran' = (process # 0)
    /\ UNCHANGED <<last, files, job, process, terminating, due, crashes>>

\* A file operation or launchctl fails, or the user interrupts the command.
Fails ==
    /\ ~At("idle")
    /\ Answer(FALSE)
    /\ UNCHANGED <<files, launchd>>

----------------------------------------------------------------------------
(* install_files: each file is written beside its place and renamed. *)

EnsureLauncherReplaceable ==
    /\ At("check launcher") /\ launcher # "unmanaged"
    /\ Goto("copy binary")
    /\ UNCHANGED <<files, launchd>>

CopyBinary ==
    /\ At("copy binary")
    /\ binary' = command.version
    /\ Goto("write config")
    /\ UNCHANGED <<plist, launcher, data, launchd>>

\* An existing configuration is kept.
WriteConfig ==
    /\ At("write config")
    /\ data' = TRUE
    /\ Goto("write plist")
    /\ UNCHANGED <<plist, binary, launcher, launchd>>

WritePlist ==
    /\ At("write plist")
    /\ plist' = TRUE
    /\ Goto("write launcher")
    /\ UNCHANGED <<binary, launcher, data, launchd>>

WriteLauncher ==
    /\ At("write launcher")
    /\ launcher' = "managed"
    /\ Goto("query")
    /\ UNCHANGED <<plist, binary, data, launchd>>

InstallFiles ==
    EnsureLauncherReplaceable \/ CopyBinary \/ WriteConfig \/ WritePlist \/ WriteLauncher

----------------------------------------------------------------------------
(* Loading and unloading. *)

\* Where install and uninstall go on once launchd has been told to unload the job.
NextIfUnloading(name) == IF name = "install" THEN "await unloaded" ELSE "remove launcher"
NextIfUnloaded(name) == IF name = "install" THEN "bootstrap" ELSE "remove launcher"

Query ==
    /\ At("query")
    /\ Goto(IF Loaded THEN "bootout" ELSE NextIfUnloaded(command.name))
    /\ UNCHANGED <<files, launchd>>

\* launchctl bootout: the job's process receives SIGTERM, and there will be no other.
Bootout ==
    /\ At("bootout") /\ job # "unloaded"
    /\ job' = "unloading"
    /\ terminating' = (process # 0)
    /\ due' = FALSE
    /\ Goto(NextIfUnloading(command.name))
    /\ UNCHANGED <<files, process, crashes, veteran>>

\* wait_until_unloaded; Fails after five seconds.
AwaitUnloaded ==
    /\ At("await unloaded") /\ ~Loaded
    /\ Goto("bootstrap")
    /\ UNCHANGED <<files, launchd>>

\* launchctl bootstrap, for install and for start.  RunAtLoad.
Bootstrap ==
    /\ At("bootstrap") /\ job = "unloaded" /\ plist
    /\ job' = "loaded"
    /\ due' = TRUE
    /\ Goto(IF command.name = "install" THEN "start" ELSE "start if not running")
    /\ UNCHANGED <<files, process, terminating, crashes, veteran>>

----------------------------------------------------------------------------
(* start, stop and restart. *)

Start ==
    /\ At("start") /\ plist
    /\ Goto(IF Loaded THEN "start if not running" ELSE "bootstrap")
    /\ UNCHANGED <<files, launchd>>

\* Slip: a job that is loaded is taken to run.
StartIfNotRunning_IfLoaded ==
    /\ At("start if not running")
    /\ IF Loaded THEN Answer(TRUE) ELSE Goto("kickstart")
    /\ UNCHANGED <<files, launchd>>

StartIfNotRunning ==
    /\ At("start if not running")
    /\ IF Running THEN Answer(TRUE) ELSE Goto("kickstart")
    /\ UNCHANGED <<files, launchd>>

\* launchctl kickstart leaves a process that runs alone.
Kickstart ==
    /\ At("kickstart") /\ job = "loaded"
    /\ Answer(TRUE)
    /\ \/ process = 0 /\ RunsProgram /\ UNCHANGED <<job, crashes>>
       \/ process # 0 /\ UNCHANGED launchd
    /\ UNCHANGED files

\* Where restart goes on, and stop ends.
Stopped == IF command.name = "restart" THEN Goto("kickstart") ELSE Answer(TRUE)

Stop ==
    /\ At("stop")
    /\ IF Running THEN Goto("kill") ELSE Stopped
    /\ UNCHANGED <<files, launchd>>

\* Slip: SIGTERM is sent and not waited for.
Kill_NoWait ==
    /\ At("kill") /\ process # 0
    /\ terminating' = TRUE
    /\ Stopped
    /\ UNCHANGED <<files, job, process, due, crashes, veteran>>

\* launchctl kill SIGTERM
Kill ==
    /\ At("kill") /\ process # 0
    /\ terminating' = TRUE
    /\ Goto("await stopped")
    /\ UNCHANGED <<files, job, process, due, crashes, veteran>>

\* wait_until_stopped; Fails after twenty seconds.
AwaitStopped ==
    /\ At("await stopped") /\ ~Running
    /\ Stopped
    /\ UNCHANGED <<files, launchd>>

----------------------------------------------------------------------------
(* uninstall_files *)

\* Slip: the property list is left behind.
RemoveLauncher_KeepsPlist ==
    /\ At("remove launcher")
    /\ launcher' = IF launcher = "managed" THEN "none" ELSE launcher
    /\ Goto("remove binary")
    /\ UNCHANGED <<plist, binary, data, launchd>>

RemoveLauncher ==
    /\ At("remove launcher")
    /\ launcher' = IF launcher = "managed" THEN "none" ELSE launcher
    /\ Goto("remove plist")
    /\ UNCHANGED <<plist, binary, data, launchd>>

RemovePlist ==
    /\ At("remove plist")
    /\ plist' = FALSE
    /\ Goto("remove binary")
    /\ UNCHANGED <<binary, launcher, data, launchd>>

RemoveBinary ==
    /\ At("remove binary")
    /\ binary' = 0
    /\ IF command.name = "uninstall --purge" THEN Goto("purge") ELSE Answer(TRUE)
    /\ UNCHANGED <<plist, launcher, data, launchd>>

Purge ==
    /\ At("purge")
    /\ data' = FALSE
    /\ Answer(TRUE)
    /\ UNCHANGED <<plist, binary, launcher, launchd>>

UninstallFiles == RemoveLauncher \/ RemovePlist \/ RemoveBinary \/ Purge

----------------------------------------------------------------------------
CommandStep ==
    \/ InstallFiles
    \/ Query \/ Bootout \/ AwaitUnloaded \/ Bootstrap
    \/ Start \/ StartIfNotRunning \/ Kickstart
    \/ Stop \/ Kill \/ AwaitStopped
    \/ UninstallFiles

Next ==
    \/ \E c \in Commands : Begin(c)
    \/ CommandStep
    \/ Fails
    \/ (Launchd \/ ExitsUnasked) /\ UNCHANGED <<files, cli>>

Spec == Init /\ [][Next]_vars /\ WF_vars(Launchd /\ UNCHANGED <<files, cli>>)

----------------------------------------------------------------------------
(* Properties. *)

Succeeded(name) == pc = "idle" /\ last.ok /\ last.name = name

\* A command that ends with success has done what it says, whatever failed or was interrupted
\* before and whatever launchd did meanwhile: after stop and restart the process that ran is
\* gone (or launchd is ending it), after install no process runs another version than the one
\* installed, and after uninstall nothing is left that could run again.
AnswersAreTrue ==
    /\ Succeeded("stop") \/ Succeeded("restart") => ~veteran \/ job = "unloading"
    /\ Succeeded("install") => process \in {0, binary}
    /\ Succeeded("uninstall") \/ Succeeded("uninstall --purge") =>
          /\ ~plist /\ binary = 0 /\ launcher # "managed"
          /\ job # "loaded"
    /\ Succeeded("uninstall --purge") => ~data

\* A service that was installed, started or restarted runs, and runs again when its process
\* fails, until the next command.  (Unless the process that start found running had already
\* been told to terminate, by a stop that gave up waiting.)
StartedServiceRuns ==
    (\/ Succeeded("install") \/ Succeeded("start") \/ Succeeded("restart"))
        /\ ~last.terminating
        ~> (process # 0 \/ pc # "idle")
=============================================================================
