------------------------ MODULE ServiceManagerProofs ------------------------
(***************************************************************************)
(* Theorems about ServiceManager, for every number of versions and of      *)
(* processes that end by themselves.  AnswersAreTrue speaks of a command   *)
(* that has ended; IInv says what holds at each of its steps: which        *)
(* command it belongs to, how far the files are, that launchd knows no job *)
(* whose property list is gone, and what may still run.  What launchd does *)
(* between two steps keeps all of it (LaunchdKeeps).                       *)
(***************************************************************************)
EXTENDS ServiceManager, TLAPS

----------------------------------------------------------------------------
(* The invariant. *)

\* Which command each step belongs to.
StepsOf ==
    /\ pc = "idle" <=> command = NoCommand
    /\ pc \in {"check launcher", "copy binary", "write config", "write plist", "write launcher",
               "await unloaded"} =>
          command.name = "install"
    /\ pc \in {"query", "bootout"} =>
          command.name \in {"install", "uninstall", "uninstall --purge"}
    /\ pc \in {"bootstrap", "start", "start if not running"} =>
          command.name \in {"install", "start"}
    /\ pc = "kickstart" => command.name \in {"install", "start", "restart"}
    /\ pc \in {"stop", "kill", "await stopped"} => command.name \in {"stop", "restart"}
    /\ pc \in {"remove launcher", "remove plist", "remove binary"} =>
          command.name \in {"uninstall", "uninstall --purge"}
    /\ pc = "purge" => command.name = "uninstall --purge"

\* launchd keeps no job whose property list is gone: the files go only once the job is unloaded
\* or being unloaded, and no process can bring it back.
JobHasPlist ==
    /\ job = "loaded" => plist
    /\ pc \in {"remove launcher", "remove plist", "remove binary", "purge"} => job # "loaded"

\* How far install and uninstall are with the files.
FilesInPlace ==
    /\ pc \in {"write config", "write plist"} => binary # 0
    /\ pc \in {"remove plist", "remove binary", "purge"} => launcher # "managed"
    /\ pc \in {"remove binary", "purge"} => ~plist
    /\ pc = "purge" => binary = 0

\* The process that ran when the command began, and the one that install leaves.
ProcessKnown ==
    /\ veteran => process # 0
    /\ pc = "kickstart" /\ command.name = "restart" => ~veteran \/ job = "unloading"
    /\ pc \in {"start", "start if not running", "kickstart"} /\ command.name = "install" =>
          process \in {0, binary}

IInv ==
    /\ TypeOK /\ StepsOf /\ JobHasPlist /\ FilesInPlace /\ ProcessKnown /\ AnswersAreTrue

LEMMA CommandTypes ==
    /\ NoCommand.name = "none"
    /\ \A c \in Commands :
          /\ c # NoCommand
          /\ c.name \in {"install", "start", "stop", "restart", "uninstall", "uninstall --purge"}
          /\ c.name = "install" => c.version \in Versions
<1>1. \A c \in Commands :
         /\ c.name \in {"install", "start", "stop", "restart", "uninstall", "uninstall --purge"}
         /\ c.name = "install" => c.version \in Versions
  BY DEF Commands
<1>2. NoCommand.name = "none"
  BY DEF NoCommand
<1> QED BY <1>1, <1>2

\* What the type invariant says of the command, and what it says of the rest.
Answers == [name : {c.name : c \in Commands \cup {NoCommand}}, ok : BOOLEAN, terminating : BOOLEAN]

CliType == pc \in Steps /\ command \in Commands \cup {NoCommand} /\ last \in Answers

ServiceType ==
    /\ plist \in BOOLEAN /\ data \in BOOLEAN
    /\ binary \in Versions \cup {0}
    /\ launcher \in {"none", "managed", "unmanaged"}
    /\ job \in {"unloaded", "loaded", "unloading"}
    /\ process \in Versions \cup {0}
    /\ terminating \in BOOLEAN /\ due \in BOOLEAN /\ veteran \in BOOLEAN
    /\ crashes \in 0 .. MaxCrashes
    /\ process # 0 => job # "unloaded"
    /\ plist => binary # 0

LEMMA TypeParts == TypeOK <=> CliType /\ ServiceType
BY DEF TypeOK, CliType, ServiceType, Answers

LEMMA TypePartsNext == TypeOK' <=> CliType' /\ ServiceType'
BY TypeParts, PTL

LEMMA Known ==
    ASSUME IInv
    PROVE  /\ CliType /\ ServiceType
           /\ command.name \in {"install", "start", "stop", "restart", "uninstall",
                                "uninstall --purge", "none"}
           /\ command = NoCommand <=> command.name = "none"
           /\ command.name = "install" => command.version \in Versions
           /\ \A v \in Versions : v # 0
<1>1. CliType /\ ServiceType
  BY TypeParts DEF IInv
<1>2. \A v \in Versions : v # 0
  BY DEF Versions
<1> QED BY <1>1, <1>2, CommandTypes DEF CliType

LEMMA GotoIs ==
    ASSUME IInv, NEW step \in Steps, Goto(step)
    PROVE  CliType' /\ pc' = step /\ command' = command /\ last' = last
BY Known DEF Goto, CliType

LEMMA AnswerIs ==
    ASSUME IInv, NEW ok \in BOOLEAN, Answer(ok)
    PROVE  /\ CliType' /\ pc' = "idle" /\ command' = NoCommand /\ command'.name = "none"
           /\ last'.name = command.name /\ last'.ok = ok
<1>1. command.name \in {c.name : c \in Commands \cup {NoCommand}} /\ terminating \in BOOLEAN
  BY Known DEF CliType, ServiceType
<1>2. last' = [name |-> command.name, ok |-> ok, terminating |-> terminating]
      /\ pc' = "idle" /\ command' = NoCommand
  BY DEF Answer
<1>3. last' \in Answers
  BY <1>1, <1>2 DEF Answers
<1>4. "idle" \in Steps
  BY DEF Steps
<1> QED BY <1>2, <1>3, <1>4, CommandTypes DEF CliType

----------------------------------------------------------------------------
(* launchd and the process. *)

LEMMA NotAnswered == pc' # "idle" => AnswersAreTrue'
BY DEF AnswersAreTrue, Succeeded

\* What launchd and the process may do at any time: no job is loaded, and no process runs but
\* the one that ran or one of the installed program.
LEMMA LaunchdKeeps ==
    ASSUME IInv, UNCHANGED <<files, cli>>, ServiceType', job' = "loaded" => job = "loaded",
           process' \in {0, process, binary},
           veteran' => veteran /\ process' # 0 /\ job' = job
    PROVE  IInv'
<1>1. UNCHANGED <<plist, binary, launcher, data, pc, command, last>>
  BY DEF files, cli
<1>2. CliType'
  BY <1>1, Known DEF CliType
<1>3. StepsOf' /\ FilesInPlace'
  BY <1>1 DEF IInv, StepsOf, FilesInPlace
<1>4. JobHasPlist'
  BY <1>1 DEF IInv, JobHasPlist
<1>5. ProcessKnown'
  BY <1>1 DEF IInv, ProcessKnown
<1>6. \A n : Succeeded(n)' <=> Succeeded(n)
  BY <1>1 DEF Succeeded
<1>7. AnswersAreTrue'
  BY <1>1, <1>6 DEF IInv, AnswersAreTrue
<1> QED BY <1>2, <1>3, <1>4, <1>5, <1>7, TypePartsNext DEF IInv

\* The process or the job ends, or a process is started.
LEMMA EndedStep ==
    ASSUME IInv, UNCHANGED <<files, cli>>, Ended, due' \in BOOLEAN, crashes' \in 0 .. MaxCrashes
    PROVE  IInv'
<1>1. /\ process' = 0 /\ terminating' = FALSE /\ veteran' = FALSE
      /\ job' = IF job = "unloading" THEN "unloaded" ELSE job
  BY DEF Ended
<1>2. ServiceType'
  BY <1>1, Known DEF ServiceType, files
<1>3. job' = "loaded" => job = "loaded"
  BY <1>1
<1> QED BY <1>1, <1>2, <1>3, LaunchdKeeps

LEMMA LaunchdStep ==
    ASSUME IInv, UNCHANGED <<files, cli>>, Launchd \/ ExitsUnasked
    PROVE  IInv'
<1>0. /\ due \in BOOLEAN /\ crashes \in 0 .. MaxCrashes
      /\ veteran => process # 0
  BY Known DEF ServiceType, IInv, ProcessKnown
<1>1. CASE Spawn
  <2>1. ServiceType'
    BY <1>1, Known DEF ServiceType, Spawn, RunsProgram, files
  <2>2. job' = job /\ process' = binary /\ veteran' = FALSE
    BY <1>1 DEF Spawn, RunsProgram
  <2> QED BY <2>1, <2>2, LaunchdKeeps
<1>2. CASE ExitsAsAsked
  BY <1>0, <1>2, EndedStep DEF ExitsAsAsked
<1>3. CASE ExitsUnasked
  <2>1. crashes' \in 0 .. MaxCrashes
    BY <1>0, <1>3, ServiceAssumption DEF ExitsUnasked
  <2>2. due' \in BOOLEAN
    BY <1>3 DEF ExitsUnasked
  <2>3. Ended
    BY <1>3 DEF ExitsUnasked
  <2> QED BY <2>1, <2>2, <2>3, EndedStep
<1>4. CASE Unloads
  <2>1. ServiceType'
    BY <1>4, Known DEF ServiceType, Unloads, files
  <2>2. job' = "unloaded" /\ process' = process /\ ~veteran'
    BY <1>0, <1>4 DEF Unloads
  <2> QED BY <2>1, <2>2, LaunchdKeeps
<1> QED BY <1>1, <1>2, <1>3, <1>4 DEF Launchd

\* A command that is not running holds no process that ran before: it is gone, or it was
\* left behind by a job that is being unloaded.
LEMMA NotRunning ==
    ASSUME IInv, ~Running
    PROVE  ~veteran \/ job = "unloading"
<1>1. ~(plist /\ job # "unloaded" /\ process # 0)
  BY DEF Running, Loaded
<1>2. (job = "loaded" => plist) /\ (veteran => process # 0)
  BY DEF IInv, JobHasPlist, ProcessKnown
<1>3. job \in {"unloaded", "loaded", "unloading"} /\ (process # 0 => job # "unloaded")
  BY Known DEF ServiceType
<1> QED BY <1>1, <1>2, <1>3

----------------------------------------------------------------------------
(* The steps of the commands. *)

LEMMA EnsureLauncherReplaceableStep ==
    ASSUME IInv, EnsureLauncherReplaceable
    PROVE  IInv'
<1>1. /\ CliType' /\ pc = "check launcher" /\ UNCHANGED <<command, last>>
      /\ pc' = "copy binary"
      /\ UNCHANGED <<plist, binary, launcher, data>>
      /\ UNCHANGED <<job, process, terminating, due, crashes, veteran>>
  BY Known, GotoIs, AnswerIs DEF Steps, EnsureLauncherReplaceable, files, launchd, At
<1>2. ServiceType'
  BY <1>1, Known DEF IInv, StepsOf, JobHasPlist, FilesInPlace, ServiceType
<1>3. StepsOf'
  BY <1>1, Known DEF IInv, StepsOf
<1>4. JobHasPlist'
  BY <1>1, Known DEF IInv, StepsOf, JobHasPlist, ServiceType
<1>5. FilesInPlace'
  BY <1>1, Known DEF IInv, FilesInPlace, StepsOf, ServiceType
<1>6. ProcessKnown'
  BY <1>1, Known DEF IInv, ProcessKnown, StepsOf, ServiceType
<1>7. AnswersAreTrue'
  BY <1>1, NotAnswered
<1> QED BY <1>1, <1>2, <1>3, <1>4, <1>5, <1>6, <1>7, TypePartsNext DEF IInv

LEMMA CopyBinaryStep ==
    ASSUME IInv, CopyBinary
    PROVE  IInv'
<1>1. /\ CliType' /\ pc = "copy binary" /\ UNCHANGED <<command, last>>
      /\ pc' = "write config"
      /\ UNCHANGED <<plist, launcher, data>>
      /\ UNCHANGED <<job, process, terminating, due, crashes, veteran>>
      /\ binary' = command.version /\ binary' \in Versions
  BY Known, GotoIs, AnswerIs DEF Steps, CopyBinary, IInv, StepsOf, files, launchd, At
<1>2. ServiceType'
  BY <1>1, Known DEF IInv, StepsOf, JobHasPlist, FilesInPlace, ServiceType
<1>3. StepsOf'
  BY <1>1, Known DEF IInv, StepsOf
<1>4. JobHasPlist'
  BY <1>1, Known DEF IInv, StepsOf, JobHasPlist, ServiceType
<1>5. FilesInPlace'
  BY <1>1, Known DEF IInv, FilesInPlace, StepsOf, ServiceType
<1>6. ProcessKnown'
  BY <1>1, Known DEF IInv, ProcessKnown, StepsOf, ServiceType
<1>7. AnswersAreTrue'
  BY <1>1, NotAnswered
<1> QED BY <1>1, <1>2, <1>3, <1>4, <1>5, <1>6, <1>7, TypePartsNext DEF IInv

LEMMA WriteConfigStep ==
    ASSUME IInv, WriteConfig
    PROVE  IInv'
<1>1. /\ CliType' /\ pc = "write config" /\ UNCHANGED <<command, last>>
      /\ pc' = "write plist"
      /\ UNCHANGED <<plist, binary, launcher>>
      /\ UNCHANGED <<job, process, terminating, due, crashes, veteran>>
      /\ data' = TRUE
  BY Known, GotoIs, AnswerIs DEF Steps, WriteConfig, files, launchd, At
<1>2. ServiceType'
  BY <1>1, Known DEF IInv, StepsOf, JobHasPlist, FilesInPlace, ServiceType
<1>3. StepsOf'
  BY <1>1, Known DEF IInv, StepsOf
<1>4. JobHasPlist'
  BY <1>1, Known DEF IInv, StepsOf, JobHasPlist, ServiceType
<1>5. FilesInPlace'
  BY <1>1, Known DEF IInv, FilesInPlace, StepsOf, ServiceType
<1>6. ProcessKnown'
  BY <1>1, Known DEF IInv, ProcessKnown, StepsOf, ServiceType
<1>7. AnswersAreTrue'
  BY <1>1, NotAnswered
<1> QED BY <1>1, <1>2, <1>3, <1>4, <1>5, <1>6, <1>7, TypePartsNext DEF IInv

LEMMA WritePlistStep ==
    ASSUME IInv, WritePlist
    PROVE  IInv'
<1>1. /\ CliType' /\ pc = "write plist" /\ UNCHANGED <<command, last>>
      /\ pc' = "write launcher"
      /\ UNCHANGED <<binary, launcher, data>>
      /\ UNCHANGED <<job, process, terminating, due, crashes, veteran>>
      /\ plist' = TRUE
  BY Known, GotoIs, AnswerIs DEF Steps, WritePlist, files, launchd, At
<1>2. ServiceType'
  BY <1>1, Known DEF IInv, StepsOf, JobHasPlist, FilesInPlace, ServiceType
<1>3. StepsOf'
  BY <1>1, Known DEF IInv, StepsOf
<1>4. JobHasPlist'
  BY <1>1, Known DEF IInv, StepsOf, JobHasPlist, ServiceType
<1>5. FilesInPlace'
  BY <1>1, Known DEF IInv, FilesInPlace, StepsOf, ServiceType
<1>6. ProcessKnown'
  BY <1>1, Known DEF IInv, ProcessKnown, StepsOf, ServiceType
<1>7. AnswersAreTrue'
  BY <1>1, NotAnswered
<1> QED BY <1>1, <1>2, <1>3, <1>4, <1>5, <1>6, <1>7, TypePartsNext DEF IInv

LEMMA WriteLauncherStep ==
    ASSUME IInv, WriteLauncher
    PROVE  IInv'
<1>1. /\ CliType' /\ pc = "write launcher" /\ UNCHANGED <<command, last>>
      /\ pc' = "query"
      /\ UNCHANGED <<plist, binary, data>>
      /\ UNCHANGED <<job, process, terminating, due, crashes, veteran>>
      /\ launcher' = "managed"
  BY Known, GotoIs, AnswerIs DEF Steps, WriteLauncher, files, launchd, At
<1>2. ServiceType'
  BY <1>1, Known DEF IInv, StepsOf, JobHasPlist, FilesInPlace, ServiceType
<1>3. StepsOf'
  BY <1>1, Known DEF IInv, StepsOf
<1>4. JobHasPlist'
  BY <1>1, Known DEF IInv, StepsOf, JobHasPlist, ServiceType
<1>5. FilesInPlace'
  BY <1>1, Known DEF IInv, FilesInPlace, StepsOf, ServiceType
<1>6. ProcessKnown'
  BY <1>1, Known DEF IInv, ProcessKnown, StepsOf, ServiceType
<1>7. AnswersAreTrue'
  BY <1>1, NotAnswered
<1> QED BY <1>1, <1>2, <1>3, <1>4, <1>5, <1>6, <1>7, TypePartsNext DEF IInv

LEMMA QueryStep ==
    ASSUME IInv, Query
    PROVE  IInv'
<1>1. /\ CliType' /\ pc = "query" /\ UNCHANGED <<command, last>>
      /\ \/ pc' = "bootout"
         \/ pc' = "bootstrap" /\ command.name = "install"
         \/ pc' = "remove launcher" /\ command.name # "install" /\ ~(plist /\ job # "unloaded")
      /\ UNCHANGED <<plist, binary, launcher, data>>
      /\ UNCHANGED <<job, process, terminating, due, crashes, veteran>>
  BY Known, GotoIs, AnswerIs DEF Steps, Query, NextIfUnloaded, Loaded, files, launchd, At
<1>2. ServiceType'
  BY <1>1, Known DEF IInv, StepsOf, JobHasPlist, FilesInPlace, ServiceType
<1>3. StepsOf'
  BY <1>1, Known DEF IInv, StepsOf
<1>4. JobHasPlist'
  BY <1>1, Known DEF IInv, StepsOf, JobHasPlist, ServiceType
<1>5. FilesInPlace'
  BY <1>1, Known DEF IInv, FilesInPlace, StepsOf, ServiceType
<1>6. ProcessKnown'
  BY <1>1, Known DEF IInv, ProcessKnown, StepsOf, ServiceType
<1>7. AnswersAreTrue'
  BY <1>1, NotAnswered
<1> QED BY <1>1, <1>2, <1>3, <1>4, <1>5, <1>6, <1>7, TypePartsNext DEF IInv

LEMMA BootoutStep ==
    ASSUME IInv, Bootout
    PROVE  IInv'
<1>1. /\ CliType' /\ pc = "bootout" /\ UNCHANGED <<command, last>>
      /\ pc' = IF command.name = "install" THEN "await unloaded" ELSE "remove launcher"
      /\ UNCHANGED <<plist, binary, launcher, data, process, crashes, veteran>>
      /\ job # "unloaded" /\ job' = "unloading"
      /\ terminating' \in BOOLEAN /\ due' \in BOOLEAN
  BY Known, GotoIs, AnswerIs DEF Steps, Bootout, NextIfUnloading, files, launchd, At
<1>2. ServiceType'
  BY <1>1, Known DEF IInv, StepsOf, JobHasPlist, FilesInPlace, ServiceType
<1>3. StepsOf'
  BY <1>1, Known DEF IInv, StepsOf
<1>4. JobHasPlist'
  BY <1>1, Known DEF IInv, StepsOf, JobHasPlist, ServiceType
<1>5. FilesInPlace'
  BY <1>1, Known DEF IInv, FilesInPlace, StepsOf, ServiceType
<1>6. ProcessKnown'
  BY <1>1, Known DEF IInv, ProcessKnown, StepsOf, ServiceType
<1>7. AnswersAreTrue'
  BY <1>1, NotAnswered
<1> QED BY <1>1, <1>2, <1>3, <1>4, <1>5, <1>6, <1>7, TypePartsNext DEF IInv

LEMMA AwaitUnloadedStep ==
    ASSUME IInv, AwaitUnloaded
    PROVE  IInv'
<1>1. /\ CliType' /\ pc = "await unloaded" /\ UNCHANGED <<command, last>>
      /\ pc' = "bootstrap"
      /\ UNCHANGED <<plist, binary, launcher, data>>
      /\ UNCHANGED <<job, process, terminating, due, crashes, veteran>>
  BY Known, GotoIs, AnswerIs DEF Steps, AwaitUnloaded, Loaded, files, launchd, At
<1>2. ServiceType'
  BY <1>1, Known DEF IInv, StepsOf, JobHasPlist, FilesInPlace, ServiceType
<1>3. StepsOf'
  BY <1>1, Known DEF IInv, StepsOf
<1>4. JobHasPlist'
  BY <1>1, Known DEF IInv, StepsOf, JobHasPlist, ServiceType
<1>5. FilesInPlace'
  BY <1>1, Known DEF IInv, FilesInPlace, StepsOf, ServiceType
<1>6. ProcessKnown'
  BY <1>1, Known DEF IInv, ProcessKnown, StepsOf, ServiceType
<1>7. AnswersAreTrue'
  BY <1>1, NotAnswered
<1> QED BY <1>1, <1>2, <1>3, <1>4, <1>5, <1>6, <1>7, TypePartsNext DEF IInv

LEMMA BootstrapStep ==
    ASSUME IInv, Bootstrap
    PROVE  IInv'
<1>1. /\ CliType' /\ pc = "bootstrap" /\ UNCHANGED <<command, last>>
      /\ pc' \in {"start", "start if not running"}
      /\ UNCHANGED <<plist, binary, launcher, data, process, terminating, crashes, veteran>>
      /\ plist /\ job = "unloaded" /\ job' = "loaded" /\ due' \in BOOLEAN
  BY Known, GotoIs, AnswerIs DEF Steps, Bootstrap, files, launchd, At
<1>2. ServiceType'
  BY <1>1, Known DEF IInv, StepsOf, JobHasPlist, FilesInPlace, ServiceType
<1>3. StepsOf'
  BY <1>1, Known DEF IInv, StepsOf
<1>4. JobHasPlist'
  BY <1>1, Known DEF IInv, StepsOf, JobHasPlist, ServiceType
<1>5. FilesInPlace'
  BY <1>1, Known DEF IInv, FilesInPlace, StepsOf, ServiceType
<1>6. ProcessKnown'
  BY <1>1, Known DEF IInv, ProcessKnown, StepsOf, ServiceType
<1>7. AnswersAreTrue'
  BY <1>1, NotAnswered
<1> QED BY <1>1, <1>2, <1>3, <1>4, <1>5, <1>6, <1>7, TypePartsNext DEF IInv

LEMMA StartStep ==
    ASSUME IInv, Start
    PROVE  IInv'
<1>1. /\ CliType' /\ pc = "start" /\ UNCHANGED <<command, last>>
      /\ pc' \in {"start if not running", "bootstrap"}
      /\ UNCHANGED <<plist, binary, launcher, data>>
      /\ UNCHANGED <<job, process, terminating, due, crashes, veteran>>
  BY Known, GotoIs, AnswerIs DEF Steps, Start, Loaded, files, launchd, At
<1>2. ServiceType'
  BY <1>1, Known DEF IInv, StepsOf, JobHasPlist, FilesInPlace, ServiceType
<1>3. StepsOf'
  BY <1>1, Known DEF IInv, StepsOf
<1>4. JobHasPlist'
  BY <1>1, Known DEF IInv, StepsOf, JobHasPlist, ServiceType
<1>5. FilesInPlace'
  BY <1>1, Known DEF IInv, FilesInPlace, StepsOf, ServiceType
<1>6. ProcessKnown'
  BY <1>1, Known DEF IInv, ProcessKnown, StepsOf, ServiceType
<1>7. AnswersAreTrue'
  BY <1>1, NotAnswered
<1> QED BY <1>1, <1>2, <1>3, <1>4, <1>5, <1>6, <1>7, TypePartsNext DEF IInv

LEMMA StartIfNotRunningStep ==
    ASSUME IInv, StartIfNotRunning
    PROVE  IInv'
<1>1. /\ pc = "start if not running" /\ UNCHANGED <<plist, binary, launcher, data>>
      /\ UNCHANGED <<job, process, terminating, due, crashes, veteran>>
      /\ \/ pc' = "kickstart" /\ CliType' /\ UNCHANGED <<command, last>>
         \/ CliType' /\ pc' = "idle" /\ command' = NoCommand /\ command'.name = "none"
            /\ last'.name = command.name /\ last'.ok = TRUE
  BY Known, GotoIs, AnswerIs DEF Steps, StartIfNotRunning, files, launchd, At
<1>2. ServiceType'
  BY <1>1, Known DEF IInv, StepsOf, JobHasPlist, FilesInPlace, ServiceType
<1>3. StepsOf'
  BY <1>1, Known DEF IInv, StepsOf
<1>4. JobHasPlist'
  BY <1>1, Known DEF IInv, StepsOf, JobHasPlist, ServiceType
<1>5. FilesInPlace'
  BY <1>1, Known DEF IInv, FilesInPlace, StepsOf, ServiceType
<1>6. ProcessKnown'
  BY <1>1, Known DEF IInv, ProcessKnown, StepsOf, ServiceType
<1>7. AnswersAreTrue'
  BY <1>1, Known DEF IInv, StepsOf, AnswersAreTrue, Succeeded, ServiceType, ProcessKnown
<1> QED BY <1>1, <1>2, <1>3, <1>4, <1>5, <1>6, <1>7, TypePartsNext DEF IInv

LEMMA KickstartStep ==
    ASSUME IInv, Kickstart
    PROVE  IInv'
<1>1. /\ pc = "kickstart" /\ job = "loaded"
      /\ CliType' /\ pc' = "idle" /\ command' = NoCommand /\ command'.name = "none"
         /\ last'.name = command.name /\ last'.ok = TRUE
      /\ UNCHANGED <<plist, binary, launcher, data, job, crashes>>
      /\ terminating' \in BOOLEAN /\ due' \in BOOLEAN /\ veteran' \in BOOLEAN
      /\ \/ process' = binary /\ ~veteran'
         \/ process' = process /\ process # 0 /\ veteran' = veteran
  BY Known, GotoIs, AnswerIs DEF Steps, Kickstart, RunsProgram, ServiceType, files, launchd, At
<1>2. ServiceType'
  BY <1>1, Known DEF IInv, StepsOf, JobHasPlist, FilesInPlace, ServiceType
<1>3. StepsOf'
  BY <1>1, Known DEF IInv, StepsOf
<1>4. JobHasPlist'
  BY <1>1, Known DEF IInv, StepsOf, JobHasPlist, ServiceType
<1>5. FilesInPlace'
  BY <1>1, Known DEF IInv, FilesInPlace, StepsOf, ServiceType
<1>6. ProcessKnown'
  BY <1>1, Known DEF IInv, ProcessKnown, StepsOf, ServiceType
<1>7. AnswersAreTrue'
  BY <1>1, Known DEF IInv, StepsOf, AnswersAreTrue, Succeeded, ServiceType, ProcessKnown
<1> QED BY <1>1, <1>2, <1>3, <1>4, <1>5, <1>6, <1>7, TypePartsNext DEF IInv

LEMMA StopStep ==
    ASSUME IInv, Stop
    PROVE  IInv'
<1>1. /\ pc = "stop" /\ UNCHANGED <<plist, binary, launcher, data>>
      /\ UNCHANGED <<job, process, terminating, due, crashes, veteran>>
      /\ \/ pc' = "kill" /\ CliType' /\ UNCHANGED <<command, last>>
         \/ pc' = "kickstart" /\ command.name = "restart" /\ CliType' /\ ~Running
            /\ UNCHANGED <<command, last>>
         \/ command.name # "restart" /\ ~Running
            /\ CliType' /\ pc' = "idle" /\ command' = NoCommand /\ command'.name = "none"
            /\ last'.name = command.name /\ last'.ok = TRUE
  BY Known, GotoIs, AnswerIs DEF Steps, Stop, Stopped, files, launchd, At
<1>r. ~Running => ~veteran \/ job = "unloading"
  BY NotRunning
<1>2. ServiceType'
  BY <1>1, Known DEF IInv, StepsOf, JobHasPlist, FilesInPlace, ServiceType
<1>3. StepsOf'
  BY <1>1, Known DEF IInv, StepsOf
<1>4. JobHasPlist'
  BY <1>1, Known DEF IInv, StepsOf, JobHasPlist, ServiceType
<1>5. FilesInPlace'
  BY <1>1, Known DEF IInv, FilesInPlace, StepsOf, ServiceType
<1>6. ProcessKnown'
  BY <1>1, <1>r, Known DEF IInv, ProcessKnown, StepsOf, ServiceType
<1>7. AnswersAreTrue'
  BY <1>1, <1>r, Known DEF IInv, StepsOf, AnswersAreTrue, Succeeded, ServiceType, ProcessKnown
<1> QED BY <1>1, <1>2, <1>3, <1>4, <1>5, <1>6, <1>7, TypePartsNext DEF IInv

LEMMA KillStep ==
    ASSUME IInv, Kill
    PROVE  IInv'
<1>1. /\ CliType' /\ pc = "kill" /\ UNCHANGED <<command, last>>
      /\ pc' = "await stopped"
      /\ UNCHANGED <<plist, binary, launcher, data, job, process, due, crashes, veteran>>
      /\ terminating' = TRUE
  BY Known, GotoIs, AnswerIs DEF Steps, Kill, files, launchd, At
<1>2. ServiceType'
  BY <1>1, Known DEF IInv, StepsOf, JobHasPlist, FilesInPlace, ServiceType
<1>3. StepsOf'
  BY <1>1, Known DEF IInv, StepsOf
<1>4. JobHasPlist'
  BY <1>1, Known DEF IInv, StepsOf, JobHasPlist, ServiceType
<1>5. FilesInPlace'
  BY <1>1, Known DEF IInv, FilesInPlace, StepsOf, ServiceType
<1>6. ProcessKnown'
  BY <1>1, Known DEF IInv, ProcessKnown, StepsOf, ServiceType
<1>7. AnswersAreTrue'
  BY <1>1, NotAnswered
<1> QED BY <1>1, <1>2, <1>3, <1>4, <1>5, <1>6, <1>7, TypePartsNext DEF IInv

LEMMA AwaitStoppedStep ==
    ASSUME IInv, AwaitStopped
    PROVE  IInv'
<1>1. /\ pc = "await stopped" /\ UNCHANGED <<plist, binary, launcher, data>>
      /\ UNCHANGED <<job, process, terminating, due, crashes, veteran>>
      /\ \/ pc' = "kickstart" /\ command.name = "restart" /\ CliType' /\ ~Running
            /\ UNCHANGED <<command, last>>
         \/ command.name # "restart" /\ ~Running
            /\ CliType' /\ pc' = "idle" /\ command' = NoCommand /\ command'.name = "none"
            /\ last'.name = command.name /\ last'.ok = TRUE
  BY Known, GotoIs, AnswerIs DEF Steps, AwaitStopped, Stopped, files, launchd, At
<1>r. ~Running => ~veteran \/ job = "unloading"
  BY NotRunning
<1>2. ServiceType'
  BY <1>1, Known DEF IInv, StepsOf, JobHasPlist, FilesInPlace, ServiceType
<1>3. StepsOf'
  BY <1>1, Known DEF IInv, StepsOf
<1>4. JobHasPlist'
  BY <1>1, Known DEF IInv, StepsOf, JobHasPlist, ServiceType
<1>5. FilesInPlace'
  BY <1>1, Known DEF IInv, FilesInPlace, StepsOf, ServiceType
<1>6. ProcessKnown'
  BY <1>1, <1>r, Known DEF IInv, ProcessKnown, StepsOf, ServiceType
<1>7. AnswersAreTrue'
  BY <1>1, <1>r, Known DEF IInv, StepsOf, AnswersAreTrue, Succeeded, ServiceType, ProcessKnown
<1> QED BY <1>1, <1>2, <1>3, <1>4, <1>5, <1>6, <1>7, TypePartsNext DEF IInv

LEMMA RemoveLauncherStep ==
    ASSUME IInv, RemoveLauncher
    PROVE  IInv'
<1>1. /\ CliType' /\ pc = "remove launcher" /\ UNCHANGED <<command, last>>
      /\ pc' = "remove plist"
      /\ UNCHANGED <<plist, binary, data>>
      /\ UNCHANGED <<job, process, terminating, due, crashes, veteran>>
      /\ launcher' # "managed" /\ launcher' \in {"none", "unmanaged"}
  BY Known, GotoIs, AnswerIs DEF Steps, RemoveLauncher, ServiceType, files, launchd, At
<1>2. ServiceType'
  BY <1>1, Known DEF IInv, StepsOf, JobHasPlist, FilesInPlace, ServiceType
<1>3. StepsOf'
  BY <1>1, Known DEF IInv, StepsOf
<1>4. JobHasPlist'
  BY <1>1, Known DEF IInv, StepsOf, JobHasPlist, ServiceType
<1>5. FilesInPlace'
  BY <1>1, Known DEF IInv, FilesInPlace, StepsOf, ServiceType
<1>6. ProcessKnown'
  BY <1>1, Known DEF IInv, ProcessKnown, StepsOf, ServiceType
<1>7. AnswersAreTrue'
  BY <1>1, NotAnswered
<1> QED BY <1>1, <1>2, <1>3, <1>4, <1>5, <1>6, <1>7, TypePartsNext DEF IInv

LEMMA RemovePlistStep ==
    ASSUME IInv, RemovePlist
    PROVE  IInv'
<1>1. /\ CliType' /\ pc = "remove plist" /\ UNCHANGED <<command, last>>
      /\ pc' = "remove binary"
      /\ UNCHANGED <<binary, launcher, data>>
      /\ UNCHANGED <<job, process, terminating, due, crashes, veteran>>
      /\ plist' = FALSE
  BY Known, GotoIs, AnswerIs DEF Steps, RemovePlist, files, launchd, At
<1>2. ServiceType'
  BY <1>1, Known DEF IInv, StepsOf, JobHasPlist, FilesInPlace, ServiceType
<1>3. StepsOf'
  BY <1>1, Known DEF IInv, StepsOf
<1>4. JobHasPlist'
  BY <1>1, Known DEF IInv, StepsOf, JobHasPlist, ServiceType
<1>5. FilesInPlace'
  BY <1>1, Known DEF IInv, FilesInPlace, StepsOf, ServiceType
<1>6. ProcessKnown'
  BY <1>1, Known DEF IInv, ProcessKnown, StepsOf, ServiceType
<1>7. AnswersAreTrue'
  BY <1>1, NotAnswered
<1> QED BY <1>1, <1>2, <1>3, <1>4, <1>5, <1>6, <1>7, TypePartsNext DEF IInv

LEMMA RemoveBinaryStep ==
    ASSUME IInv, RemoveBinary
    PROVE  IInv'
<1>1. /\ pc = "remove binary" /\ binary' = 0 /\ UNCHANGED <<plist, launcher, data>>
      /\ UNCHANGED <<job, process, terminating, due, crashes, veteran>>
      /\ \/ pc' = "purge" /\ command.name = "uninstall --purge" /\ CliType'
            /\ UNCHANGED <<command, last>>
         \/ command.name # "uninstall --purge"
            /\ CliType' /\ pc' = "idle" /\ command' = NoCommand /\ command'.name = "none"
            /\ last'.name = command.name /\ last'.ok = TRUE
  BY Known, GotoIs, AnswerIs DEF Steps, RemoveBinary, files, launchd, At
<1>2. ServiceType'
  BY <1>1, Known DEF IInv, StepsOf, JobHasPlist, FilesInPlace, ServiceType
<1>3. StepsOf'
  BY <1>1, Known DEF IInv, StepsOf
<1>4. JobHasPlist'
  BY <1>1, Known DEF IInv, StepsOf, JobHasPlist, ServiceType
<1>5. FilesInPlace'
  BY <1>1, Known DEF IInv, FilesInPlace, StepsOf, ServiceType
<1>6. ProcessKnown'
  BY <1>1, Known DEF IInv, ProcessKnown, StepsOf, ServiceType
<1>7. AnswersAreTrue'
  BY <1>1, Known DEF IInv, StepsOf, JobHasPlist, FilesInPlace, AnswersAreTrue, Succeeded
<1> QED BY <1>1, <1>2, <1>3, <1>4, <1>5, <1>6, <1>7, TypePartsNext DEF IInv

LEMMA PurgeStep ==
    ASSUME IInv, Purge
    PROVE  IInv'
<1>1. /\ pc = "purge" /\ data' = FALSE /\ UNCHANGED <<plist, binary, launcher>>
      /\ UNCHANGED <<job, process, terminating, due, crashes, veteran>>
      /\ CliType' /\ pc' = "idle" /\ command' = NoCommand /\ command'.name = "none"
         /\ last'.name = command.name /\ last'.ok = TRUE
  BY Known, GotoIs, AnswerIs DEF Steps, Purge, files, launchd, At
<1>2. ServiceType'
  BY <1>1, Known DEF IInv, StepsOf, JobHasPlist, FilesInPlace, ServiceType
<1>3. StepsOf'
  BY <1>1, Known DEF IInv, StepsOf
<1>4. JobHasPlist'
  BY <1>1, Known DEF IInv, StepsOf, JobHasPlist, ServiceType
<1>5. FilesInPlace'
  BY <1>1, Known DEF IInv, FilesInPlace, StepsOf, ServiceType
<1>6. ProcessKnown'
  BY <1>1, Known DEF IInv, ProcessKnown, StepsOf, ServiceType
<1>7. AnswersAreTrue'
  BY <1>1, Known DEF IInv, StepsOf, JobHasPlist, FilesInPlace, AnswersAreTrue, Succeeded
<1> QED BY <1>1, <1>2, <1>3, <1>4, <1>5, <1>6, <1>7, TypePartsNext DEF IInv

LEMMA FailsStep ==
    ASSUME IInv, Fails
    PROVE  IInv'
<1>1. /\ CliType' /\ pc' = "idle" /\ command' = NoCommand /\ command'.name = "none"
         /\ last'.name = command.name /\ last'.ok = FALSE
      /\ UNCHANGED <<plist, binary, launcher, data>>
      /\ UNCHANGED <<job, process, terminating, due, crashes, veteran>>
  BY Known, GotoIs, AnswerIs DEF Steps, Fails, files, launchd, At
<1>2. ServiceType'
  BY <1>1, Known DEF IInv, StepsOf, JobHasPlist, FilesInPlace, ServiceType
<1>3. StepsOf'
  BY <1>1, Known DEF IInv, StepsOf
<1>4. JobHasPlist'
  BY <1>1, Known DEF IInv, StepsOf, JobHasPlist, ServiceType
<1>5. FilesInPlace'
  BY <1>1, Known DEF IInv, FilesInPlace, StepsOf, ServiceType
<1>6. ProcessKnown'
  BY <1>1, Known DEF IInv, ProcessKnown, StepsOf, ServiceType
<1>7. AnswersAreTrue'
  BY <1>1, Known DEF AnswersAreTrue, Succeeded
<1> QED BY <1>1, <1>2, <1>3, <1>4, <1>5, <1>6, <1>7, TypePartsNext DEF IInv

LEMMA BeginStep ==
    ASSUME IInv, NEW c \in Commands, Begin(c)
    PROVE  IInv'
<1>1. /\ pc' = FirstStep(c.name) /\ command' = c
      /\ last' = last /\ veteran' = (process # 0)
      /\ UNCHANGED <<plist, binary, launcher, data, job, process, terminating, due, crashes>>
  BY DEF Begin, files
<1>2. /\ c # NoCommand
      /\ c.name \in {"install", "start", "stop", "restart", "uninstall", "uninstall --purge"}
  BY CommandTypes
<1>3. FirstStep(c.name) = IF c.name = "install" THEN "check launcher"
                          ELSE IF c.name = "start" THEN "start"
                          ELSE IF c.name \in {"stop", "restart"} THEN "stop" ELSE "query"
  BY <1>2 DEF FirstStep
<1>4. CliType'
  BY <1>1, <1>2, <1>3, Known DEF CliType, Steps
<1>5. ServiceType'
  BY <1>1, Known DEF ServiceType
<1>6. StepsOf'
  BY <1>1, <1>2, <1>3 DEF StepsOf
<1>7. JobHasPlist' /\ FilesInPlace'
  BY <1>1, <1>2, <1>3 DEF IInv, JobHasPlist, FilesInPlace
<1>8. ProcessKnown'
  BY <1>1, <1>2, <1>3 DEF ProcessKnown
<1>9. AnswersAreTrue'
  BY <1>1, <1>2, <1>3, NotAnswered
<1> QED BY <1>4, <1>5, <1>6, <1>7, <1>8, <1>9, TypePartsNext DEF IInv

LEMMA InitInvariant == Init => IInv
<1> SUFFICES ASSUME Init PROVE IInv
  OBVIOUS
<1>1. CliType
  <2>1. last = [name |-> command.name, ok |-> TRUE, terminating |-> FALSE]
    BY CommandTypes DEF Init
  <2> QED BY <2>1 DEF Init, CliType, Answers, Steps
<1>2. ServiceType
  <2>1. /\ plist \in BOOLEAN /\ data \in BOOLEAN /\ ~plist
        /\ terminating \in BOOLEAN /\ due \in BOOLEAN /\ veteran \in BOOLEAN
    BY DEF Init
  <2>2. /\ binary = 0 /\ process = 0 /\ job = "unloaded" /\ crashes \in 0 .. MaxCrashes
        /\ launcher \in {"none", "managed", "unmanaged"}
    BY ServiceAssumption DEF Init
  <2> QED BY <2>1, <2>2 DEF ServiceType
<1>3. StepsOf /\ JobHasPlist /\ FilesInPlace /\ ProcessKnown
  BY DEF Init, StepsOf, JobHasPlist, FilesInPlace, ProcessKnown
<1>4. AnswersAreTrue
  BY DEF Init, AnswersAreTrue, Succeeded
<1> QED BY <1>1, <1>2, <1>3, <1>4, TypeParts DEF IInv

LEMMA InvariantStep ==
    ASSUME IInv, [Next]_vars
    PROVE  IInv'
<1>1. CASE UNCHANGED vars
  <2>1. UNCHANGED <<files, cli>> /\ ServiceType' /\ job' = job /\ process' = process
        /\ veteran' = veteran
    BY <1>1, Known DEF vars, files, launchd, ServiceType
  <2>2. veteran => process # 0
    BY DEF IInv, ProcessKnown
  <2> QED BY <2>1, <2>2, LaunchdKeeps
<1>2. ASSUME NEW c \in Commands, Begin(c) PROVE IInv'
  BY <1>2, BeginStep
<1>3. CASE InstallFiles
  BY <1>3, EnsureLauncherReplaceableStep, CopyBinaryStep, WriteConfigStep, WritePlistStep,
     WriteLauncherStep DEF InstallFiles
<1>4. CASE Query \/ Bootout \/ AwaitUnloaded \/ Bootstrap
  BY <1>4, QueryStep, BootoutStep, AwaitUnloadedStep, BootstrapStep
<1>5. CASE Start \/ StartIfNotRunning \/ Kickstart
  BY <1>5, StartStep, StartIfNotRunningStep, KickstartStep
<1>6. CASE Stop \/ Kill \/ AwaitStopped
  BY <1>6, StopStep, KillStep, AwaitStoppedStep
<1>7. CASE UninstallFiles
  BY <1>7, RemoveLauncherStep, RemovePlistStep, RemoveBinaryStep, PurgeStep DEF UninstallFiles
<1>8. CASE Fails
  BY <1>8, FailsStep
<1>9. CASE (Launchd \/ ExitsUnasked) /\ UNCHANGED <<files, cli>>
  BY <1>9, LaunchdStep
<1> QED BY <1>1, <1>2, <1>3, <1>4, <1>5, <1>6, <1>7, <1>8, <1>9 DEF Next, CommandStep

LEMMA Invariant == Spec => []IInv
BY InitInvariant, InvariantStep, PTL DEF Spec

\* No process runs without its job, and whatever is installed can be run: the property list is
\* there only while the program is.
THEOREM TypeCorrect == Spec => []TypeOK
<1>1. IInv => TypeOK
  BY DEF IInv
<1> QED BY <1>1, Invariant, PTL

\* src/service.rs: a command that ends with success has done what it says, whatever failed or
\* was interrupted before, whatever launchd does meanwhile, and however often the process ends.
THEOREM AnswersHold == Spec => []AnswersAreTrue
<1>1. IInv => AnswersAreTrue
  BY DEF IInv
<1> QED BY <1>1, Invariant, PTL
=============================================================================
