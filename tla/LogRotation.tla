---------------------------- MODULE LogRotation ----------------------------
(***************************************************************************)
(* The size-rotated log of src/logging.rs: the file and its numbered       *)
(* predecessors, and the RotatingState of every process that has it open.  *)
(* Nothing guards the files between processes, so every system call of a   *)
(* rotation is a step of its own; each may fail, and a process may end     *)
(* between any two of them.  Within a process the mutex of                 *)
(* RotatingMakeWriter makes a write one operation.                         *)
(*                                                                         *)
(* A handle goes on pointing at its file when another process renames,     *)
(* replaces or removes it: it is the number the file has at the moment, or *)
(* Unlinked.  What a file without a name holds is lost and not tracked.    *)
(***************************************************************************)
EXTENDS ProgramProcesses, Integers, Sequences, SequencesExt

CONSTANTS
    MaxBytes,           \* LoggingConfig::max_bytes
    RetainedFiles,      \* LoggingConfig::retained_files
    Sizes,              \* bound: the lengths of a record
    MaxRecords          \* bound: records written by all processes together

\* AppConfig::validate: both are positive.
ASSUME LogAssumption ==
    /\ MaxBytes \in Nat \ {0} /\ RetainedFiles \in Nat \ {0}
    /\ Sizes \subseteq Nat \ {0} /\ Sizes # {} /\ IsFiniteSet(Sizes)
    /\ MaxRecords \in Nat

VARIABLES
    present,        \* the files that exist: path (0) and path.1 ... path.n
    content,        \* the records in each of them, none if there is no such file
    logger,         \* process -> RotatingState, and the record and the step of a rotation
    acknowledged,   \* history: how many records each process has written
    disturbed       \* history: what has befallen a rotation, of "overlap" and "cut short"

logVars == <<present, content, logger, acknowledged, disturbed>>

Index == 0 .. RetainedFiles
Unlinked == -1
NoFile == -2

\* The steps of rotate: RetainedFiles + 1 removes the oldest, i renames i - 1 to i, 0 opens.
Idle == -1
FirstStep == RetainedFiles + 1
Closed == [file |-> NoFile, written |-> 0, record |-> 0, step |-> Idle]

Bytes(records) == FoldSeq(LAMBDA r, n : r.size + n, 0, records)
Rotating(p) == logger[p].step # Idle

LogInit ==
    /\ present = {}
    /\ content = [i \in Index |-> <<>>]
    /\ logger = [p \in Processes |-> Closed]
    /\ acknowledged = [p \in Processes |-> 0]
    /\ disturbed = {}

\* Slip: the counter does not start at the length of the file.
OpenLog_FromZero(p) ==
    /\ logger[p] = Closed
    /\ present' = present \cup {0}
    /\ logger' = [logger EXCEPT ![p].file = 0]
    /\ UNCHANGED <<content, acknowledged, disturbed>>

\* RotatingState::open, when a process starts: create or append.
OpenLog(p) ==
    /\ logger[p] = Closed
    /\ present' = present \cup {0}
    /\ logger' = [logger EXCEPT ![p].file = 0, ![p].written = Bytes(content[0])]
    /\ UNCHANGED <<content, acknowledged, disturbed>>

MayWrite(p) ==
    /\ logger[p].file # NoFile /\ ~Rotating(p)
    /\ SumFunction(acknowledged) < MaxRecords

Exceeds(p, size) == logger[p].written > 0 /\ logger[p].written + size > MaxBytes

\* A record goes into file f, of which p has counted written bytes before.
AppendTo(p, f, size, written) ==
    LET record == [by |-> p, number |-> acknowledged[p] + 1, size |-> size]
    IN  /\ content' = IF f \in Index THEN [content EXCEPT ![f] = Append(@, record)] ELSE content
        /\ logger' = [logger EXCEPT ![p] = [Closed EXCEPT !.file = f, !.written = written + size]]
        /\ acknowledged' = [acknowledged EXCEPT ![p] = @ + 1]
        /\ UNCHANGED disturbed

\* write, if the record still fits.
WriteRecord(p) ==
    /\ MayWrite(p)
    /\ \E size \in Sizes :
          ~Exceeds(p, size) /\ AppendTo(p, logger[p].file, size, logger[p].written)
    /\ UNCHANGED present

\* The record does not fit any more: rotate comes first.
BeginRotation(p) ==
    /\ MayWrite(p)
    /\ \E size \in Sizes :
          /\ Exceeds(p, size)
          /\ logger' = [logger EXCEPT ![p].record = size, ![p].step = FirstStep]
    /\ disturbed' = IF \E q \in Processes : Rotating(q) THEN disturbed \cup {"overlap"}
                    ELSE disturbed
    /\ UNCHANGED <<present, content, acknowledged>>

\* The handles of all processes once file a is file b, or is gone, and b was replaced.
NextHandle(f, a, b) == IF f = a THEN b ELSE IF f = b THEN Unlinked ELSE f
Handles(p, a, b) ==
    [q \in Processes |->
        [logger[q] EXCEPT !.file = NextHandle(@, a, b), !.step = IF q = p THEN @ - 1 ELSE @]]

RemoveOldest(p) ==
    /\ logger[p].step = FirstStep
    /\ present' = present \ {RetainedFiles}
    /\ content' = [content EXCEPT ![RetainedFiles] = <<>>]
    /\ logger' = Handles(p, RetainedFiles, Unlinked)
    /\ UNCHANGED <<acknowledged, disturbed>>

\* A file that exists takes the next number, from whatever bears it.
Rename(p, a, b) ==
    /\ IF a \in present THEN
           /\ present' = (present \ {a}) \cup {b}
           /\ content' = [content EXCEPT ![b] = content[a], ![a] = <<>>]
           /\ logger' = Handles(p, a, b)
       ELSE
           /\ logger' = [logger EXCEPT ![p].step = @ - 1]
           /\ UNCHANGED <<present, content>>
    /\ UNCHANGED <<acknowledged, disturbed>>

\* Slip: the newest file is renamed first.
RenameNext_Ascending(p) ==
    /\ logger[p].step \in 1 .. RetainedFiles
    /\ Rename(p, RetainedFiles - logger[p].step, RetainedFiles + 1 - logger[p].step)

RenameNext(p) ==
    /\ logger[p].step \in 1 .. RetainedFiles
    /\ Rename(p, logger[p].step - 1, logger[p].step)

\* The end of rotate, and the write of the record; or this write fails.
OpenNext(p) ==
    /\ logger[p].step = 0
    /\ present' = present \cup {0}
    /\ \/ AppendTo(p, 0, logger[p].record, 0)
       \/ /\ logger' = [logger EXCEPT ![p] = [Closed EXCEPT !.file = 0]]
          /\ UNCHANGED <<content, acknowledged, disturbed>>

\* A call of rotate fails: the record is lost, and handle and counter stay as they are.
RotationFails(p) ==
    /\ Rotating(p)
    /\ logger' = [logger EXCEPT ![p].record = 0, ![p].step = Idle]
    /\ disturbed' = disturbed \cup {"cut short"}
    /\ UNCHANGED <<present, content, acknowledged>>

WriteLog(p) ==
    \/ WriteRecord(p)
    \/ BeginRotation(p)
    \/ RemoveOldest(p)
    \/ RenameNext(p)
    \/ OpenNext(p)
    \/ RotationFails(p)

\* The process ends, perhaps in the middle of a rotation.
CloseLog(p) ==
    /\ logger' = [logger EXCEPT ![p] = Closed]
    /\ disturbed' = IF Rotating(p) THEN disturbed \cup {"cut short"} ELSE disturbed
    /\ UNCHANGED <<present, content, acknowledged>>

----------------------------------------------------------------------------
(* Properties. *)

LogTypeOK ==
    /\ present \subseteq Index
    /\ content \in [Index -> Seq([by : Processes, number : Nat \ {0}, size : Sizes])]
    /\ logger \in [Processes -> [file : Index \cup {Unlinked, NoFile}, written : Nat,
                                 record : Sizes \cup {0}, step : Idle .. FirstStep]]
    /\ \A p \in Processes : Rotating(p) <=> logger[p].record # 0
    /\ \A p \in Processes : logger[p].file \in present \cup {Unlinked, NoFile}
    /\ \A i \in Index \ present : content[i] = <<>>
    /\ acknowledged \in [Processes -> Nat]
    /\ disturbed \subseteq {"overlap", "cut short"}

\* Where a process has records in a file, and the numbers of those of its that can be read.
Positions(p, i) == {k \in DOMAIN content[i] : content[i][k].by = p}
Readable(p) == UNION {{content[i][k].number : k \in Positions(p, i)} : i \in Index}

\* From the oldest file to the newest, and from the beginning of each to its end.
InOrder(p) ==
    \A i, j \in Index : \A k \in Positions(p, i), l \in Positions(p, j) :
        i > j \/ (i = j /\ k < l) => content[i][k].number < content[j][l].number

\* What can be read of a process are its newest records, in order and without a gap, whoever
\* rotated the files and wherever a rotation failed, as long as no two rotations overlapped;
\* and no record is gone before the retained files are all in use, as long as no rotation
\* was cut short either.
KeptRecordsAreNewest ==
    \A p \in Processes :
        LET written == 1 .. acknowledged[p]
        IN  /\ "overlap" \notin disturbed =>
                  /\ InOrder(p)
                  /\ Readable(p) \subseteq written
                  /\ \A m, n \in written : m \in Readable(p) /\ m < n => n \in Readable(p)
            /\ disturbed = {} /\ Readable(p) # written =>
                  present = Index \/ \E q \in Processes : Rotating(q)

\* What a process may write to a file; a record that is longer has a file of its own.
Most == IF Max(Sizes) > MaxBytes THEN Max(Sizes) ELSE MaxBytes

\* project-overview.md: rotation happens before a write would exceed the configured size.
\* Each process counts for itself, and a rotation may end in a file another one has begun:
\* a file holds what one process may write, times the processes, and no more.
LogFilesAreBounded == \A i \in Index : Bytes(content[i]) <= Cardinality(Processes) * Most
=============================================================================
