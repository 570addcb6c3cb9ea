-------------------------- MODULE SchemaMigration --------------------------
(***************************************************************************)
(* Opening the database, from src/storage.rs: any command may find one     *)
(* that an older version of the program left, and upgrades it.  migrate    *)
(* reads the version outside its transaction; the transaction is deferred: *)
(* its first read fixes what it sees, its first write takes the one write  *)
(* lock.  SQLite refuses that write at once, without waiting, if another   *)
(* connection holds the lock or has committed since the first read.        *)
(*                                                                         *)
(* A database is its version, its layout (which tables, columns and        *)
(* indexes it has) and its rows.  The tables that hold one kind of data    *)
(* are one element of a layout.                                            *)
(***************************************************************************)
EXTENDS ProgramProcesses, Integers

CONSTANTS
    OldDatabases,   \* what a file may be when the program first meets it
    GpuRows,        \* rows of the retired GPU monitoring
    UndatedRows,    \* rows of version 1 whose time stamp is not a date
    NewRows         \* bound: the rows that are inserted

CurrentVersion == 7
CurrentLayout == {"metric_samples", "resource", "collected_at_ms", "other tables",
                  "process columns", "indexes"}
LegacyLayout == {"gpu columns"}

Databases ==
    [version : Nat, layout : SUBSET (CurrentLayout \cup LegacyLayout),
     rows : SUBSET (NewRows \cup UNION {d.rows : d \in OldDatabases})]

ASSUME MigrationAssumption ==
    /\ OldDatabases \subseteq Databases
    /\ \A d \in OldDatabases :
          /\ d.version = CurrentVersion => d.layout = CurrentLayout /\ d.rows \cap GpuRows = {}
          /\ "metric_samples" \notin d.layout => d.layout = {} /\ d.rows = {}
    /\ NewRows \cap (GpuRows \cup UndatedRows) = {}

VARIABLES
    database,       \* what is committed
    connection      \* process -> how far it is with the database

migrationVars == <<database, connection>>

\* seen is the version that was read, snapshot what the transaction sees.
Stages == {"closed", "outdated", "reading", "writing", "open", "read only"}
NoSnapshot == [version |-> 0, layout |-> {}, rows |-> {}]
NoConnection == [stage |-> "closed", seen |-> 0, snapshot |-> NoSnapshot]

MigrationInit ==
    /\ database \in OldDatabases
    /\ connection = [p \in Processes |-> NoConnection]

Stage(p) == connection[p].stage
Locked == \E p \in Processes : Stage(p) = "writing"

OpenConnection(stage) == [NoConnection EXCEPT !.stage = stage]

\* Slip: a newer database is taken for an old one.
ReadVersion_AcceptsNewer(p) ==
    /\ Stage(p) = "closed"
    /\ connection' = [connection EXCEPT ![p] =
          IF database.version = CurrentVersion THEN OpenConnection("open")
          ELSE [NoConnection EXCEPT !.stage = "outdated", !.seen = database.version]]
    /\ UNCHANGED database

\* The beginning of migrate: a newer database is refused, a current one used as it is.
ReadVersion(p) ==
    /\ Stage(p) = "closed"
    /\ database.version <= CurrentVersion
    /\ connection' = [connection EXCEPT ![p] =
          IF database.version = CurrentVersion THEN OpenConnection("open")
          ELSE [NoConnection EXCEPT !.stage = "outdated", !.seen = database.version]]
    /\ UNCHANGED database

\* Slip: the version is set first, in a statement of its own.
BeginMigration_VersionFirst(p) ==
    /\ Stage(p) = "outdated" /\ ~Locked
    /\ database' = [database EXCEPT !.version = CurrentVersion]
    /\ connection' = [connection EXCEPT ![p].stage = "reading", ![p].snapshot = database']

\* The first read, of table_exists.
BeginMigration(p) ==
    /\ Stage(p) = "outdated"
    /\ connection' = [connection EXCEPT ![p].stage = "reading", ![p].snapshot = database]
    /\ UNCHANGED database

\* The first write; if it is refused the migration has failed.
TakeWriteLock(p) ==
    /\ Stage(p) = "reading"
    /\ ~Locked /\ connection[p].snapshot = database
    /\ connection' = [connection EXCEPT ![p].stage = "writing"]
    /\ UNCHANGED database

\* Every time stamp that has to be converted is a date.
CanBeDated(d) ==
    {"metric_samples", "collected_at_ms"} \cap d.layout = {"metric_samples"} =>
        d.rows \cap UndatedRows = {}

\* migrate_remove_gpu, for versions before 7.
WithoutGpu(d) == [d EXCEPT !.layout = @ \ LegacyLayout, !.rows = @ \ GpuRows]

\* The steps of the transaction: each adds what is missing, and the version comes last.
Migrated(d, seen) ==
    LET extended == [d EXCEPT !.layout = @ \cup CurrentLayout]
    IN  [(IF seen < 7 THEN WithoutGpu(extended) ELSE extended)
            EXCEPT !.version = CurrentVersion]

CommitMigration(p) ==
    /\ Stage(p) = "writing"
    /\ CanBeDated(connection[p].snapshot)
    /\ database' = Migrated(connection[p].snapshot, connection[p].seen)
    /\ connection' = [connection EXCEPT ![p] = OpenConnection("open")]

\* open_read_only, of the dashboard: it upgrades nothing and refuses every other version.
OpenReadOnly(p) ==
    /\ Stage(p) = "closed"
    /\ database.version = CurrentVersion
    /\ connection' = [connection EXCEPT ![p] = OpenConnection("read only")]
    /\ UNCHANGED database

\* The request is answered.
CloseReadOnly(p) ==
    /\ Stage(p) = "read only"
    /\ connection' = [connection EXCEPT ![p] = NoConnection]
    /\ UNCHANGED database

\* A transaction of the writer, which waits for the lock before it reads anything.
InsertRow(p) ==
    /\ Stage(p) = "open" /\ ~Locked
    /\ \E r \in NewRows \ database.rows : database' = [database EXCEPT !.rows = @ \cup {r}]
    /\ UNCHANGED connection

\* A step fails or the process ends: what was not committed is rolled back.
CloseDatabase(p) ==
    /\ connection' = [connection EXCEPT ![p] = NoConnection]
    /\ UNCHANGED database

OpenDatabase(p) ==
    \/ ReadVersion(p)
    \/ BeginMigration(p)
    \/ TakeWriteLock(p)
    \/ CommitMigration(p)

----------------------------------------------------------------------------
(* Properties. *)

MigrationTypeOK ==
    /\ database \in Databases
    /\ connection \in [Processes -> [stage : Stages, seen : 0 .. CurrentVersion,
                                     snapshot : Databases]]
    /\ Cardinality({p \in Processes : Stage(p) = "writing"}) <= 1

Upgrade ==
    INSTANCE AtomicUpgrade WITH
        version <- database.version,
        layout <- database.layout,
        rows <- database.rows,
        users <- {p \in Processes : Stage(p) \in {"open", "read only"}}

\* Two commands that open an old database at once, one of which decides by a version that is
\* no longer true, failures and kills at any step, rows inserted meanwhile: the upgrade is
\* atomic, happens once, loses no row, and nobody uses the database before.
UpgradeIsAtomic == Upgrade!Spec
=============================================================================
