------------------------- MODULE SharedFilesProofs -------------------------
(***************************************************************************)
(* Theorems about SharedFiles, for every set of processes, every old       *)
(* database and every size of the log.  The upgrade of the database is     *)
(* implemented; the log keeps its bound: each process has no more bytes in *)
(* a file than it has counted there, which the sum over the processes      *)
(* bounds.  A fold has no induction rule here: the facts about sums take a *)
(* smallest counterexample instead, by the well-founded order of the       *)
(* subsets of a finite set.  And the log loses nothing but its oldest      *)
(* records: the handle of a process tells where its records may be, and    *)
(* the step of a rotation which number is free.                            *)
(***************************************************************************)
EXTENDS SharedFiles, FiniteSetTheorems, TLAPS

----------------------------------------------------------------------------
(* The upgrade of the database. *)

\* A database that has the current version has all that goes with it.
CurrentIsComplete ==
    database.version = CurrentVersion =>
        database.layout = CurrentLayout /\ database.rows \cap GpuRows = {}

\* What a connection knows: it decided by an older version, and whoever has the lock sees
\* what is committed.
ConnectionsAgree ==
    \A p \in Processes :
        /\ Stage(p) # "closed" => database.version <= CurrentVersion
        /\ Stage(p) \in {"open", "read only"} => database.version = CurrentVersion
        /\ Stage(p) \in {"outdated", "reading", "writing"} =>
              connection[p].seen < CurrentVersion
        /\ Stage(p) = "writing" => connection[p].snapshot = database

OneWriter ==
    \A p, q \in Processes : Stage(p) = "writing" /\ Stage(q) = "writing" => p = q

ConnectionType ==
    /\ database \in Databases
    /\ connection \in [Processes -> [stage : Stages, seen : 0 .. CurrentVersion,
                                     snapshot : Databases]]

MigrationInv == ConnectionType /\ CurrentIsComplete /\ ConnectionsAgree /\ OneWriter

LEMMA InitMigration == MigrationInit => MigrationInv
<1> SUFFICES ASSUME MigrationInit PROVE MigrationInv
  OBVIOUS
<1>1. NoConnection \in [stage : Stages, seen : 0 .. CurrentVersion, snapshot : Databases]
  BY DEF NoConnection, NoSnapshot, Stages, CurrentVersion, Databases
<1>2. \A p \in Processes : Stage(p) = "closed"
  BY DEF MigrationInit, Stage, NoConnection
<1>3. ConnectionType /\ CurrentIsComplete
  BY <1>1, MigrationAssumption DEF MigrationInit, ConnectionType, CurrentIsComplete
<1>4. ConnectionsAgree /\ OneWriter
  BY <1>2 DEF ConnectionsAgree, OneWriter
<1> QED BY <1>3, <1>4 DEF MigrationInv

\* What the transaction commits is a database of the current version that has lost its GPU rows.
LEMMA MigratedDatabase ==
    ASSUME NEW d \in Databases, NEW seen \in 0 .. CurrentVersion, seen < CurrentVersion
    PROVE  /\ Migrated(d, seen) \in Databases
           /\ Migrated(d, seen).version = CurrentVersion
           /\ Migrated(d, seen).layout = CurrentLayout
           /\ Migrated(d, seen).rows = d.rows \ GpuRows
<1> DEFINE v == d.version
           l == d.layout
           r == d.rows
<1>1. d = [version |-> v, layout |-> l, rows |-> r]
  BY DEF Databases
<1>2. l \subseteq CurrentLayout \cup LegacyLayout
  BY DEF Databases
<1> HIDE DEF v, l, r
<1>3. [d EXCEPT !.layout = @ \cup CurrentLayout] =
          [version |-> v, layout |-> l \cup CurrentLayout, rows |-> r]
  BY <1>1
<1>4. (l \cup CurrentLayout) \ LegacyLayout = CurrentLayout
  BY <1>2 DEF CurrentLayout, LegacyLayout
<1>5. Migrated(d, seen) = [version |-> CurrentVersion, layout |-> CurrentLayout,
                           rows |-> r \ GpuRows]
  <2> DEFINE e == [version |-> v, layout |-> l \cup CurrentLayout, rows |-> r]
  <2>1. WithoutGpu(e) = [version |-> v, layout |-> CurrentLayout, rows |-> r \ GpuRows]
    <3> DEFINE e1 == [e EXCEPT !.layout = @ \ LegacyLayout]
    <3>1. e1 = [version |-> v, layout |-> CurrentLayout, rows |-> r]
      BY <1>4
    <3>2. WithoutGpu(e) = [e1 EXCEPT !.rows = e.rows \ GpuRows]
      BY DEF WithoutGpu
    <3> HIDE DEF e1
    <3> QED BY <3>1, <3>2
  <2> HIDE DEF e
  <2>2. Migrated(d, seen) = [WithoutGpu(e) EXCEPT !.version = CurrentVersion]
    BY <1>3 DEF Migrated, CurrentVersion, e
  <2> QED BY <2>1, <2>2
<1> QED BY <1>5 DEF Databases, CurrentVersion, r

\* The processes that use the database: users of the abstract specification.
Users == {p \in Processes : Stage(p) \in {"open", "read only"}}

\* A connection that comes to any state but the write lock, while the database stays as it is.
LEMMA ConnectionMoves ==
    ASSUME MigrationInv, NEW p \in Processes,
           NEW c \in [stage : Stages \ {"writing"}, seen : 0 .. CurrentVersion,
                      snapshot : Databases],
           connection' = [connection EXCEPT ![p] = c], UNCHANGED database,
           c.stage # "closed" => database.version <= CurrentVersion,
           c.stage \in {"open", "read only"} => database.version = CurrentVersion,
           c.stage \in {"outdated", "reading"} => c.seen < CurrentVersion
    PROVE  /\ MigrationInv'
           /\ IF c.stage \in {"open", "read only"} THEN Upgrade!Join(p) ELSE Upgrade!Leave(p)
<1>1. ConnectionType' /\ c.stage # "writing"
  BY DEF MigrationInv, ConnectionType, Stages
<1>2. \A q \in Processes : connection'[q] = IF q = p THEN c ELSE connection[q]
  <2>1. DOMAIN connection = Processes
    BY DEF MigrationInv, ConnectionType
  <2>2. connection' = [connection EXCEPT ![p] = c]
    OBVIOUS
  <2> QED BY ONLY <2>1, <2>2
<1>3. CurrentIsComplete'
  BY DEF MigrationInv, CurrentIsComplete
<1>4. ConnectionsAgree'
  <2>1. ASSUME NEW q \in Processes \ {p}
        PROVE  connection'[q] = connection[q] /\ database' = database
    BY <1>2
  <2>2. c.stage \in Stages /\ c.stage # "writing"
    BY <1>1 DEF Stages
  <2>3. connection'[p] = c /\ database' = database
    BY <1>2
  <2> QED BY <2>1, <2>2, <2>3 DEF MigrationInv, ConnectionsAgree, Stage, Stages
<1>5. OneWriter'
  <2>1. \A q \in Processes : Stage(q)' = "writing" => Stage(q) = "writing"
    BY <1>1, <1>2 DEF Stage
  <2> QED BY <2>1 DEF MigrationInv, OneWriter
<1>6. /\ Stage(p)' = c.stage
      /\ \A q \in Processes : q # p => Stage(q)' = Stage(q)
  BY <1>2 DEF Stage
<1>7. ASSUME c.stage \in {"open", "read only"} PROVE Upgrade!Join(p)
  <2>1. Users' = Users \cup {p}
    BY <1>6, <1>7 DEF Users
  <2> QED BY <1>7, <2>1 DEF Upgrade!Join, Users, MigrationInv, CurrentIsComplete
<1>8. ASSUME c.stage \notin {"open", "read only"} PROVE Upgrade!Leave(p)
  <2>1. Users' = Users \ {p}
    BY <1>6, <1>8 DEF Users
  <2> QED BY <1>8, <2>1 DEF Upgrade!Leave, Users
<1> QED BY <1>1, <1>3, <1>4, <1>5, <1>7, <1>8 DEF MigrationInv

LEMMA OpenConnectionType ==
    /\ \A s \in Stages : OpenConnection(s) =
          [stage |-> s, seen |-> 0, snapshot |-> NoSnapshot]
    /\ NoConnection = [stage |-> "closed", seen |-> 0, snapshot |-> NoSnapshot]
    /\ NoSnapshot \in Databases
BY DEF OpenConnection, NoConnection, NoSnapshot, Databases

\* A step of the database for p, abstractly.
AbstractStep(p) ==
    Upgrade!Insert(p) \/ Upgrade!UpgradeAndJoin(p) \/ Upgrade!Join(p) \/ Upgrade!Leave(p)

LEMMA ReadVersionStep ==
    ASSUME MigrationInv, NEW p \in Processes, ReadVersion(p)
    PROVE  MigrationInv' /\ AbstractStep(p)
<1> DEFINE c == IF database.version = CurrentVersion THEN OpenConnection("open")
                ELSE [NoConnection EXCEPT !.stage = "outdated", !.seen = database.version]
           o == [NoConnection EXCEPT !.stage = "outdated"]
<1>1. o = [stage |-> "outdated", seen |-> 0, snapshot |-> NoSnapshot]
  BY OpenConnectionType
<1>2. [NoConnection EXCEPT !.stage = "outdated", !.seen = database.version] =
          [o EXCEPT !.seen = database.version]
  OBVIOUS
<1> HIDE DEF o
<1>3. [o EXCEPT !.seen = database.version] =
          [stage |-> "outdated", seen |-> database.version, snapshot |-> NoSnapshot]
  BY <1>1
<1>4. c = IF database.version = CurrentVersion
          THEN [stage |-> "open", seen |-> 0, snapshot |-> NoSnapshot]
          ELSE [stage |-> "outdated", seen |-> database.version, snapshot |-> NoSnapshot]
  BY <1>2, <1>3, OpenConnectionType DEF Stages
<1>5. /\ connection' = [connection EXCEPT ![p] = c] /\ UNCHANGED database
      /\ database.version \in Nat /\ database.version <= CurrentVersion
  BY DEF ReadVersion, MigrationInv, ConnectionType, Databases
<1> HIDE DEF c
<1>6. /\ c \in [stage : Stages \ {"writing"}, seen : 0 .. CurrentVersion, snapshot : Databases]
      /\ c.stage \in {"open", "read only"} => database.version = CurrentVersion
      /\ c.stage \in {"outdated", "reading"} => c.seen < CurrentVersion
  <2>1. CASE database.version = CurrentVersion
    <3>1. /\ c = [stage |-> "open", seen |-> 0, snapshot |-> NoSnapshot]
          /\ 0 \in 0 .. CurrentVersion
      BY <1>4, <2>1 DEF CurrentVersion
    <3> QED BY <2>1, <3>1, OpenConnectionType DEF Stages
  <2>2. CASE database.version # CurrentVersion
    <3>1. database.version \in 0 .. CurrentVersion /\ database.version < CurrentVersion
      BY <1>5, <2>2 DEF CurrentVersion
    <3> QED BY <1>4, <2>2, <3>1, OpenConnectionType DEF Stages
  <2> QED BY <2>1, <2>2
<1> QED BY <1>5, <1>6, ConnectionMoves DEF AbstractStep

LEMMA BeginMigrationStep ==
    ASSUME MigrationInv, NEW p \in Processes, BeginMigration(p)
    PROVE  MigrationInv' /\ AbstractStep(p)
<1> DEFINE c == [stage |-> "reading", seen |-> connection[p].seen, snapshot |-> database]
           r == [connection[p] EXCEPT !.stage = "reading"]
<1>1. connection' = [connection EXCEPT ![p] = c] /\ UNCHANGED database
  <2>1. connection' = [connection EXCEPT ![p] = [r EXCEPT !.snapshot = database]]
    BY DEF BeginMigration, MigrationInv, ConnectionType
  <2>2. r = [stage |-> "reading", seen |-> connection[p].seen,
             snapshot |-> connection[p].snapshot]
    BY DEF MigrationInv, ConnectionType
  <2> HIDE DEF r
  <2>3. [r EXCEPT !.snapshot = database] = c
    BY <2>2
  <2> QED BY <2>1, <2>3 DEF BeginMigration
<1>2. /\ connection[p].seen \in 0 .. CurrentVersion /\ connection[p].seen < CurrentVersion
      /\ database \in Databases /\ database.version <= CurrentVersion
  BY DEF BeginMigration, MigrationInv, ConnectionType, ConnectionsAgree
<1>3. /\ c \in [stage : Stages \ {"writing"}, seen : 0 .. CurrentVersion, snapshot : Databases]
      /\ c.stage = "reading" /\ c.seen < CurrentVersion
  BY <1>2 DEF Stages
<1> HIDE DEF c
<1> QED BY <1>1, <1>2, <1>3, ConnectionMoves DEF AbstractStep

\* With the lock a connection sees what is committed, and no other connection has the lock.
LEMMA TakeWriteLockStep ==
    ASSUME MigrationInv, NEW p \in Processes, TakeWriteLock(p)
    PROVE  MigrationInv' /\ AbstractStep(p)
<1> DEFINE c == [connection[p] EXCEPT !.stage = "writing"]
<1>1. /\ connection' = [connection EXCEPT ![p] = c] /\ UNCHANGED database
      /\ connection[p].snapshot = database /\ Stage(p) = "reading"
      /\ \A q \in Processes : Stage(q) # "writing"
  BY DEF TakeWriteLock, MigrationInv, ConnectionType, Locked
<1>2. c = [stage |-> "writing", seen |-> connection[p].seen,
           snapshot |-> connection[p].snapshot]
  BY DEF MigrationInv, ConnectionType
<1> HIDE DEF c
<1>3. c \in [stage : Stages, seen : 0 .. CurrentVersion, snapshot : Databases]
  BY <1>2 DEF MigrationInv, ConnectionType, Stages
<1>4. \A q \in Processes : connection'[q] = IF q = p THEN c ELSE connection[q]
  BY <1>1 DEF MigrationInv, ConnectionType
<1>5. /\ Stage(p)' = "writing"
      /\ \A q \in Processes : q # p => Stage(q)' = Stage(q)
  BY <1>2, <1>4 DEF Stage
<1>6. ConnectionType' /\ CurrentIsComplete'
  BY <1>1, <1>3 DEF MigrationInv, ConnectionType, CurrentIsComplete
<1>7. ConnectionsAgree'
  <2>1. connection'[p].seen < CurrentVersion /\ connection'[p].snapshot = database
    <3>1. connection[p].seen < CurrentVersion
      BY <1>1 DEF MigrationInv, ConnectionsAgree
    <3>2. connection'[p] = c
      BY <1>4
    <3> QED BY <1>1, <1>2, <3>1, <3>2
  <2> QED BY <1>1, <1>4, <1>5, <2>1 DEF MigrationInv, ConnectionsAgree
<1>8. OneWriter'
  BY <1>1, <1>5 DEF OneWriter
<1>9. Upgrade!Leave(p)
  <2>1. Users' = Users \ {p}
    BY <1>1, <1>5 DEF Users
  <2> QED BY <1>1, <2>1 DEF Upgrade!Leave, Users
<1> QED BY <1>6, <1>7, <1>8, <1>9 DEF MigrationInv, AbstractStep

\* The commit is the upgrade, or changes nothing if another process has upgraded before.
LEMMA CommitMigrationStep ==
    ASSUME MigrationInv, NEW p \in Processes, CommitMigration(p)
    PROVE  MigrationInv' /\ AbstractStep(p)
<1> DEFINE c == [stage |-> "open", seen |-> 0, snapshot |-> NoSnapshot]
<1>1. /\ connection' = [connection EXCEPT ![p] = c]
      /\ Stage(p) = "writing" /\ connection[p].snapshot = database
      /\ database' = Migrated(database, connection[p].seen)
      /\ connection[p].seen \in 0 .. CurrentVersion /\ connection[p].seen < CurrentVersion
      /\ database \in Databases /\ database.version <= CurrentVersion
  BY OpenConnectionType
     DEF CommitMigration, MigrationInv, ConnectionType, ConnectionsAgree, Stages
<1>2. /\ database' \in Databases /\ database'.version = CurrentVersion
      /\ database'.layout = CurrentLayout /\ database'.rows = database.rows \ GpuRows
  BY <1>1, MigratedDatabase
<1>3. \A q \in Processes : connection'[q] = IF q = p THEN c ELSE connection[q]
  BY <1>1 DEF MigrationInv, ConnectionType
<1>4. /\ Stage(p)' = "open"
      /\ \A q \in Processes : q # p => Stage(q)' = Stage(q) /\ Stage(q) # "writing"
  BY <1>1, <1>3 DEF Stage, MigrationInv, OneWriter
<1>5. ConnectionType' /\ CurrentIsComplete'
  <2>1. 0 \in 0 .. CurrentVersion
    BY DEF CurrentVersion
  <2> QED BY <1>1, <1>2, <2>1, OpenConnectionType
          DEF MigrationInv, ConnectionType, CurrentIsComplete, Stages
<1>6. ConnectionsAgree'
  <2>1. CurrentVersion <= CurrentVersion
    BY DEF CurrentVersion
  <2> QED BY <1>2, <1>3, <1>4, <2>1 DEF MigrationInv, ConnectionsAgree
<1>7. OneWriter'
  BY <1>4 DEF OneWriter
<1>8. Users' = Users \cup {p}
  BY <1>4 DEF Users
<1>9. Upgrade!UpgradeAndJoin(p) \/ Upgrade!Join(p)
  <2>1. CASE database.version < CurrentVersion
    BY <1>2, <1>8, <2>1 DEF Upgrade!UpgradeAndJoin, Upgrade!Upgrade, Users
  <2>2. CASE database.version = CurrentVersion
    <3>1. database.layout = CurrentLayout /\ database.rows \cap GpuRows = {}
      BY <2>2 DEF MigrationInv, CurrentIsComplete
    <3>2. database'.rows = database.rows
      BY <1>2, <3>1
    <3> QED BY <1>2, <1>8, <2>2, <3>1, <3>2 DEF Upgrade!Join, Users
  <2> QED BY <1>1, <2>1, <2>2 DEF Databases, CurrentVersion
<1> QED BY <1>5, <1>6, <1>7, <1>9 DEF MigrationInv, AbstractStep

LEMMA ReadOnlyStep ==
    ASSUME MigrationInv, NEW p \in Processes,
           OpenReadOnly(p) \/ CloseReadOnly(p) \/ CloseDatabase(p)
    PROVE  MigrationInv' /\ AbstractStep(p)
<1>1. 0 \in 0 .. CurrentVersion /\ CurrentVersion <= CurrentVersion
  BY DEF CurrentVersion
<1>2. CASE OpenReadOnly(p)
  <2> DEFINE c == [stage |-> "read only", seen |-> 0, snapshot |-> NoSnapshot]
  <2>1. /\ connection' = [connection EXCEPT ![p] = c] /\ UNCHANGED database
        /\ database.version = CurrentVersion
    BY <1>2, OpenConnectionType DEF OpenReadOnly, Stages
  <2>2. /\ c \in [stage : Stages \ {"writing"}, seen : 0 .. CurrentVersion,
                  snapshot : Databases]
        /\ c.stage = "read only"
    BY <1>1, OpenConnectionType DEF Stages
  <2> HIDE DEF c
  <2> QED BY <1>1, <2>1, <2>2, ConnectionMoves DEF AbstractStep
<1>3. CASE CloseReadOnly(p) \/ CloseDatabase(p)
  <2>1. connection' = [connection EXCEPT ![p] = NoConnection] /\ UNCHANGED database
    BY <1>3 DEF CloseReadOnly, CloseDatabase
  <2>2. /\ NoConnection \in [stage : Stages \ {"writing"}, seen : 0 .. CurrentVersion,
                             snapshot : Databases]
        /\ NoConnection.stage = "closed"
    BY <1>1, OpenConnectionType DEF Stages
  <2> QED BY <2>1, <2>2, ConnectionMoves DEF AbstractStep
<1> QED BY <1>2, <1>3

LEMMA InsertRowStep ==
    ASSUME MigrationInv, NEW p \in Processes, InsertRow(p)
    PROVE  MigrationInv' /\ AbstractStep(p)
<1>1. PICK r \in NewRows \ database.rows :
          database' = [database EXCEPT !.rows = database.rows \cup {r}]
  BY DEF InsertRow
<1>2. /\ UNCHANGED connection
      /\ Stage(p) = "open"
      /\ \A q \in Processes : Stage(q) # "writing"
  BY DEF InsertRow, Locked
<1>3. database' = [version |-> database.version, layout |-> database.layout,
                   rows |-> database.rows \cup {r}]
  <2> DEFINE v == database.version
             l == database.layout
             w == database.rows
  <2>1. database = [version |-> v, layout |-> l, rows |-> w]
    BY DEF MigrationInv, ConnectionType, Databases
  <2> HIDE DEF v, l, w
  <2>2. [database EXCEPT !.rows = w \cup {r}] =
            [version |-> v, layout |-> l, rows |-> w \cup {r}]
    BY <2>1
  <2> QED BY <1>1, <2>2 DEF v, l, w
<1>4. r \notin GpuRows
  BY MigrationAssumption
<1>5. ConnectionType'
  BY <1>2, <1>3 DEF MigrationInv, ConnectionType, Databases
<1>6. CurrentIsComplete'
  BY <1>3, <1>4 DEF MigrationInv, CurrentIsComplete
<1>7. ConnectionsAgree' /\ OneWriter'
  BY <1>2, <1>3 DEF MigrationInv, ConnectionsAgree, OneWriter, Stage
<1>8. Upgrade!Insert(p)
  BY <1>2, <1>3, <1>4 DEF Upgrade!Insert, Stage
<1> QED BY <1>5, <1>6, <1>7, <1>8 DEF MigrationInv, AbstractStep

----------------------------------------------------------------------------
(* The commands together. *)

\* Whatever step the program takes, the database takes one of its own or none.
LEMMA MigrationStep ==
    ASSUME MigrationInv, [Next]_vars
    PROVE  MigrationInv' /\ [Upgrade!Next]_Upgrade!abstractVars
<1>1. CASE UNCHANGED migrationVars
  <2>1. MigrationInv'
    BY <1>1 DEF MigrationInv, ConnectionType, CurrentIsComplete, ConnectionsAgree, OneWriter,
                Stage, migrationVars
  <2>2. UNCHANGED Upgrade!abstractVars
    BY <1>1 DEF Upgrade!abstractVars, Stage, migrationVars
  <2> QED BY <2>1, <2>2
<1>2. ASSUME NEW p \in Processes, OpenDatabase(p)
      PROVE  MigrationInv' /\ AbstractStep(p)
  BY <1>2, ReadVersionStep, BeginMigrationStep, TakeWriteLockStep, CommitMigrationStep
     DEF OpenDatabase
<1>3. ASSUME NEW p \in Processes, UseDatabase(p) \/ End(p)
      PROVE  MigrationInv' /\ AbstractStep(p)
  BY <1>2, <1>3, ReadOnlyStep, InsertRowStep DEF UseDatabase, End
<1>4. ASSUME NEW p \in Processes, AbstractStep(p)
      PROVE  Upgrade!Next
  BY <1>4 DEF AbstractStep, Upgrade!Next
<1>5. CASE Next
  BY <1>1, <1>3, <1>4, <1>5 DEF Next, Launch, Log
<1>6. CASE UNCHANGED vars
  BY <1>1, <1>6 DEF vars
<1> QED BY <1>5, <1>6

\* Every connection has the stage and the knowledge its type says, and only one has the write
\* lock.
LEMMA MigrationInvariant == Spec => []MigrationInv
<1>1. Init => MigrationInv
  BY InitMigration DEF Init
<1>2. MigrationInv /\ [Next]_vars => MigrationInv'
  BY MigrationStep
<1> QED BY <1>1, <1>2, PTL DEF Spec

\* src/storage.rs, migrate: however many commands open an old database at once, whatever one of
\* them has read before another one upgraded it, and wherever they fail, the upgrade is atomic,
\* happens once, loses no row but those of the GPU monitoring, and nobody uses the database
\* before.
THEOREM UpgradeImplemented == Spec => UpgradeIsAtomic
<1>1. Init => Upgrade!Init
  <2>1. Init => \A p \in Processes : Stage(p) = "closed"
    BY DEF Init, MigrationInit, Stage, NoConnection
  <2> QED BY <2>1 DEF Upgrade!Init
<1>2. MigrationInv /\ [Next]_vars => [Upgrade!Next]_Upgrade!abstractVars
  BY MigrationStep
<1> QED BY <1>1, <1>2, MigrationInvariant, PTL DEF Spec, UpgradeIsAtomic, Upgrade!Spec

----------------------------------------------------------------------------
(* Sums over finite sets, and the bytes of a file. *)

LEMMA MinimalSubset ==
    ASSUME NEW D, IsFiniteSet(D), NEW T, T \subseteq SUBSET D, T # {}
    PROVE  \E s \in T : \A u \in T : u \subseteq s => u = s
<1>1. IsWellFoundedOn(StrictSubsetOrdering(D), SUBSET D)
  BY FS_StrictSubsetOrderingWellFounded, FS_FiniteSubsetsOfFinite, Zenon
<1>2. PICK s \in T : \A u \in T : ~ (<<u, s>> \in StrictSubsetOrdering(D))
  BY <1>1, WFMin, Zenon
<1>3. ASSUME NEW u \in T, u \subseteq s, u # s
      PROVE  <<u, s>> \in StrictSubsetOrdering(D)
  <2>1. <<u, s>> \in (SUBSET D) \X (SUBSET D)
    BY <1>2
  <2>2. <<u, s>>[1] = u /\ <<u, s>>[2] = s
    OBVIOUS
  <2> QED BY <1>3, <2>1, <2>2 DEF StrictSubsetOrdering
<1>4. \A u \in T : u \subseteq s => u = s
  BY <1>2, <1>3
<1> QED BY <1>4

\* it maps every subset of D to the sum of its weights, taken in the order of CHOOSE.
Pick(s) == CHOOSE x \in s : TRUE
SumTable(w, D, it) ==
    it = [s \in SUBSET D |-> IF s = {} THEN 0 ELSE w[Pick(s)] + it[s \ {Pick(s)}]]
Sum(w, D) == (CHOOSE it : SumTable(w, D, it))[D]

LEMMA PickIn == \A s : s # {} => Pick(s) \in s
BY DEF Pick

LEMMA TableRule ==
    ASSUME NEW w, NEW D, NEW it, SumTable(w, D, it), NEW s \in SUBSET D
    PROVE  it[s] = IF s = {} THEN 0 ELSE w[Pick(s)] + it[s \ {Pick(s)}]
BY Zenon DEF SumTable

\* Two tables agree where their weights do.
LEMMA TablesAgree ==
    ASSUME NEW w1, NEW D1, NEW t1, SumTable(w1, D1, t1),
           NEW w2, NEW D2, NEW t2, SumTable(w2, D2, t2),
           NEW D, IsFiniteSet(D), D \subseteq D1, D \subseteq D2, \A x \in D : w1[x] = w2[x]
    PROVE  t1[D] = t2[D]
<1> DEFINE T == {s \in SUBSET D : t1[s] # t2[s]}
<1> SUFFICES ASSUME T # {} PROVE FALSE
  OBVIOUS
<1>0. T \subseteq SUBSET D
  OBVIOUS
<1>1. PICK s \in T : \A u \in T : u \subseteq s => u = s
  <2> HIDE DEF T
  <2> QED BY <1>0, MinimalSubset
<1>2. s \in SUBSET D /\ s \in SUBSET D1 /\ s \in SUBSET D2 /\ t1[s] # t2[s]
  BY <1>1
<1>3. s # {}
  BY <1>2, TableRule
<1> DEFINE r == s \ {Pick(s)}
<1>4. Pick(s) \in s /\ Pick(s) \in D
  BY <1>2, <1>3, PickIn
<1>5. r \in SUBSET D /\ r \subseteq s /\ r # s
  BY <1>2, <1>4
<1>6. t1[r] = t2[r]
  BY <1>1, <1>5
<1>7. t1[s] = w1[Pick(s)] + t1[r] /\ t2[s] = w2[Pick(s)] + t2[r]
  BY <1>2, <1>3, TableRule
<1> QED BY <1>2, <1>4, <1>6, <1>7

LEMMA TableExists ==
    ASSUME NEW w, NEW D, IsFiniteSet(D)
    PROVE  \E it : SumTable(w, D, it)
<1> DEFINE T == {s \in SUBSET D : ~ \E it : SumTable(w, s, it)}
<1> SUFFICES ASSUME T # {} PROVE FALSE
  OBVIOUS
<1>0. T \subseteq SUBSET D
  OBVIOUS
<1>1. PICK e \in T : \A u \in T : u \subseteq e => u = e
  <2> HIDE DEF T
  <2> QED BY <1>0, MinimalSubset
<1>2. e \subseteq D /\ ~ \E it : SumTable(w, e, it)
  BY <1>1
<1> DEFINE tab(s) == CHOOSE it : SumTable(w, s, it)
<1>3. \A s \in SUBSET e : s # e => SumTable(w, s, tab(s))
  <2>1. ASSUME NEW s \in SUBSET e, s # e PROVE \E it : SumTable(w, s, it)
    BY <1>1, <1>2, <2>1
  <2> QED BY <2>1
<1> HIDE DEF tab
<1> DEFINE it == [s \in SUBSET e |-> IF s = {} THEN 0
                     ELSE w[Pick(s)] + tab(s \ {Pick(s)})[s \ {Pick(s)}]]
<1>4. ASSUME NEW s \in SUBSET e, s # {}
      PROVE  tab(s \ {Pick(s)})[s \ {Pick(s)}] = it[s \ {Pick(s)}]
  <2> DEFINE r == s \ {Pick(s)}
             p == Pick(r)
             q == r \ {p}
  <2>1. r \in SUBSET e /\ r # e
    BY <1>4, PickIn
  <2>2. SumTable(w, r, tab(r))
    BY <1>3, <2>1
  <2>3. CASE r = {}
    BY <2>1, <2>2, <2>3, TableRule
  <2>4. CASE r # {}
    <3>1. p \in r /\ q \in SUBSET e /\ q # e /\ q \in SUBSET r /\ r \in SUBSET r
      BY <2>1, <2>4, PickIn
    <3>2. tab(r)[r] = w[p] + tab(r)[q]
      <4>1. ASSUME NEW t, SumTable(w, r, t) PROVE t[r] = w[p] + t[q]
        <5> HIDE DEF r
        <5> QED BY <2>4, <3>1, <4>1, TableRule DEF p, q
      <4> QED BY <2>2, <4>1
    <3>3. SumTable(w, q, tab(q))
      BY <1>3, <3>1
    <3>4. IsFiniteSet(q)
      BY <1>2, <3>1, FS_Subset
    <3>5. tab(r)[q] = tab(q)[q]
      BY <2>2, <3>1, <3>3, <3>4, TablesAgree
    <3>6. it[r] = w[p] + tab(q)[q]
      BY <2>1, <2>4
    <3> QED BY <3>2, <3>5, <3>6
  <2> QED BY <2>3, <2>4
<1>5. SumTable(w, e, it)
  BY <1>4 DEF SumTable
<1> QED BY <1>2, <1>5

LEMMA SumOfTable ==
    ASSUME NEW w, NEW D, IsFiniteSet(D), NEW C, D \subseteq C, NEW it, SumTable(w, C, it)
    PROVE  it[D] = Sum(w, D)
<1> DEFINE t == CHOOSE i : SumTable(w, D, i)
<1>1. SumTable(w, D, t)
  BY TableExists
<1> HIDE DEF t
<1>2. it[D] = t[D]
  BY <1>1, TablesAgree
<1> QED BY <1>2 DEF Sum, t

LEMMA SumRule ==
    ASSUME NEW w, NEW D, IsFiniteSet(D)
    PROVE  Sum(w, D) = IF D = {} THEN 0 ELSE w[Pick(D)] + Sum(w, D \ {Pick(D)})
<1> DEFINE t == CHOOSE i : SumTable(w, D, i)
           r == D \ {Pick(D)}
<1>1. SumTable(w, D, t) /\ D \in SUBSET D /\ r \subseteq D
  BY TableExists
<1> HIDE DEF t
<1>2. t[D] = IF D = {} THEN 0 ELSE w[Pick(D)] + t[r]
  BY <1>1, TableRule
<1> HIDE DEF r
<1>3. IsFiniteSet(r)
  BY <1>1, FS_Subset
<1>4. t[D] = Sum(w, D) /\ t[r] = Sum(w, r)
  BY <1>1, <1>3, SumOfTable
<1> QED BY <1>2, <1>4 DEF r

LEMMA SumAgree ==
    ASSUME NEW w1, NEW w2, NEW D, IsFiniteSet(D), \A x \in D : w1[x] = w2[x]
    PROVE  Sum(w1, D) = Sum(w2, D)
<1> DEFINE t1 == CHOOSE i : SumTable(w1, D, i)
           t2 == CHOOSE i : SumTable(w2, D, i)
<1>1. SumTable(w1, D, t1) /\ SumTable(w2, D, t2)
  BY TableExists
<1> HIDE DEF t1, t2
<1>2. t1[D] = t2[D]
  BY <1>1, TablesAgree
<1> QED BY <1>2 DEF Sum, t1, t2

\* The order in which the weights are added does not matter.
LEMMA SumSplit ==
    ASSUME NEW D, IsFiniteSet(D), NEW w, \A x \in D : w[x] \in Nat
    PROVE  Sum(w, D) \in Nat /\ \A x \in D : Sum(w, D) = w[x] + Sum(w, D \ {x})
<1> DEFINE P(s) == Sum(w, s) \in Nat /\ \A x \in s : Sum(w, s) = w[x] + Sum(w, s \ {x})
           T == {s \in SUBSET D : ~ P(s)}
<1> SUFFICES ASSUME T # {} PROVE FALSE
  OBVIOUS
<1>0. T \subseteq SUBSET D
  OBVIOUS
<1>1. PICK s \in T : \A u \in T : u \subseteq s => u = s
  <2> HIDE DEF T
  <2> QED BY <1>0, MinimalSubset
<1>2. s \in SUBSET D /\ ~ P(s) /\ \A u \in SUBSET s : u # s => P(u)
  BY <1>1
<1>3. IsFiniteSet(s)
  BY <1>2, FS_Subset
<1>4. s # {}
  <2>1. Sum(w, s) = IF s = {} THEN 0 ELSE w[Pick(s)] + Sum(w, s \ {Pick(s)})
    BY <1>3, SumRule
  <2>2. s = {} => Sum(w, s) \in Nat
    BY <2>1
  <2> QED BY <1>2, <2>2
<1> DEFINE p == Pick(s)
           r == s \ {p}
<1>5. p \in s /\ p \in D /\ r \in SUBSET s /\ r # s
  BY <1>2, <1>4, PickIn
<1>6. Sum(w, s) = w[p] + Sum(w, r)
  BY <1>3, <1>4, SumRule
<1> HIDE DEF p
<1>7. Sum(w, r) \in Nat /\ \A x \in r : Sum(w, r) = w[x] + Sum(w, r \ {x})
  BY <1>2, <1>5
<1>8. Sum(w, s) \in Nat
  BY <1>5, <1>6, <1>7
<1>9. ASSUME NEW x \in s, x # p PROVE Sum(w, s) = w[x] + Sum(w, s \ {x})
  <2> DEFINE q == s \ {x}
             m == r \ {x}
  <2>1. q \in SUBSET s /\ q # s /\ p \in q /\ q \ {p} = m /\ x \in r /\ x \in D
        /\ m \in SUBSET s /\ m # s
    BY <1>2, <1>5, <1>9
  <2> HIDE DEF q, m, r
  <2>2. Sum(w, q) = w[p] + Sum(w, m)
    BY <1>2, <2>1
  <2>3. Sum(w, r) = w[x] + Sum(w, m) /\ Sum(w, m) \in Nat
    BY <1>2, <1>7, <2>1 DEF m
  <2> QED BY <1>5, <1>6, <2>1, <2>2, <2>3 DEF q
<1> QED BY <1>2, <1>6, <1>8, <1>9

LEMMA SumAdds ==
    ASSUME NEW D, IsFiniteSet(D), NEW w, NEW w1, NEW w2,
           \A x \in D : w1[x] \in Nat /\ w2[x] \in Nat /\ w[x] = w1[x] + w2[x]
    PROVE  Sum(w, D) = Sum(w1, D) + Sum(w2, D)
<1> DEFINE T == {s \in SUBSET D : Sum(w, s) # Sum(w1, s) + Sum(w2, s)}
<1> SUFFICES ASSUME T # {} PROVE FALSE
  OBVIOUS
<1>0. T \subseteq SUBSET D
  OBVIOUS
<1>1. PICK s \in T : \A u \in T : u \subseteq s => u = s
  <2> HIDE DEF T
  <2> QED BY <1>0, MinimalSubset
<1>2. /\ s \in SUBSET D /\ Sum(w, s) # Sum(w1, s) + Sum(w2, s)
      /\ \A u \in SUBSET s : u # s => Sum(w, u) = Sum(w1, u) + Sum(w2, u)
  BY <1>1
<1>3. IsFiniteSet(s)
  BY <1>2, FS_Subset
<1> DEFINE p == Pick(s)
           r == s \ {p}
<1>4. \A v : Sum(v, s) = IF s = {} THEN 0 ELSE v[p] + Sum(v, r)
  BY <1>3, SumRule
<1>5. s # {}
  BY <1>2, <1>4
<1>6. p \in s /\ p \in D /\ r \in SUBSET s /\ r # s /\ r \subseteq D
  BY <1>2, <1>5, PickIn
<1>7. IsFiniteSet(r)
  BY <1>6, FS_Subset
<1> HIDE DEF p, r
<1>8. Sum(w1, r) \in Nat /\ Sum(w2, r) \in Nat
  BY <1>6, <1>7, SumSplit
<1>9. Sum(w, r) = Sum(w1, r) + Sum(w2, r)
  BY <1>2, <1>6
<1> QED BY <1>2, <1>4, <1>5, <1>6, <1>8, <1>9

----------------------------------------------------------------------------
\* The bytes of the records that some processes have written.
Size(s) == [i \in DOMAIN s |-> s[i].size]
SizeBy(P, s) == [i \in DOMAIN s |-> IF s[i].by \in P THEN s[i].size ELSE 0]
BytesBy(P, s) == Sum(SizeBy(P, s), DOMAIN s)

LEMMA BytesAreSum ==
    ASSUME NEW B, NEW s \in Seq([by : B, number : Nat, size : Nat])
    PROVE  Bytes(s) = Sum(Size(s), DOMAIN s)
<1>1. \A t \in SUBSET DOMAIN s : t # {} => s[Pick(t)].size = Size(s)[Pick(t)]
  BY PickIn DEF Size
<1> DEFINE Table(it) == it = [t \in SUBSET DOMAIN s |-> IF t = {} THEN 0
                                 ELSE s[Pick(t)].size + it[t \ {Pick(t)}]]
<1>2. Bytes(s) = (CHOOSE it : Table(it))[DOMAIN s]
  BY DEF Bytes, FoldSeq, FoldFunction, FoldFunctionOnSet, MapThenFoldSet, Pick
<1>3. \A it : Table(it) <=> SumTable(Size(s), DOMAIN s, it)
  BY <1>1 DEF SumTable
<1>4. (CHOOSE it : Table(it)) = (CHOOSE it : SumTable(Size(s), DOMAIN s, it))
  <2> HIDE DEF Table
  <2> QED BY <1>3
<1> QED BY <1>2, <1>4 DEF Sum

Record(B) == [by : B, number : Nat, size : Nat]

LEMMA FiniteDomain ==
    ASSUME NEW R, NEW s \in Seq(R)
    PROVE  IsFiniteSet(DOMAIN s)
<1>1. DOMAIN s = 1 .. Len(s) /\ Len(s) \in Nat
  OBVIOUS
<1> QED BY <1>1, FS_Interval

LEMMA SumAppend ==
    ASSUME NEW n \in Nat, NEW w, NEW v, \A i \in 1 .. n + 1 : v[i] \in Nat,
           \A i \in 1 .. n : v[i] = w[i]
    PROVE  Sum(v, 1 .. n + 1) = Sum(w, 1 .. n) + v[n + 1]
<1>1. IsFiniteSet(1 .. n + 1) /\ IsFiniteSet(1 .. n)
  BY FS_Interval
<1>2. n + 1 \in 1 .. n + 1 /\ (1 .. n + 1) \ {n + 1} = 1 .. n
  OBVIOUS
<1>3. Sum(v, 1 .. n + 1) = v[n + 1] + Sum(v, (1 .. n + 1) \ {n + 1})
  BY <1>1, <1>2, SumSplit
<1>4. \A i \in 1 .. n : v[i] \in Nat
  OBVIOUS
<1>5. Sum(v, 1 .. n) = Sum(w, 1 .. n) /\ Sum(v, 1 .. n) \in Nat
  BY <1>1, <1>4, SumAgree, SumSplit
<1>6. v[n + 1] \in Nat
  BY <1>2
<1>7. Sum(v, 1 .. n + 1) = v[n + 1] + Sum(w, 1 .. n)
  BY <1>2, <1>3, <1>5
<1>8. Sum(w, 1 .. n) \in Nat
  BY <1>5
<1> QED BY <1>6, <1>7, <1>8

LEMMA BytesOfAppend ==
    ASSUME NEW B, NEW s \in Seq(Record(B)), NEW r \in Record(B), NEW P
    PROVE  /\ Bytes(s) \in Nat /\ BytesBy(P, s) \in Nat
           /\ Bytes(Append(s, r)) = Bytes(s) + r.size
           /\ BytesBy(P, Append(s, r)) = BytesBy(P, s) + (IF r.by \in P THEN r.size ELSE 0)
<1> DEFINE n == Len(s)
           a == Append(s, r)
<1>1. /\ n \in Nat /\ DOMAIN s = 1 .. n /\ DOMAIN a = 1 .. n + 1 /\ a \in Seq(Record(B))
      /\ \A i \in 1 .. n : a[i] = s[i] /\ s[i] \in Record(B)
      /\ a[n + 1] = r
  OBVIOUS
<1> HIDE DEF n, a
<1>2. \A i \in 1 .. n + 1 : Size(a)[i] \in Nat /\ SizeBy(P, a)[i] \in Nat
  <2>1. \A i \in 1 .. n + 1 : a[i] \in Record(B)
    BY <1>1
  <2> QED BY <1>1, <2>1 DEF Size, SizeBy, Record
<1>3. \A i \in 1 .. n : Size(a)[i] = Size(s)[i] /\ SizeBy(P, a)[i] = SizeBy(P, s)[i]
  BY <1>1 DEF Size, SizeBy
<1>4. /\ Size(a)[n + 1] = r.size
      /\ SizeBy(P, a)[n + 1] = IF r.by \in P THEN r.size ELSE 0
  BY <1>1 DEF Size, SizeBy
<1>5. /\ Sum(Size(a), 1 .. n + 1) = Sum(Size(s), 1 .. n) + Size(a)[n + 1]
      /\ Sum(SizeBy(P, a), 1 .. n + 1) = Sum(SizeBy(P, s), 1 .. n) + SizeBy(P, a)[n + 1]
  BY <1>1, <1>2, <1>3, SumAppend
<1>6. Sum(Size(s), 1 .. n) \in Nat /\ Sum(SizeBy(P, s), 1 .. n) \in Nat
  <2>1. \A i \in 1 .. n : i \in 1 .. n + 1
    BY <1>1
  <2>2. \A i \in 1 .. n : Size(s)[i] \in Nat /\ SizeBy(P, s)[i] \in Nat
    BY <1>2, <1>3, <2>1
  <2>3. IsFiniteSet(1 .. n)
    BY <1>1, FS_Interval
  <2> QED BY <2>2, <2>3, SumSplit
<1>7. Bytes(s) = Sum(Size(s), 1 .. n) /\ Bytes(a) = Sum(Size(a), 1 .. n + 1)
  BY <1>1, BytesAreSum DEF Record
<1> QED BY <1>1, <1>4, <1>5, <1>6, <1>7 DEF BytesBy, a

LEMMA BytesOfNone ==
    ASSUME NEW P
    PROVE  Bytes(<<>>) = 0 /\ BytesBy(P, <<>>) = 0
<1>1. <<>> \in Seq(Record({})) /\ DOMAIN <<>> = {}
  OBVIOUS
<1>2. Bytes(<<>>) = Sum(Size(<<>>), {})
  BY <1>1, BytesAreSum DEF Record
<1>3. \A w : Sum(w, {}) = 0
  BY SumRule, FS_EmptySet
<1> QED BY <1>1, <1>2, <1>3 DEF BytesBy

\* If no process of P has more than m bytes in it, all together have no more than so many times m.
LEMMA BytesByAll ==
    ASSUME NEW B, NEW s \in Seq(Record(B)), NEW P, IsFiniteSet(P), NEW m \in Nat,
           \A p \in P : BytesBy({p}, s) <= m
    PROVE  BytesBy(P, s) <= Cardinality(P) * m
<1> DEFINE T == {Q \in SUBSET P : ~ (BytesBy(Q, s) <= Cardinality(Q) * m)}
<1> SUFFICES ASSUME T # {} PROVE FALSE
  OBVIOUS
<1>0. T \subseteq SUBSET P
  OBVIOUS
<1>1. PICK Q \in T : \A u \in T : u \subseteq Q => u = Q
  <2> HIDE DEF T
  <2> QED BY <1>0, MinimalSubset
<1>2. /\ Q \in SUBSET P /\ ~ (BytesBy(Q, s) <= Cardinality(Q) * m)
      /\ \A u \in SUBSET Q : u # Q => BytesBy(u, s) <= Cardinality(u) * m
  BY <1>1
<1>3. \A i \in DOMAIN s : s[i].size \in Nat
  <2>1. \A i \in DOMAIN s : s[i] \in Record(B)
    OBVIOUS
  <2> QED BY <2>1 DEF Record
<1>4. IsFiniteSet(DOMAIN s) /\ IsFiniteSet(Q)
  BY <1>2, FiniteDomain, FS_Subset
<1>5. \A u : BytesBy(u, s) \in Nat
  <2>1. ASSUME NEW u PROVE \A i \in DOMAIN s : SizeBy(u, s)[i] \in Nat
    BY <1>3 DEF SizeBy
  <2> QED BY <1>4, <2>1, SumSplit DEF BytesBy
<1>6. CASE Q = {}
  <2>1. \A i \in DOMAIN s :
           SizeBy(Q, s)[i] \in Nat /\ SizeBy(Q, s)[i] + SizeBy(Q, s)[i] = SizeBy(Q, s)[i]
    BY <1>6 DEF SizeBy
  <2>2. BytesBy(Q, s) = BytesBy(Q, s) + BytesBy(Q, s)
    BY <1>4, <2>1, SumAdds DEF BytesBy
  <2>3. BytesBy(Q, s) = 0 /\ Cardinality(Q) = 0
    BY <1>5, <1>6, <2>2, FS_EmptySet
  <2> QED BY <1>2, <2>3
<1>7. CASE Q # {}
  <2> DEFINE p == Pick(Q)
             R == Q \ {p}
  <2>1. p \in Q /\ p \in P /\ R \in SUBSET Q /\ R # Q
    BY <1>2, <1>7, PickIn
  <2>2. Cardinality(R) = Cardinality(Q) - 1 /\ IsFiniteSet(R) /\ Cardinality(Q) \in Nat
    BY <1>4, <2>1, FS_RemoveElement, FS_CardinalityType
  <2> HIDE DEF p
  <2>3. \A i \in DOMAIN s :
           /\ SizeBy(R, s)[i] \in Nat /\ SizeBy({p}, s)[i] \in Nat
           /\ SizeBy(Q, s)[i] = SizeBy(R, s)[i] + SizeBy({p}, s)[i]
    BY <1>3, <2>1 DEF SizeBy
  <2> HIDE DEF R
  <2>4. BytesBy(Q, s) = BytesBy(R, s) + BytesBy({p}, s)
    <3> DEFINE d == DOMAIN s
               w == SizeBy(Q, s)
               v == SizeBy(R, s)
               u == SizeBy({p}, s)
    <3> HIDE DEF d, w, v, u
    <3>1. /\ IsFiniteSet(d)
          /\ \A i \in d : v[i] \in Nat /\ u[i] \in Nat /\ w[i] = v[i] + u[i]
      BY <1>4, <2>3 DEF d, w, v, u
    <3>2. Sum(w, d) = Sum(v, d) + Sum(u, d)
      BY <3>1, SumAdds
    <3> QED BY <3>2 DEF BytesBy, d, w, v, u
  <2>5. BytesBy(R, s) <= Cardinality(R) * m /\ BytesBy({p}, s) <= m
    BY <1>2, <2>1
  <2>6. Cardinality(R) \in Nat /\ Cardinality(Q) = Cardinality(R) + 1
    BY <2>2, FS_CardinalityType
  <2>7. Cardinality(Q) * m = Cardinality(R) * m + m
    BY <2>6
  <2>8. Cardinality(R) * m \in Nat
    BY <2>6
  <2> QED BY <1>2, <1>5, <2>4, <2>5, <2>7, <2>8
<1> QED BY <1>6, <1>7

----------------------------------------------------------------------------
(* The log. *)

LogRecord == [by : Processes, number : Nat \ {0}, size : Sizes]

\* No process has more bytes in a file than it has counted there, and none has any in the file
\* that its rotation is about to open.
SharesBounded ==
    \A p \in Processes :
        /\ \A i \in Index : BytesBy({p}, content[i]) <= Most
        /\ logger[p].file \in Index => BytesBy({p}, content[logger[p].file]) <= logger[p].written
        /\ logger[p].step = 0 => BytesBy({p}, content[0]) = 0

LogInv == LogTypeOK /\ SharesBounded

LEMMA LogConstants ==
    /\ Index = 0 .. RetainedFiles /\ 0 \in Index /\ RetainedFiles \in Index
    /\ FirstStep \in Nat /\ FirstStep = RetainedFiles + 1
    /\ Unlinked \notin Index /\ NoFile \notin Index
    /\ Sizes \subseteq Nat \ {0}
BY LogAssumption DEF Index, FirstStep, Unlinked, NoFile

LEMMA MostIsMost ==
    Most \in Nat /\ MaxBytes <= Most /\ \A n \in Sizes : n <= Most
<1> DEFINE T == {s \in SUBSET Sizes : s # {} /\ ~ \E m \in s : \A n \in s : m >= n}
<1>1. \E m \in Sizes : \A n \in Sizes : m >= n
  <2> SUFFICES ASSUME T # {} PROVE FALSE
    BY LogAssumption
  <2>0. T \subseteq SUBSET Sizes /\ IsFiniteSet(Sizes)
    BY LogAssumption
  <2>1. PICK s \in T : \A u \in T : u \subseteq s => u = s
    <3> HIDE DEF T
    <3> QED BY <2>0, MinimalSubset
  <2>2. /\ s \subseteq Sizes /\ s # {} /\ ~ \E m \in s : \A n \in s : m >= n
        /\ \A u \in SUBSET s : u # s /\ u # {} => \E m \in u : \A n \in u : m >= n
    BY <2>1
  <2>3. PICK x \in s : TRUE
    BY <2>2
  <2>4. s \ {x} # {}
    BY <2>2, LogAssumption
  <2>5. PICK y \in s \ {x} : \A n \in s \ {x} : y >= n
    BY <2>2, <2>4
  <2>6. x \in Nat /\ s \subseteq Nat
    BY <2>2, LogAssumption
  <2>7. CASE x >= y
    BY <2>2, <2>5, <2>6, <2>7
  <2>8. CASE ~ (x >= y)
    BY <2>2, <2>5, <2>6, <2>8
  <2> QED BY <2>7, <2>8
<1>2. Max(Sizes) \in Sizes /\ \A n \in Sizes : Max(Sizes) >= n
  BY <1>1, Zenon DEF Max
<1> DEFINE x == Max(Sizes)
<1>3. x \in Nat /\ MaxBytes \in Nat /\ (\A n \in Sizes : n \in Nat /\ n <= x)
  BY <1>2, LogAssumption
<1> HIDE DEF x
<1>4. Most = IF x > MaxBytes THEN x ELSE MaxBytes
  BY DEF Most, x
<1> QED BY <1>3, <1>4

\* Appending to a file adds to the bytes of the process that writes, and to no other's.
LEMMA SharesOfAppend ==
    ASSUME NEW s \in Seq(LogRecord), NEW r \in LogRecord, NEW p \in Processes
    PROVE  /\ BytesBy({p}, s) \in Nat
           /\ BytesBy({p}, Append(s, r)) = BytesBy({p}, s) + (IF p = r.by THEN r.size ELSE 0)
<1>1. LogRecord \subseteq Record(Processes)
  BY LogAssumption DEF LogRecord, Record
<1>2. s \in Seq(Record(Processes)) /\ r \in Record(Processes)
  BY <1>1
<1> QED BY <1>2, BytesOfAppend

\* What one process has in a file is a part of it.
LEMMA ShareInFile ==
    ASSUME NEW s \in Seq(LogRecord), NEW p \in Processes
    PROVE  Bytes(s) \in Nat /\ BytesBy({p}, s) \in Nat /\ BytesBy({p}, s) <= Bytes(s)
<1> DEFINE w == SizeBy({p}, s)
           v == SizeBy(Processes \ {p}, s)
           d == DOMAIN s
<1>1. \A i \in d : s[i] \in LogRecord
  OBVIOUS
<1>2. \A i \in d : s[i].by \in Processes /\ s[i].size \in Nat
  BY <1>1, LogAssumption DEF LogRecord
<1>3. \A i \in d : w[i] \in Nat /\ v[i] \in Nat /\ Size(s)[i] = w[i] + v[i]
  BY <1>2 DEF SizeBy, Size
<1>4. IsFiniteSet(d)
  BY FiniteDomain
<1> HIDE DEF w, v, d
<1>5. Sum(Size(s), d) = Sum(w, d) + Sum(v, d)
  BY <1>3, <1>4, SumAdds
<1>6. Sum(w, d) \in Nat /\ Sum(v, d) \in Nat
  BY <1>3, <1>4, SumSplit
<1>7. Bytes(s) = Sum(Size(s), d)
  <2>1. LogRecord \subseteq Record(Processes)
    BY LogAssumption DEF LogRecord, Record
  <2>2. s \in Seq(Record(Processes))
    BY <2>1
  <2> QED BY <2>2, BytesAreSum DEF Record, d
<1> QED BY <1>5, <1>6, <1>7 DEF BytesBy, w, d

LEMMA InitLog == LogInit => LogInv
<1> SUFFICES ASSUME LogInit PROVE LogInv
  OBVIOUS
<1>1. /\ Closed \in [file : Index \cup {Unlinked, NoFile}, written : Nat,
                     record : Sizes \cup {0}, step : Idle .. FirstStep]
      /\ Closed.record = 0 /\ Closed.step = Idle /\ Closed.file = NoFile
  BY LogConstants DEF Closed, Idle
<1>2. \A i \in Index : content[i] = <<>>
  BY DEF LogInit
<1>3. \A p \in Processes : logger[p] = Closed
  BY DEF LogInit
<1>4. LogTypeOK
  BY <1>1, <1>2, <1>3 DEF LogTypeOK, LogInit, Rotating, LogRecord
<1>5. SharesBounded
  BY <1>1, <1>2, <1>3, BytesOfNone, MostIsMost, LogConstants DEF SharesBounded, Idle
<1> QED BY <1>4, <1>5 DEF LogInv

LoggerRecord ==
    [file : Index \cup {Unlinked, NoFile}, written : Nat,
     record : Sizes \cup {0}, step : Idle .. FirstStep]

LEMMA LoggerFields ==
    ASSUME NEW l \in LoggerRecord
    PROVE  l = [file |-> l.file, written |-> l.written, record |-> l.record, step |-> l.step]
BY DEF LoggerRecord

\* A step that changes what one process knows, and no file's content.
LEMMA LoggerMoves ==
    ASSUME LogInv, NEW p \in Processes, NEW l \in LoggerRecord,
           logger' = [logger EXCEPT ![p] = l], UNCHANGED <<content, acknowledged>>,
           present \subseteq present', present' \subseteq Index,
           disturbed' \subseteq {"overlap", "cut short"},
           l.step # Idle <=> l.record # 0,
           l.file \in present' \cup {Unlinked, NoFile},
           l.file \in Index => BytesBy({p}, content[l.file]) <= l.written,
           l.step = 0 => BytesBy({p}, content[0]) = 0
    PROVE  LogInv'
<1>1. \A q \in Processes : logger'[q] = IF q = p THEN l ELSE logger[q]
  BY DEF LogInv, LogTypeOK
<1>2. logger' \in [Processes -> LoggerRecord]
  BY DEF LogInv, LogTypeOK, LoggerRecord
<1>3. \A q \in Processes : (logger[q].step # Idle)' <=> (logger[q].record # 0)'
  BY <1>1 DEF LogInv, LogTypeOK, Rotating
<1>4. \A q \in Processes : (logger[q].file)' \in present' \cup {Unlinked, NoFile}
  BY <1>1 DEF LogInv, LogTypeOK
<1>5. LogTypeOK'
  BY <1>2, <1>3, <1>4 DEF LogInv, LogTypeOK, Rotating, LoggerRecord
<1>6. SharesBounded'
  BY <1>1 DEF LogInv, SharesBounded
<1> QED BY <1>5, <1>6 DEF LogInv

LEMMA ClosedFile ==
    \A f : [Closed EXCEPT !.file = f] = [file |-> f, written |-> 0, record |-> 0, step |-> Idle]
BY DEF Closed

LEMMA ShareOfFile ==
    ASSUME LogInv, NEW p \in Processes, NEW i \in Index
    PROVE  /\ content[i] \in Seq(LogRecord)
           /\ Bytes(content[i]) \in Nat /\ BytesBy({p}, content[i]) \in Nat
           /\ BytesBy({p}, content[i]) <= Bytes(content[i])
<1>1. content[i] \in Seq(LogRecord)
  BY DEF LogInv, LogTypeOK, LogRecord
<1> QED BY <1>1, ShareInFile

LEMMA OpenLogStep ==
    ASSUME LogInv, NEW p \in Processes, OpenLog(p)
    PROVE  LogInv'
<1> DEFINE f == logger[p].file
           w == logger[p].written
           n == Bytes(content[0])
           l == [file |-> 0, written |-> n, record |-> 0, step |-> Idle]
<1>1. logger' = [logger EXCEPT ![p] = l]
  <2> DEFINE r == logger[p].record
             s == logger[p].step
             m == [logger[p] EXCEPT !.file = 0]
  <2>1. logger[p] = [file |-> f, written |-> w, record |-> r, step |-> s]
    BY LoggerFields DEF LogInv, LogTypeOK, LoggerRecord
  <2>2. logger' = [logger EXCEPT ![p] = [m EXCEPT !.written = n]]
    BY DEF OpenLog
  <2>3. r = 0 /\ s = Idle
    BY DEF OpenLog, Closed
  <2> HIDE DEF f, w, r, s, n
  <2>4. m = [file |-> 0, written |-> w, record |-> r, step |-> s]
    BY <2>1
  <2> HIDE DEF m
  <2>5. [m EXCEPT !.written = n] = l
    BY <2>3, <2>4
  <2> HIDE DEF l
  <2> QED BY <2>2, <2>5
<1>2. n \in Nat /\ BytesBy({p}, content[0]) <= n
  BY LogConstants, ShareOfFile
<1> HIDE DEF n
<1>3. l \in LoggerRecord
  BY <1>2, LogConstants DEF LoggerRecord, Idle
<1>4. l.file = 0 /\ l.step = Idle /\ l.record = 0 /\ l.written = n /\ Idle # 0
  BY DEF Idle
<1> HIDE DEF l
<1>5. /\ present \subseteq present' /\ present' \subseteq Index /\ 0 \in present'
      /\ disturbed' \subseteq {"overlap", "cut short"} /\ UNCHANGED <<content, acknowledged>>
  BY LogConstants DEF OpenLog, LogInv, LogTypeOK
<1> QED BY <1>1, <1>2, <1>3, <1>4, <1>5, LoggerMoves

LEMMA CloseLogStep ==
    ASSUME LogInv, NEW p \in Processes, CloseLog(p)
    PROVE  LogInv'
<1>1. /\ Closed \in LoggerRecord /\ Closed.step = Idle /\ Closed.record = 0
      /\ Closed.file = NoFile /\ Idle # 0
  BY LogConstants DEF Closed, LoggerRecord, Idle
<1>2. disturbed' \subseteq {"overlap", "cut short"}
  BY DEF CloseLog, LogInv, LogTypeOK
<1> QED BY <1>1, <1>2, LogConstants, LoggerMoves DEF CloseLog, LogInv, LogTypeOK

LEMMA BeginRotationStep ==
    ASSUME LogInv, NEW p \in Processes, BeginRotation(p)
    PROVE  LogInv'
<1>1. PICK size \in Sizes :
          logger' = [logger EXCEPT ![p].record = size, ![p].step = FirstStep]
  BY DEF BeginRotation
<1> DEFINE f == logger[p].file
           w == logger[p].written
           l == [file |-> f, written |-> w, record |-> size, step |-> FirstStep]
<1>2. f \in Index \cup {Unlinked, NoFile} /\ w \in Nat
  BY DEF LogInv, LogTypeOK
<1>3. logger' = [logger EXCEPT ![p] = l]
  <2> DEFINE r == logger[p].record
             s == logger[p].step
             m == [logger[p] EXCEPT !.record = size]
  <2>1. logger[p] = [file |-> f, written |-> w, record |-> r, step |-> s]
    BY LoggerFields DEF LogInv, LogTypeOK, LoggerRecord
  <2>2. logger' = [logger EXCEPT ![p] = [m EXCEPT !.step = FirstStep]]
    BY <1>1
  <2> HIDE DEF f, w, r, s
  <2>4. m = [file |-> f, written |-> w, record |-> size, step |-> s]
    BY <2>1
  <2> HIDE DEF m
  <2>5. [m EXCEPT !.step = FirstStep] = l
    BY <2>4
  <2> HIDE DEF l
  <2> QED BY <2>2, <2>5
<1>4. /\ l \in LoggerRecord /\ l.file = f /\ l.written = w
      /\ l.step = FirstStep /\ FirstStep # 0 /\ FirstStep # Idle /\ l.record # 0
  BY <1>2, LogConstants DEF LoggerRecord, Idle
<1>5. /\ f \in present \cup {Unlinked, NoFile}
      /\ f \in Index => BytesBy({p}, content[f]) <= w
  BY DEF LogInv, LogTypeOK, SharesBounded
<1>6. disturbed' \subseteq {"overlap", "cut short"}
  BY DEF BeginRotation, LogInv, LogTypeOK
<1> HIDE DEF l
<1> QED BY <1>3, <1>4, <1>5, <1>6, LoggerMoves DEF BeginRotation, LogInv, LogTypeOK

LEMMA RotationFailsStep ==
    ASSUME LogInv, NEW p \in Processes, RotationFails(p)
    PROVE  LogInv'
<1> DEFINE f == logger[p].file
           w == logger[p].written
           l == [file |-> f, written |-> w, record |-> 0, step |-> Idle]
<1>2. f \in Index \cup {Unlinked, NoFile} /\ w \in Nat
  BY DEF LogInv, LogTypeOK
<1>3. logger' = [logger EXCEPT ![p] = l]
  <2> DEFINE r == logger[p].record
             s == logger[p].step
             m == [logger[p] EXCEPT !.record = 0]
  <2>1. logger[p] = [file |-> f, written |-> w, record |-> r, step |-> s]
    BY LoggerFields DEF LogInv, LogTypeOK, LoggerRecord
  <2>2. logger' = [logger EXCEPT ![p] = [m EXCEPT !.step = Idle]]
    BY DEF RotationFails
  <2> HIDE DEF f, w, r, s
  <2>4. m = [file |-> f, written |-> w, record |-> 0, step |-> s]
    BY <2>1
  <2> HIDE DEF m
  <2>5. [m EXCEPT !.step = Idle] = l
    BY <2>4
  <2> HIDE DEF l
  <2> QED BY <2>2, <2>5
<1>4. /\ l \in LoggerRecord /\ l.file = f /\ l.written = w
      /\ l.step = Idle /\ Idle # 0 /\ l.record = 0
  BY <1>2, LogConstants DEF LoggerRecord, Idle
<1>5. /\ f \in present \cup {Unlinked, NoFile}
      /\ f \in Index => BytesBy({p}, content[f]) <= w
  BY DEF LogInv, LogTypeOK, SharesBounded
<1> HIDE DEF l
<1>6. /\ UNCHANGED <<present, content, acknowledged>> /\ present \subseteq Index
      /\ disturbed' \subseteq {"overlap", "cut short"}
  BY DEF RotationFails, LogInv, LogTypeOK
<1>7. /\ l.step # Idle <=> l.record # 0
      /\ l.file \in present' \cup {Unlinked, NoFile}
      /\ l.file \in Index => BytesBy({p}, content[l.file]) <= l.written
      /\ l.step # 0
  BY <1>4, <1>5, <1>6
<1> QED BY ONLY LogInv, p \in Processes, <1>3, <1>4, <1>6, <1>7, LoggerMoves

LEMMA LogTypes ==
    ASSUME LogInv
    PROVE  /\ present \subseteq Index
           /\ content \in [Index -> Seq(LogRecord)]
           /\ logger \in [Processes -> LoggerRecord]
           /\ acknowledged \in [Processes -> Nat]
           /\ disturbed \subseteq {"overlap", "cut short"}
           /\ \A i \in Index \ present : content[i] = <<>>
<1> USE DEF LogInv, LogTypeOK
<1>1. content \in [Index -> Seq(LogRecord)] /\ logger \in [Processes -> LoggerRecord]
  BY DEF LogRecord, LoggerRecord
<1> QED BY <1>1

LEMMA LoggerTypes ==
    ASSUME LogInv, NEW p \in Processes
    PROVE  /\ acknowledged[p] \in Nat
           /\ logger[p].file \in Index \cup {Unlinked, NoFile}
           /\ logger[p].file \in present \cup {Unlinked, NoFile}
           /\ logger[p].written \in Nat
           /\ logger[p].step # Idle => logger[p].record \in Sizes
           /\ logger[p].step = Idle => logger[p].record = 0
           /\ logger[p].step \in Idle .. FirstStep
<1>1. logger[p] \in LoggerRecord /\ acknowledged[p] \in Nat
  BY LogTypes
<1>2. /\ logger[p].file \in present \cup {Unlinked, NoFile}
      /\ logger[p].step # Idle <=> logger[p].record # 0
  BY DEF LogInv, LogTypeOK, Rotating
<1> QED BY <1>1, <1>2 DEF LoggerRecord

LEMMA FileTypes ==
    ASSUME LogInv, NEW i \in Index
    PROVE  content[i] \in Seq(LogRecord) /\ (i \notin present => content[i] = <<>>)
BY LogTypes

\* A record is written to a file that is open, or to one that has lost its name.
LEMMA AppendToStep ==
    ASSUME LogInv, NEW p \in Processes, NEW f \in Index \cup {Unlinked}, NEW size \in Sizes,
           NEW written \in Nat, AppendTo(p, f, size, written),
           present \subseteq present', present' \subseteq Index,
           f \in Index => f \in present',
           f \in Index => /\ BytesBy({p}, content[f]) + size <= Most
                          /\ BytesBy({p}, content[f]) <= written
    PROVE  LogInv'
<1> DEFINE r == [by |-> p, number |-> acknowledged[p] + 1, size |-> size]
           l == [file |-> f, written |-> written + size, record |-> 0, step |-> Idle]
<1>1. r \in LogRecord /\ r.by = p /\ r.size = size /\ size \in Nat
  <2>1. acknowledged[p] + 1 \in Nat \ {0}
    BY LoggerTypes
  <2> QED BY <2>1, LogConstants DEF LogRecord
<1>2. logger' = [logger EXCEPT ![p] = l]
  <2> DEFINE m == [Closed EXCEPT !.file = f]
  <2>1. m = [file |-> f, written |-> 0, record |-> 0, step |-> Idle]
    BY DEF Closed
  <2>2. logger' = [logger EXCEPT ![p] = [m EXCEPT !.written = written + size]]
    BY DEF AppendTo
  <2> HIDE DEF m
  <2>3. [m EXCEPT !.written = written + size] = l
    BY <2>1
  <2> HIDE DEF l
  <2> QED BY <2>2, <2>3
<1>3. \A i \in Index : content'[i] = IF i = f THEN Append(content[i], r) ELSE content[i]
  BY DEF AppendTo, LogInv, LogTypeOK
<1> HIDE DEF r
<1>4. \A i \in Index : content[i] \in Seq(LogRecord) /\ content'[i] \in Seq(LogRecord)
  <2>1. \A i \in Index : content[i] \in Seq(LogRecord)
    BY FileTypes
  <2>2. ASSUME NEW i \in Index PROVE content'[i] \in Seq(LogRecord)
    <3>1. Append(content[i], r) \in Seq(LogRecord)
      BY <1>1, <2>1
    <3> QED BY <1>3, <2>1, <3>1
  <2> QED BY <2>1, <2>2
<1>5. \A q \in Processes : logger'[q] = IF q = p THEN l ELSE logger[q]
  BY <1>2 DEF LogInv, LogTypeOK
<1>6. /\ l \in LoggerRecord /\ l.file = f /\ l.written = written + size
      /\ l.step = Idle /\ Idle # 0 /\ l.record = 0
  BY <1>1, LogConstants DEF LoggerRecord, Idle
<1> HIDE DEF l
<1>7. LogTypeOK'
  <2>1. content' \in [Index -> Seq(LogRecord)]
    BY <1>4 DEF AppendTo, LogInv, LogTypeOK
  <2>2. logger' \in [Processes -> LoggerRecord]
    BY <1>2, <1>6 DEF LogInv, LogTypeOK, LoggerRecord
  <2>3. \A q \in Processes : (logger[q].step # Idle)' <=> (logger[q].record # 0)'
    BY <1>5, <1>6 DEF LogInv, LogTypeOK, Rotating
  <2>4. \A q \in Processes : (logger[q].file)' \in present' \cup {Unlinked, NoFile}
    BY <1>5, <1>6 DEF LogInv, LogTypeOK
  <2>5. \A i \in Index \ present' : content'[i] = <<>>
    BY <1>3 DEF LogInv, LogTypeOK
  <2>6. acknowledged' \in [Processes -> Nat] /\ disturbed' \subseteq {"overlap", "cut short"}
    <3>1. /\ acknowledged' = [acknowledged EXCEPT ![p] = acknowledged[p] + 1]
          /\ disturbed' = disturbed /\ acknowledged[p] + 1 \in Nat
      BY LoggerTypes DEF AppendTo
    <3> QED BY <3>1, LogTypes
  <2> QED BY <2>1, <2>2, <2>3, <2>4, <2>5, <2>6
          DEF LogTypeOK, Rotating, LoggerRecord, LogRecord
<1>8. \A q \in Processes, i \in Index :
         /\ BytesBy({q}, content[i]) \in Nat
         /\ BytesBy({q}, content'[i]) =
               BytesBy({q}, content[i]) + (IF i = f /\ q = p THEN size ELSE 0)
  <2> SUFFICES ASSUME NEW q \in Processes, NEW i \in Index
               PROVE  /\ BytesBy({q}, content[i]) \in Nat
                      /\ BytesBy({q}, content'[i]) =
                            BytesBy({q}, content[i]) + (IF i = f /\ q = p THEN size ELSE 0)
    OBVIOUS
  <2>1. /\ BytesBy({q}, content[i]) \in Nat
        /\ BytesBy({q}, Append(content[i], r)) =
              BytesBy({q}, content[i]) + (IF q = p THEN size ELSE 0)
    BY <1>1, <1>4, SharesOfAppend
  <2> QED BY <1>3, <2>1
<1>9. SharesBounded'
  <2> SUFFICES ASSUME NEW q \in Processes
               PROVE  /\ \A i \in Index : BytesBy({q}, content'[i]) <= Most
                      /\ logger'[q].file \in Index =>
                            BytesBy({q}, content'[logger'[q].file]) <= logger'[q].written
                      /\ logger'[q].step = 0 => BytesBy({q}, content'[0]) = 0
    BY DEF SharesBounded
  <2>0. /\ \A i \in Index : BytesBy({q}, content[i]) <= Most
        /\ logger[q].file \in Index => BytesBy({q}, content[logger[q].file]) <= logger[q].written
        /\ logger[q].step = 0 => BytesBy({q}, content[0]) = 0
    BY DEF LogInv, SharesBounded
  <2>1. ASSUME NEW i \in Index PROVE BytesBy({q}, content'[i]) <= Most
    <3>1. CASE i = f /\ q = p
      BY <1>8, <3>1
    <3>2. CASE ~ (i = f /\ q = p)
      <4>1. BytesBy({q}, content[i]) \in Nat
            /\ BytesBy({q}, content'[i]) = BytesBy({q}, content[i]) + 0
        BY <1>8, <3>2
      <4>2. BytesBy({q}, content[i]) <= Most
        BY <2>0
      <4>3. BytesBy({q}, content'[i]) = BytesBy({q}, content[i])
        BY <4>1
      <4> QED BY <4>2, <4>3
    <3> QED BY <3>1, <3>2
  <2>2. CASE q = p
    <3>1. f \in Index => BytesBy({p}, content'[f]) <= written + size
      <4> SUFFICES ASSUME f \in Index PROVE BytesBy({p}, content'[f]) <= written + size
        OBVIOUS
      <4>1. /\ BytesBy({p}, content'[f]) = BytesBy({p}, content[f]) + size
            /\ BytesBy({p}, content[f]) \in Nat
        BY <1>8
      <4> QED BY <1>1, <4>1
    <3> QED BY <1>5, <1>6, <2>1, <2>2, <3>1
  <2>3. CASE q # p
    <3>1. ASSUME NEW i \in Index PROVE BytesBy({q}, content'[i]) = BytesBy({q}, content[i])
      <4>1. BytesBy({q}, content[i]) \in Nat
            /\ BytesBy({q}, content'[i]) = BytesBy({q}, content[i]) + 0
        BY <1>8, <2>3
      <4> QED BY <4>1
    <3> QED BY <1>5, <2>0, <2>1, <2>3, <3>1, LogConstants
  <2> QED BY <2>2, <2>3
<1> QED BY <1>7, <1>9 DEF LogInv

LEMMA WriteRecordStep ==
    ASSUME LogInv, NEW p \in Processes, WriteRecord(p)
    PROVE  LogInv'
<1> DEFINE f == logger[p].file
           w == logger[p].written
<1>1. PICK size \in Sizes : ~ Exceeds(p, size) /\ AppendTo(p, f, size, w)
  BY DEF WriteRecord
<1>2. /\ f \in Index \cup {Unlinked} /\ w \in Nat /\ (f \in Index => f \in present)
      /\ size \in Nat /\ MaxBytes \in Nat /\ Most \in Nat /\ MaxBytes <= Most /\ size <= Most
      /\ present' = present /\ present \subseteq Index
  <2>1. f \in Index \cup {Unlinked} /\ w \in Nat /\ (f \in Index => f \in present)
    BY LoggerTypes, LogConstants DEF WriteRecord, MayWrite
  <2>2. present' = present /\ present \subseteq Index
    BY LogTypes DEF WriteRecord
  <2>3. size \in Nat /\ MaxBytes \in Nat /\ Most \in Nat /\ MaxBytes <= Most /\ size <= Most
    BY LogAssumption, MostIsMost
  <2> QED BY <2>1, <2>2, <2>3
<1>3. f \in Index => /\ BytesBy({p}, content[f]) <= w
                     /\ BytesBy({p}, content[f]) \in Nat
  BY ShareOfFile DEF LogInv, SharesBounded
<1>4. w = 0 \/ w + size <= MaxBytes
  <2>1. ~ (w > 0 /\ w + size > MaxBytes)
    BY <1>1 DEF Exceeds
  <2>2. w \in Nat /\ size \in Nat /\ MaxBytes \in Nat
    BY <1>2
  <2> HIDE DEF w
  <2> QED BY <2>1, <2>2
<1>5. f \in Index => BytesBy({p}, content[f]) + size <= Most
  <2> SUFFICES ASSUME f \in Index PROVE BytesBy({p}, content[f]) + size <= Most
    OBVIOUS
  <2> DEFINE b == BytesBy({p}, content[f])
  <2>1. b <= w /\ b \in Nat
    BY <1>3
  <2>2. /\ w \in Nat /\ size \in Nat /\ MaxBytes \in Nat
        /\ Most \in Nat /\ MaxBytes <= Most /\ size <= Most
    BY <1>2
  <2> HIDE DEF b, w, f
  <2>3. b + size <= Most
    BY <1>4, <2>1, <2>2
  <2> QED BY <2>3 DEF b
<1>6. present \subseteq present' /\ present' \subseteq Index /\ (f \in Index => f \in present')
  BY <1>2
<1> HIDE DEF f, w
<1> QED BY <1>1, <1>2, <1>3, <1>5, <1>6, AppendToStep

LEMMA OpenNextStep ==
    ASSUME LogInv, NEW p \in Processes, OpenNext(p)
    PROVE  LogInv'
<1>1. /\ BytesBy({p}, content[0]) = 0
      /\ logger[p].record \in Sizes
      /\ present \subseteq present' /\ present' \subseteq Index /\ 0 \in present'
  <2>1. logger[p].step = 0 /\ present' = present \cup {0}
    BY DEF OpenNext
  <2>2. BytesBy({p}, content[0]) = 0
    BY <2>1 DEF LogInv, SharesBounded
  <2>3. logger[p].record \in Sizes
    BY <2>1, LoggerTypes DEF Idle
  <2> QED BY <2>1, <2>2, <2>3, LogTypes, LogConstants
<1>2. CASE AppendTo(p, 0, logger[p].record, 0)
  <2> DEFINE n == logger[p].record
  <2>1. n \in Sizes /\ n \in Nat /\ n <= Most
    BY <1>1, MostIsMost, LogConstants
  <2> HIDE DEF n
  <2>2. /\ BytesBy({p}, content[0]) + n <= Most /\ BytesBy({p}, content[0]) <= 0
        /\ 0 \in Nat /\ 0 \in Index
    BY <1>1, <2>1, LogConstants
  <2>3. AppendTo(p, 0, n, 0)
    BY <1>2 DEF n
  <2> QED BY <1>1, <2>1, <2>2, <2>3, AppendToStep
<1>3. CASE /\ logger' = [logger EXCEPT ![p] = [Closed EXCEPT !.file = 0]]
           /\ UNCHANGED <<content, acknowledged, disturbed>>
  <2> DEFINE l == [file |-> 0, written |-> 0, record |-> 0, step |-> Idle]
  <2>1. logger' = [logger EXCEPT ![p] = l]
    BY <1>3, ClosedFile
  <2>2. /\ l \in LoggerRecord /\ l.file = 0 /\ l.written = 0 /\ l.step = Idle /\ Idle # 0
        /\ l.record = 0
    BY LogConstants DEF LoggerRecord, Idle
  <2>3. disturbed' \subseteq {"overlap", "cut short"}
    BY <1>3 DEF LogInv, LogTypeOK
  <2>4. BytesBy({p}, content[0]) <= 0 /\ UNCHANGED <<content, acknowledged>>
    BY <1>1, <1>3
  <2> HIDE DEF l
  <2> QED BY <1>1, <2>1, <2>2, <2>3, <2>4, LoggerMoves
<1> QED BY <1>2, <1>3 DEF OpenNext

\* What the handles of all processes are once file a is file b.
LEMMA HandlesMove ==
    ASSUME LogInv, NEW p \in Processes, Rotating(p), logger[p].step \in 1 .. FirstStep,
           NEW a \in Index, NEW b \in Index \cup {Unlinked}, a # b,
           logger' = Handles(p, a, b)
    PROVE  /\ logger' \in [Processes -> LoggerRecord]
           /\ \A q \in Processes :
                 /\ logger'[q].file = NextHandle(logger[q].file, a, b)
                 /\ logger'[q].written = logger[q].written
                 /\ logger'[q].record = logger[q].record
                 /\ logger'[q].step = IF q = p THEN logger[p].step - 1 ELSE logger[q].step
<1> SUFFICES ASSUME NEW q \in Processes
             PROVE  /\ logger'[q] \in LoggerRecord
                    /\ logger'[q].file = NextHandle(logger[q].file, a, b)
                    /\ logger'[q].written = logger[q].written
                    /\ logger'[q].record = logger[q].record
                    /\ logger'[q].step = IF q = p THEN logger[p].step - 1 ELSE logger[q].step
  BY DEF Handles
<1> DEFINE f == logger[q].file
           w == logger[q].written
           r == logger[q].record
           s == logger[q].step
           g == NextHandle(f, a, b)
           t == IF q = p THEN s - 1 ELSE s
           m == [logger[q] EXCEPT !.file = g]
<1>1. logger'[q] = [m EXCEPT !.step = t]
  BY DEF Handles
<1>2. logger[q] \in LoggerRecord
  BY LogTypes
<1>3. logger[q] = [file |-> f, written |-> w, record |-> r, step |-> s]
  BY <1>2, LoggerFields
<1>4. g \in Index \cup {Unlinked, NoFile}
  BY LoggerTypes DEF NextHandle
<1>5. t \in Idle .. FirstStep
  BY LoggerTypes, LogConstants DEF Idle
<1>6. w \in Nat /\ r \in Sizes \cup {0}
  BY <1>2 DEF LoggerRecord
<1>7. t = IF q = p THEN logger[p].step - 1 ELSE logger[q].step
  OBVIOUS
<1> HIDE DEF g, t, s, r, w, f
<1>8. m = [file |-> g, written |-> w, record |-> r, step |-> s]
  BY <1>3
<1> HIDE DEF m
<1>9. logger'[q] = [file |-> g, written |-> w, record |-> r, step |-> t]
  BY <1>1, <1>8
<1> QED BY <1>4, <1>5, <1>6, <1>7, <1>9 DEF LoggerRecord, g, f, w, r

\* A file that takes another name, or none, with its content and its handles.
LEMMA FileMoves ==
    ASSUME LogInv, NEW p \in Processes, Rotating(p), logger[p].step \in 1 .. FirstStep,
           NEW a \in Index, NEW b \in Index \cup {Unlinked}, a # b, b # 0,
           logger' = Handles(p, a, b), UNCHANGED <<acknowledged, disturbed>>,
           present' = (present \ {a}) \cup ({b} \ {Unlinked}),
           content' \in [Index -> Seq(LogRecord)],
           \A i \in Index : content'[i] = IF i = a THEN <<>> ELSE IF i = b THEN content[a]
                                          ELSE content[i],
           logger[p].step = 1 => a = 0
    PROVE  LogInv'
<1>1. /\ logger' \in [Processes -> LoggerRecord]
      /\ \A q \in Processes :
            /\ logger'[q].file = NextHandle(logger[q].file, a, b)
            /\ logger'[q].written = logger[q].written
            /\ logger'[q].record = logger[q].record
            /\ logger'[q].step = IF q = p THEN logger[p].step - 1 ELSE logger[q].step
  BY HandlesMove
<1>2. ASSUME NEW q \in Processes
      PROVE  /\ logger'[q].step # Idle <=> logger'[q].record # 0
             /\ logger'[q].file \in present' \cup {Unlinked, NoFile}
  <2>1. /\ logger[q].step # Idle <=> logger[q].record # 0
        /\ logger[q].file \in present \cup {Unlinked, NoFile}
    BY DEF LogInv, LogTypeOK, Rotating
  <2>2. logger[p].step # Idle /\ logger[p].step - 1 # Idle
    BY DEF Idle
  <2> QED BY <1>1, <2>1, <2>2, LogConstants DEF NextHandle
<1>3. LogTypeOK'
  <2>1. present' \subseteq Index
    BY LogTypes
  <2>2. \A i \in Index \ present' : content'[i] = <<>>
    BY LogTypes, LogConstants
  <2>3. acknowledged' \in [Processes -> Nat] /\ disturbed' \subseteq {"overlap", "cut short"}
    BY LogTypes
  <2> QED BY <1>1, <1>2, <2>1, <2>2, <2>3 DEF LogTypeOK, Rotating, LoggerRecord, LogRecord
<1>4. ASSUME NEW q \in Processes
      PROVE  /\ \A i \in Index : BytesBy({q}, content'[i]) <= Most
             /\ logger'[q].file \in Index =>
                   BytesBy({q}, content'[logger'[q].file]) <= logger'[q].written
             /\ logger'[q].step = 0 => BytesBy({q}, content'[0]) = 0
  <2>1. /\ \A i \in Index : BytesBy({q}, content[i]) <= Most
        /\ logger[q].file \in Index => BytesBy({q}, content[logger[q].file]) <= logger[q].written
        /\ logger[q].step = 0 => BytesBy({q}, content[0]) = 0
    BY DEF LogInv, SharesBounded
  <2>2. BytesBy({q}, <<>>) = 0 /\ 0 <= Most
    BY BytesOfNone, MostIsMost
  <2>3. \A i \in Index : BytesBy({q}, content'[i]) <= Most
    BY <2>1, <2>2
  <2>4. ASSUME logger'[q].file \in Index
        PROVE  BytesBy({q}, content'[logger'[q].file]) <= logger'[q].written
    <3> DEFINE f == logger[q].file
    <3>1. logger'[q].file = NextHandle(f, a, b) /\ logger'[q].written = logger[q].written
      BY <1>1
    <3>2. CASE f = a
      BY <2>1, <2>4, <3>1, <3>2, LogConstants DEF NextHandle
    <3>3. CASE f # a
      BY <2>1, <2>4, <3>1, <3>3, LogConstants DEF NextHandle
    <3> QED BY <3>2, <3>3
  <2>5. ASSUME logger'[q].step = 0 PROVE BytesBy({q}, content'[0]) = 0
    <3>1. CASE a = 0
      BY <2>2, <3>1
    <3>2. CASE a # 0
      <4>1. q # p
        BY <1>1, <2>5, <3>2
      <4> QED BY <1>1, <2>1, <2>5, <3>2, <4>1, LogConstants
    <3> QED BY <3>1, <3>2
  <2> QED BY <2>3, <2>4, <2>5
<1>5. SharesBounded'
  BY <1>4 DEF SharesBounded
<1> QED BY <1>3, <1>5 DEF LogInv

LEMMA RemoveOldestStep ==
    ASSUME LogInv, NEW p \in Processes, RemoveOldest(p)
    PROVE  LogInv'
<1>1. /\ logger[p].step = FirstStep /\ FirstStep # Idle /\ FirstStep # 1
      /\ FirstStep \in 1 .. FirstStep
      /\ RetainedFiles \in Index /\ Unlinked # RetainedFiles /\ Unlinked # 0
  BY LogConstants, LogAssumption DEF RemoveOldest, Idle, Unlinked
<1>2. /\ logger' = Handles(p, RetainedFiles, Unlinked)
      /\ UNCHANGED <<acknowledged, disturbed>>
      /\ present' = (present \ {RetainedFiles}) \cup ({Unlinked} \ {Unlinked})
  BY DEF RemoveOldest
<1>3. content' = [content EXCEPT ![RetainedFiles] = <<>>]
  BY DEF RemoveOldest
<1>4. content \in [Index -> Seq(LogRecord)] /\ <<>> \in Seq(LogRecord)
  <2>1. content \in [Index -> Seq(LogRecord)]
    BY LogTypes
  <2> QED BY <2>1
<1>5. /\ content' \in [Index -> Seq(LogRecord)]
      /\ \A i \in Index : content'[i] = IF i = RetainedFiles THEN <<>>
                                        ELSE IF i = Unlinked THEN content[RetainedFiles]
                                        ELSE content[i]
  BY <1>3, <1>4, LogConstants
<1>6. Rotating(p)
  BY <1>1 DEF Rotating
<1> QED BY <1>1, <1>2, <1>5, <1>6, FileMoves

LEMMA RenameNextStep ==
    ASSUME LogInv, NEW p \in Processes, RenameNext(p)
    PROVE  LogInv'
<1> DEFINE s == logger[p].step
           a == s - 1
<1>1. s \in 1 .. RetainedFiles /\ Rename(p, a, s)
  BY DEF RenameNext
<1>2. /\ s # Idle /\ s # 0 /\ s \in 1 .. FirstStep /\ s \in Index
      /\ a \in Index /\ a # s /\ (s = 1 => a = 0) /\ (a = 0 => s = 1)
      /\ a # Idle /\ a \in Idle .. FirstStep
  <2>1. s \in 1 .. RetainedFiles /\ RetainedFiles \in Nat
    BY <1>1, LogAssumption
  <2> HIDE DEF s
  <2> QED BY <2>1 DEF Index, Idle, FirstStep
<1>3. CASE a \in present
  <2>1. /\ present' = (present \ {a}) \cup {s}
        /\ content' = [content EXCEPT ![s] = content[a], ![a] = <<>>]
        /\ logger' = Handles(p, a, s)
        /\ UNCHANGED <<acknowledged, disturbed>>
    BY <1>1, <1>3 DEF Rename
  <2>2. content \in [Index -> Seq(LogRecord)] /\ <<>> \in Seq(LogRecord)
    <3>1. content \in [Index -> Seq(LogRecord)]
      BY LogTypes
    <3> QED BY <3>1
  <2>3. Rotating(p) /\ s \in Index \cup {Unlinked} /\ {s} \ {Unlinked} = {s}
    BY <1>2, LogConstants DEF Rotating
  <2>4. logger[p].step = s
    OBVIOUS
  <2> HIDE DEF s, a
  <2>5. content' \in [Index -> Seq(LogRecord)]
    <3>1. content[a] \in Seq(LogRecord)
      BY <1>2, <2>2
    <3> DEFINE m == [content EXCEPT ![s] = content[a]]
    <3>2. m \in [Index -> Seq(LogRecord)]
      BY <2>2, <3>1
    <3>3. content' = [m EXCEPT ![a] = <<>>]
      BY <2>1
    <3> HIDE DEF m
    <3> QED BY <2>2, <3>2, <3>3
  <2>6. \A i \in Index : content'[i] = IF i = a THEN <<>> ELSE IF i = s THEN content[a]
                                       ELSE content[i]
    <3> DEFINE m == [content EXCEPT ![s] = content[a]]
    <3>1. \A i \in Index : m[i] = IF i = s THEN content[a] ELSE content[i]
      BY <2>2
    <3>2. m \in [Index -> Seq(LogRecord)]
      BY <1>2, <2>2
    <3>3. content' = [m EXCEPT ![a] = <<>>]
      BY <2>1
    <3> HIDE DEF m
    <3>4. \A i \in Index : content'[i] = IF i = a THEN <<>> ELSE m[i]
      BY <3>2, <3>3
    <3> QED BY <3>1, <3>4
  <2>7. present' = (present \ {a}) \cup ({s} \ {Unlinked}) /\ UNCHANGED <<acknowledged, disturbed>>
    BY <2>1, <2>3
  <2>8. logger[p].step \in 1 .. FirstStep /\ (logger[p].step = 1 => a = 0) /\ a # s /\ s # 0
    BY <1>2, <2>4
  <2>9. a \in Index /\ s \in Index \cup {Unlinked} /\ logger' = Handles(p, a, s)
    BY <1>2, <2>1, <2>3
  <2>10. Rotating(p)
    BY <2>3
  <2> QED BY <2>5, <2>6, <2>7, <2>8, <2>9, <2>10, FileMoves
<1>4. CASE a \notin present
  <2> DEFINE f == logger[p].file
             w == logger[p].written
             r == logger[p].record
             l == [file |-> f, written |-> w, record |-> r, step |-> a]
  <2>1. /\ logger' = [logger EXCEPT ![p].step = logger[p].step - 1]
        /\ UNCHANGED <<present, content, acknowledged, disturbed>>
    BY <1>1, <1>4 DEF Rename
  <2>2. logger' = [logger EXCEPT ![p] = l]
    <3>1. logger[p] = [file |-> f, written |-> w, record |-> r, step |-> s]
      BY LogTypes, LoggerFields
    <3>2. logger' = [logger EXCEPT ![p] = [logger[p] EXCEPT !.step = a]]
      BY <2>1
    <3>3. [logger[p] EXCEPT !.step = a] = l
      <4> HIDE DEF f, w, r, s, a
      <4> QED BY <3>1
    <3> QED BY <3>2, <3>3
  <2>3. /\ f \in Index \cup {Unlinked, NoFile} /\ f \in present \cup {Unlinked, NoFile}
        /\ w \in Nat /\ r \in Sizes /\ r # 0
    BY <1>2, LoggerTypes, LogConstants
  <2>4. f \in Index => BytesBy({p}, content[f]) <= w
    BY DEF LogInv, SharesBounded
  <2>5. a = 0 => BytesBy({p}, content[0]) = 0
    BY <1>4, FileTypes, BytesOfNone, LogConstants
  <2> HIDE DEF f, w, r, a
  <2>6. l \in LoggerRecord /\ l.file = f /\ l.written = w /\ l.record = r /\ l.step = a
    BY <1>2, <2>3 DEF LoggerRecord
  <2>7. disturbed' \subseteq {"overlap", "cut short"} /\ present' \subseteq Index
    BY <2>1, LogTypes
  <2> HIDE DEF l
  <2> QED BY <1>2, <2>1, <2>2, <2>3, <2>4, <2>5, <2>6, <2>7, LoggerMoves
<1> QED BY <1>3, <1>4

LEMMA LogUnchanged ==
    ASSUME LogInv, UNCHANGED logVars
    PROVE  LogInv'
BY DEF LogInv, LogTypeOK, SharesBounded, logVars, Rotating

LEMMA WriteLogStep ==
    ASSUME LogInv, NEW p \in Processes, WriteLog(p)
    PROVE  LogInv'
BY WriteRecordStep, BeginRotationStep, RemoveOldestStep, RenameNextStep, OpenNextStep,
   RotationFailsStep DEF WriteLog

LEMMA LogStep ==
    ASSUME LogInv, [Next]_vars
    PROVE  LogInv'
<1>1. CASE UNCHANGED vars
  BY <1>1, LogUnchanged DEF vars
<1>2. ASSUME NEW p \in Processes, NEW c \in Commands, Launch(p, c) PROVE LogInv'
  BY <1>2, OpenLogStep DEF Launch
<1>3. ASSUME NEW p \in Processes, Log(p) PROVE LogInv'
  BY <1>3, WriteLogStep DEF Log
<1>4. ASSUME NEW p \in Processes, UseDatabase(p) PROVE LogInv'
  BY <1>4, LogUnchanged DEF UseDatabase
<1>5. ASSUME NEW p \in Processes, End(p) PROVE LogInv'
  BY <1>5, CloseLogStep DEF End
<1> QED BY <1>1, <1>2, <1>3, <1>4, <1>5 DEF Next

LEMMA LogInvariant == Spec => []LogInv
<1>1. Init => LogInv
  BY InitLog DEF Init
<1>2. LogInv /\ [Next]_vars => LogInv'
  BY LogStep
<1> QED BY <1>1, <1>2, PTL DEF Spec

\* project-overview.md: a file holds no more than each process may write to it, times the
\* processes, whoever rotates and wherever a rotation fails.
THEOREM FilesBounded == Spec => []LogFilesAreBounded
<1>1. LogInv => LogFilesAreBounded
  <2> SUFFICES ASSUME LogInv, NEW i \in Index
               PROVE  Bytes(content[i]) <= Cardinality(Processes) * Most
    BY DEF LogFilesAreBounded
  <2>1. content[i] \in Seq(Record(Processes)) /\ content[i] \in Seq(LogRecord)
    <3>1. LogRecord \subseteq Record(Processes)
      BY LogAssumption DEF LogRecord, Record
    <3>2. content[i] \in Seq(LogRecord)
      BY FileTypes
    <3> QED BY <3>1, <3>2
  <2>2. \A p \in Processes : BytesBy({p}, content[i]) <= Most
    BY DEF LogInv, SharesBounded
  <2>3. BytesBy(Processes, content[i]) <= Cardinality(Processes) * Most
    BY <2>1, <2>2, BytesByAll, MostIsMost, ProcessesAssumption
  <2>4. Bytes(content[i]) = BytesBy(Processes, content[i])
    <3> DEFINE t == content[i]
    <3>1. t \in Seq(LogRecord) /\ t \in Seq(Record(Processes))
      BY <2>1
    <3> HIDE DEF t
    <3>2. \A k \in DOMAIN t : t[k] \in LogRecord
      BY <3>1
    <3>3. \A k \in DOMAIN t : Size(t)[k] = SizeBy(Processes, t)[k]
      BY <3>2 DEF LogRecord, Size, SizeBy
    <3>4. IsFiniteSet(DOMAIN t)
      BY <3>1, FiniteDomain
    <3>5. Bytes(t) = Sum(Size(t), DOMAIN t)
      BY <3>1, BytesAreSum DEF Record
    <3>6. Bytes(t) = BytesBy(Processes, t)
      BY <3>3, <3>4, <3>5, SumAgree DEF BytesBy
    <3> QED BY <3>6 DEF t
  <2> QED BY <2>3, <2>4
<1> QED BY <1>1, LogInvariant, PTL

----------------------------------------------------------------------------
(* The records that can be read. *)

OneRotates == \A p, q \in Processes : Rotating(p) /\ Rotating(q) => p = q

\* A rotation renames to a number that no file has.
StepIsFree ==
    \A p \in Processes : logger[p].step \in 1 .. RetainedFiles => logger[p].step \notin present

\* A process has no records in files that are newer than the one it has open; if that is gone,
\* so are all its records.
NothingBeyond(p, f) ==
    \A i \in Index : f = Unlinked \/ i < f => Positions(p, i) = {}

Newest(p) ==
    /\ InOrder(p)
    /\ Readable(p) \subseteq 1 .. acknowledged[p]
    /\ \A m, n \in 1 .. acknowledged[p] : m \in Readable(p) /\ m < n => n \in Readable(p)

\* As long as no two rotations have overlapped.
OrderInv ==
    /\ OneRotates /\ StepIsFree
    /\ \A p \in Processes : NothingBeyond(p, logger[p].file) /\ Newest(p)

\* The number is that of a file, or of one that a rotation is about to make.
Covered(i) == i \in present \/ \E p \in Processes : logger[p].step = i

NoHoles == \A i \in present, j \in Index : j < i => Covered(j)

HasLost(p) == logger[p].file = Unlinked \/ Readable(p) # 1 .. acknowledged[p]
LostWhenFull == \A p \in Processes : HasLost(p) => \A i \in Index : Covered(i)

KeptInv ==
    /\ LogInv
    /\ "overlap" \notin disturbed => OrderInv
    /\ disturbed = {} => NoHoles /\ LostWhenFull

LEMMA ReadableIs ==
    /\ \A p, n : n \in Readable(p) <=>
          \E i \in Index : \E k \in Positions(p, i) : n = content[i][k].number
    /\ \A p, n : n \in Readable(p)' <=>
          \E i \in Index : \E k \in Positions(p, i)' : n = content'[i][k].number
BY DEF Readable

\* A record that is appended to file f takes the place behind all others there.
LEMMA AppendPlaces ==
    ASSUME LogInv, NEW p \in Processes, NEW f \in Index \cup {Unlinked}, NEW size \in Sizes,
           NEW written \in Nat, AppendTo(p, f, size, written)
    PROVE  /\ \A q \in Processes, i \in Index :
                 /\ Positions(q, i)' = IF i = f /\ q = p
                                       THEN Positions(q, i) \cup {Len(content[i]) + 1}
                                       ELSE Positions(q, i)
                 /\ \A k \in Positions(q, i) : k \in 1 .. Len(content[i])
                                               /\ content'[i][k] = content[i][k]
           /\ f \in Index => content'[f][Len(content[f]) + 1].number = acknowledged[p] + 1
           /\ \A q \in Processes : acknowledged'[q] = IF q = p THEN acknowledged[q] + 1
                                                      ELSE acknowledged[q]
<1> DEFINE r == [by |-> p, number |-> acknowledged[p] + 1, size |-> size]
<1>1. \A i \in Index : content'[i] = IF i = f THEN Append(content[i], r) ELSE content[i]
  BY LogTypes DEF AppendTo
<1>2. r.by = p /\ r.number = acknowledged[p] + 1
  OBVIOUS
<1>3. \A q \in Processes : acknowledged'[q] = IF q = p THEN acknowledged[q] + 1
                                               ELSE acknowledged[q]
  BY LogTypes DEF AppendTo
<1> HIDE DEF r
<1>4. ASSUME NEW i \in Index
      PROVE  /\ DOMAIN content[i] = 1 .. Len(content[i]) /\ Len(content[i]) \in Nat
             /\ i = f => /\ DOMAIN content'[i] = 1 .. Len(content[i]) + 1
                         /\ content'[i][Len(content[i]) + 1] = r
                         /\ \A k \in 1 .. Len(content[i]) : content'[i][k] = content[i][k]
  <2> DEFINE s == content[i]
  <2>1. s \in Seq(LogRecord)
    BY FileTypes
  <2>2. i = f => content'[i] = Append(s, r)
    BY <1>1
  <2> HIDE DEF s
  <2>3. /\ DOMAIN s = 1 .. Len(s) /\ Len(s) \in Nat
        /\ DOMAIN Append(s, r) = 1 .. Len(s) + 1
        /\ Append(s, r)[Len(s) + 1] = r
        /\ \A k \in 1 .. Len(s) : Append(s, r)[k] = s[k]
    BY <2>1
  <2> QED BY <2>2, <2>3 DEF s
<1>5. ASSUME NEW q \in Processes, NEW i \in Index
      PROVE  /\ Positions(q, i)' = IF i = f /\ q = p
                                   THEN Positions(q, i) \cup {Len(content[i]) + 1}
                                   ELSE Positions(q, i)
             /\ \A k \in Positions(q, i) : k \in 1 .. Len(content[i])
                                           /\ content'[i][k] = content[i][k]
  <2>1. CASE i = f
    <3> DEFINE n == Len(content[i])
    <3>1. /\ n \in Nat /\ DOMAIN content[i] = 1 .. n /\ DOMAIN content'[i] = 1 .. n + 1
          /\ content'[i][n + 1] = r /\ \A k \in 1 .. n : content'[i][k] = content[i][k]
      BY <1>4, <2>1
    <3>2. (1 .. n + 1) = (1 .. n) \cup {n + 1}
      BY <3>1
    <3> HIDE DEF n
    <3>3. Positions(q, i)' = {k \in 1 .. n : content[i][k].by = q}
                                \cup {k \in {n + 1} : r.by = q}
      BY <3>1, <3>2 DEF Positions
    <3>4. Positions(q, i) = {k \in 1 .. n : content[i][k].by = q}
      BY <3>1 DEF Positions
    <3>5. q = p => {k \in {n + 1} : r.by = q} = {n + 1}
      BY <1>2
    <3>6. q # p => {k \in {n + 1} : r.by = q} = {}
      BY <1>2
    <3> QED BY <2>1, <3>1, <3>3, <3>4, <3>5, <3>6 DEF n
  <2>2. CASE i # f
    BY <1>1, <1>4, <2>2 DEF Positions
  <2> QED BY <2>1, <2>2
<1>6. f \in Index => content'[f][Len(content[f]) + 1].number = acknowledged[p] + 1
  BY <1>2, <1>4
<1> QED BY <1>3, <1>5, <1>6

LEMMA AppendNewest ==
    ASSUME LogInv, NEW p \in Processes, NEW f \in Index \cup {Unlinked}, NEW size \in Sizes,
           NEW written \in Nat, AppendTo(p, f, size, written),
           \A q \in Processes : Newest(q), NothingBeyond(p, f)
    PROVE  /\ \A q \in Processes : Newest(q)'
           /\ \A q \in Processes : f \in Index /\ Readable(q) = 1 .. acknowledged[q] =>
                 Readable(q)' = 1 .. acknowledged'[q]
<1>1. \A q \in Processes, i \in Index :
         /\ Positions(q, i)' = IF i = f /\ q = p
                               THEN Positions(q, i) \cup {Len(content[i]) + 1}
                               ELSE Positions(q, i)
         /\ \A k \in Positions(q, i) : k \in 1 .. Len(content[i])
                                       /\ content'[i][k] = content[i][k]
  BY AppendPlaces, ZenonT(60)
<1>2. /\ f \in Index => content'[f][Len(content[f]) + 1].number = acknowledged[p] + 1
      /\ \A q \in Processes : acknowledged'[q] = IF q = p THEN acknowledged[q] + 1
                                                 ELSE acknowledged[q]
  BY AppendPlaces
<1>3. \A q \in Processes : acknowledged[q] \in Nat
  BY LoggerTypes
<1>4. ASSUME NEW q \in Processes, NEW n
      PROVE  n \in Readable(q)' <=>
                 n \in Readable(q) \/ (q = p /\ f \in Index /\ n = acknowledged[p] + 1)
  <2>1. ASSUME n \in Readable(q)'
        PROVE  n \in Readable(q) \/ (q = p /\ f \in Index /\ n = acknowledged[p] + 1)
    <3>1. PICK i \in Index : \E k \in Positions(q, i)' : n = content'[i][k].number
      BY <2>1, ReadableIs
    <3>2. PICK k \in Positions(q, i)' : n = content'[i][k].number
      BY <3>1
    <3>3. CASE k \in Positions(q, i)
      <4>1. n = content[i][k].number
        BY <1>1, <3>2, <3>3
      <4> QED BY <3>3, <4>1, ReadableIs
    <3>4. CASE i = f /\ q = p /\ k = Len(content[i]) + 1
      BY <1>2, <3>2, <3>4
    <3> QED BY <1>1, <3>3, <3>4
  <2>2. ASSUME n \in Readable(q) PROVE n \in Readable(q)'
    <3>1. PICK i \in Index : \E k \in Positions(q, i) : n = content[i][k].number
      BY <2>2, ReadableIs
    <3>2. PICK k \in Positions(q, i) : n = content[i][k].number
      BY <3>1
    <3>3. k \in Positions(q, i)' /\ content'[i][k] = content[i][k]
      BY <1>1
    <3> QED BY <3>2, <3>3, ReadableIs
  <2>3. ASSUME q = p, f \in Index, n = acknowledged[p] + 1 PROVE n \in Readable(q)'
    <3>1. Len(content[f]) + 1 \in Positions(q, f)'
      BY <1>1, <2>3
    <3> QED BY <1>2, <2>3, <3>1, ReadableIs
  <2> QED BY <2>1, <2>2, <2>3
<1>5. ASSUME NEW q \in Processes, NEW i \in Index, NEW k \in Positions(q, i)
      PROVE  content[i][k].number \in 1 .. acknowledged[q]
  BY ReadableIs DEF Newest
<1>6. ASSUME NEW q \in Processes PROVE InOrder(q)'
  <2> SUFFICES ASSUME NEW i \in Index, NEW j \in Index,
                      NEW k \in Positions(q, i)', NEW l \in Positions(q, j)',
                      i > j \/ (i = j /\ k < l)
               PROVE  content'[i][k].number < content'[j][l].number
    BY DEF InOrder
  <2>0. InOrder(q) /\ acknowledged[q] \in Nat
    BY <1>3 DEF Newest
  <2>1. CASE k \in Positions(q, i) /\ l \in Positions(q, j)
    BY <1>1, <2>0, <2>1 DEF InOrder
  <2>2. CASE q = p /\ j = f /\ l = Len(content[j]) + 1 /\ k \in Positions(q, i)
    <3>1. content'[j][l].number = acknowledged[p] + 1 /\ content'[i][k] = content[i][k]
      BY <1>1, <1>2, <2>2
    <3> QED BY <1>5, <2>0, <2>2, <3>1
  <2>3. CASE q = p /\ i = f /\ k = Len(content[i]) + 1
    <3>1. f \in Index /\ f # Unlinked /\ Len(content[f]) \in Nat
      BY <2>3, FileTypes, LogConstants
    <3>2. i \in Int /\ j \in Int
      BY DEF Index
    <3>3. CASE i > j
      <4>1. j < f /\ j # f
        BY <2>3, <3>2, <3>3
      <4>2. l \in Positions(q, j)
        BY <1>1, <4>1
      <4> QED BY <2>3, <3>1, <4>1, <4>2 DEF NothingBeyond
    <3>4. CASE i = j /\ k < l
      <4>1. l \in 1 .. Len(content[f]) \/ l = Len(content[f]) + 1
        BY <1>1, <2>3, <3>4
      <4> QED BY <2>3, <3>1, <3>4, <4>1
    <3> QED BY <3>3, <3>4
  <2> QED BY <1>1, <2>1, <2>2, <2>3
<1>7. ASSUME NEW q \in Processes
      PROVE  /\ Readable(q)' \subseteq 1 .. acknowledged'[q]
             /\ \A m, n \in 1 .. acknowledged'[q] :
                   m \in Readable(q)' /\ m < n => n \in Readable(q)'
             /\ f \in Index /\ Readable(q) = 1 .. acknowledged[q] =>
                   Readable(q)' = 1 .. acknowledged'[q]
  <2>1. /\ Readable(q) \subseteq 1 .. acknowledged[q]
        /\ \A m, n \in 1 .. acknowledged[q] :
              m \in Readable(q) /\ m < n => n \in Readable(q)
    BY DEF Newest
  <2>2. q = p /\ f = Unlinked => Readable(q) = {}
    BY ReadableIs DEF NothingBeyond
  <2>3. acknowledged[q] \in Nat /\ Unlinked \notin Index
    BY <1>3, LogConstants
  <2> DEFINE R == Readable(q)
             S == Readable(q)'
             a == acknowledged[q]
             b == acknowledged'[q]
  <2>4. \A n : n \in S <=> n \in R \/ (q = p /\ f \in Index /\ n = a + 1)
    <3>1. \A n : n \in Readable(q)' <=>
                  n \in Readable(q) \/ (q = p /\ f \in Index /\ n = acknowledged[p] + 1)
      BY <1>4
    <3> QED BY <3>1
  <2>5. b = IF q = p THEN a + 1 ELSE a
    BY <1>2
  <2> HIDE DEF R, S, a, b
  <2>6. /\ R \subseteq 1 .. a /\ \A m, n \in 1 .. a : m \in R /\ m < n => n \in R
        /\ q = p /\ f = Unlinked => R = {}
        /\ a \in Nat /\ Unlinked \notin Index
    BY <2>1, <2>2, <2>3 DEF R, a
  <2>7. S \subseteq 1 .. b /\ \A m, n \in 1 .. b : m \in S /\ m < n => n \in S
    <3>1. CASE q = p /\ f \in Index
      <4>1. b = a + 1 /\ \A n : n \in S <=> n \in R \/ n = a + 1
        BY <2>4, <2>5, <3>1
      <4>2. ASSUME NEW n \in S PROVE n \in 1 .. b
        <5>1. n \in 1 .. a \/ n = a + 1
          BY <2>6, <4>1
        <5> QED BY <2>6, <4>1, <5>1
      <4>3. ASSUME NEW m \in 1 .. b, NEW n \in 1 .. b, m \in S, m < n PROVE n \in S
        <5>1. m \in 1 .. a /\ m \in R /\ (n \in 1 .. a \/ n = a + 1)
          BY <2>6, <4>1, <4>3
        <5> QED BY <2>6, <4>1, <4>3, <5>1
      <4> QED BY <4>2, <4>3
    <3>2. CASE q = p /\ f = Unlinked
      BY <2>4, <2>6, <3>2
    <3>3. CASE q # p
      BY <2>4, <2>5, <2>6, <3>3
    <3> QED BY <3>1, <3>2, <3>3
  <2>8. ASSUME f \in Index, R = 1 .. a PROVE S = 1 .. b
    <3>1. q = p => (1 .. b) = (1 .. a) \cup {a + 1}
      BY <2>5, <2>6
    <3>2. CASE q = p
      BY <2>4, <2>8, <3>1, <3>2
    <3>3. CASE q # p
      BY <2>4, <2>5, <2>8, <3>3
    <3> QED BY <3>2, <3>3
  <2> QED BY <2>7, <2>8 DEF R, S, a, b
<1> QED BY <1>6, <1>7 DEF Newest

\* A file takes the next number, which is free, or, the oldest, none: what is left of the
\* records of each process is still the newest, and all of them if no file is removed.
LEMMA MoveNewest ==
    ASSUME LogInv, NEW a \in Index, NEW b \in Index \cup {Unlinked},
           b = Unlinked => a = RetainedFiles,
           b \in Index => b = a + 1 /\ content[b] = <<>>,
           \A i \in Index : content'[i] = IF i = a THEN <<>> ELSE IF i = b THEN content[a]
                                          ELSE content[i],
           UNCHANGED acknowledged,
           NEW q \in Processes, Newest(q)
    PROVE  /\ Newest(q)'
           /\ \A i \in Index : Positions(q, i)' = IF i = a THEN {}
                                                  ELSE IF i = b THEN Positions(q, a)
                                                  ELSE Positions(q, i)
           /\ b \in Index \/ Positions(q, a) = {} => Readable(q)' = Readable(q)
<1> DEFINE From(i) == IF i = b THEN a ELSE i
<1>1. a \in Int /\ RetainedFiles \in Int /\ Index = 0 .. RetainedFiles /\ Unlinked \notin Index
  BY LogAssumption, LogConstants DEF Index
<1>2. \A i \in Index : Positions(q, i)' = IF i = a THEN {}
                                          ELSE IF i = b THEN Positions(q, a)
                                          ELSE Positions(q, i)
  BY DEF Positions
<1>3. b \in Index => Positions(q, b) = {}
  BY DEF Positions
<1>4. ASSUME NEW i \in Index, NEW k \in Positions(q, i)'
      PROVE  /\ i # a /\ From(i) \in Index /\ k \in Positions(q, From(i))
             /\ content'[i][k] = content[From(i)][k]
  BY <1>2
<1>5. ASSUME NEW n \in Readable(q)' PROVE n \in Readable(q)
  BY <1>4, ReadableIs
<1>6. ASSUME NEW n \in Readable(q)
      PROVE  n \in Readable(q)' \/ (b = Unlinked /\ \E k \in Positions(q, a) :
                                                       n = content[a][k].number)
  <2>1. PICK i \in Index : \E k \in Positions(q, i) : n = content[i][k].number
    BY ReadableIs
  <2>2. PICK k \in Positions(q, i) : n = content[i][k].number
    BY <2>1
  <2>3. CASE i # a
    <3>1. i # b
      BY <1>3, <2>2
    <3>2. k \in Positions(q, i)' /\ n = content'[i][k].number
      BY <1>2, <2>2, <2>3, <3>1
    <3> QED BY <3>2, ReadableIs
  <2>4. CASE i = a /\ b \in Index
    <3>1. b # a
      BY <1>1, <2>4
    <3>2. k \in Positions(q, b)' /\ n = content'[b][k].number
      BY <1>2, <2>2, <2>4, <3>1
    <3> QED BY <2>4, <3>2, ReadableIs
  <2> QED BY <2>2, <2>3, <2>4
<1>7. InOrder(q)'
  <2> SUFFICES ASSUME NEW i \in Index, NEW j \in Index,
                      NEW k \in Positions(q, i)', NEW l \in Positions(q, j)',
                      i > j \/ (i = j /\ k < l)
               PROVE  content'[i][k].number < content'[j][l].number
    BY DEF InOrder
  <2>1. /\ i # a /\ From(i) \in Index /\ k \in Positions(q, From(i))
        /\ content'[i][k] = content[From(i)][k]
    BY <1>4
  <2>2. /\ j # a /\ From(j) \in Index /\ l \in Positions(q, From(j))
        /\ content'[j][l] = content[From(j)][l]
    BY <1>4
  <2>3. From(i) > From(j) \/ (From(i) = From(j) /\ k < l)
    <3>1. i \in Int /\ j \in Int
      BY <1>1
    <3> QED BY <1>1, <2>1, <2>2, <3>1
  <2> HIDE DEF From
  <2> QED BY <2>1, <2>2, <2>3 DEF Newest, InOrder
<1>8. ASSUME NEW m \in 1 .. acknowledged'[q], NEW n \in 1 .. acknowledged'[q],
             m \in Readable(q)', m < n
      PROVE  n \in Readable(q)'
  <2>1. n \in Readable(q)
    BY <1>5, <1>8 DEF Newest
  <2> SUFFICES ASSUME b = Unlinked,
                      NEW k \in Positions(q, a), n = content[a][k].number
               PROVE  FALSE
    BY <1>6, <2>1
  <2>2. PICK i \in Index : \E l \in Positions(q, i)' : m = content'[i][l].number
    BY <1>8, ReadableIs
  <2>3. PICK l \in Positions(q, i)' : m = content'[i][l].number
    BY <2>2
  <2>4. i # a /\ From(i) = i /\ l \in Positions(q, i) /\ m = content[i][l].number
    BY <1>1, <1>4, <2>3
  <2>5. a > i
    BY <1>1, <2>4
  <2>6. content[a][k].number < content[i][l].number
    BY <2>4, <2>5 DEF Newest, InOrder
  <2>7. n < m
    BY <2>4, <2>6
  <2> QED BY <1>8, <2>7
<1>9. Newest(q)'
  <2>1. Readable(q)' \subseteq 1 .. acknowledged'[q]
    BY <1>5 DEF Newest
  <2> QED BY <1>7, <1>8, <2>1 DEF Newest
<1>10. ASSUME b \in Index \/ Positions(q, a) = {} PROVE Readable(q)' = Readable(q)
  <2>1. \A n : n \in Readable(q)' <=> n \in Readable(q)
    BY <1>1, <1>5, <1>6, <1>10
  <2> QED BY <2>1
<1> QED BY <1>2, <1>9, <1>10

\* The fields of the logger that tell where its records are and where its rotation stands.
LEMMA HandleMoves ==
    ASSUME LogInv, NEW p \in Processes
    PROVE  /\ OpenLog(p) => logger'[p].file = 0 /\ logger'[p].step = Idle
           /\ WriteRecord(p) => logger'[p].file = logger[p].file /\ logger'[p].step = Idle
           /\ BeginRotation(p) => logger'[p].file = logger[p].file /\ logger'[p].step = FirstStep
           /\ RotationFails(p) => logger'[p].file = logger[p].file /\ logger'[p].step = Idle
           /\ OpenNext(p) => logger'[p].file = 0 /\ logger'[p].step = Idle
           /\ CloseLog(p) => logger'[p].file = NoFile /\ logger'[p].step = Idle
           /\ (\/ OpenLog(p) \/ WriteRecord(p) \/ BeginRotation(p) \/ RotationFails(p)
               \/ OpenNext(p) \/ CloseLog(p)) =>
                 \A q \in Processes \ {p} : logger'[q] = logger[q]
<1>1. logger \in [Processes -> LoggerRecord]
  BY LogTypes
<1>2. OpenLog(p) => logger'[p].file = 0 /\ logger'[p].step = Idle
  BY <1>1 DEF OpenLog, LoggerRecord, Closed
<1>3. WriteRecord(p) => logger'[p].file = logger[p].file /\ logger'[p].step = Idle
  BY <1>1 DEF WriteRecord, AppendTo, Closed
<1>4. BeginRotation(p) => logger'[p].file = logger[p].file /\ logger'[p].step = FirstStep
  BY <1>1 DEF BeginRotation, LoggerRecord
<1>5. RotationFails(p) => logger'[p].file = logger[p].file /\ logger'[p].step = Idle
  BY <1>1 DEF RotationFails, LoggerRecord
<1>6. OpenNext(p) => logger'[p].file = 0 /\ logger'[p].step = Idle
  BY <1>1 DEF OpenNext, AppendTo, Closed
<1>7. CloseLog(p) => logger'[p].file = NoFile /\ logger'[p].step = Idle
  <2>1. CloseLog(p) => logger'[p] = Closed
    BY <1>1 DEF CloseLog
  <2> QED BY <2>1 DEF Closed
<1>8. (\/ OpenLog(p) \/ WriteRecord(p) \/ BeginRotation(p) \/ RotationFails(p)
       \/ OpenNext(p) \/ CloseLog(p)) =>
         \A q \in Processes \ {p} : logger'[q] = logger[q]
  BY <1>1 DEF OpenLog, WriteRecord, BeginRotation, RotationFails, OpenNext, CloseLog, AppendTo
<1> QED BY <1>2, <1>3, <1>4, <1>5, <1>6, <1>7, <1>8

\* A step of one process that leaves the records alone.
LEMMA KeptStays ==
    ASSUME KeptInv, LogInv', NEW p \in Processes, UNCHANGED <<content, acknowledged>>,
           \A q \in Processes \ {p} : logger'[q] = logger[q],
           disturbed \subseteq disturbed', present \subseteq present',
           present' \subseteq present \cup {0},
           "overlap" \notin disturbed' =>
               /\ logger'[p].step # Idle => \A q \in Processes : Rotating(q) => q = p
               /\ logger'[p].step \in 1 .. RetainedFiles => logger'[p].step \notin present
               /\ NothingBeyond(p, logger'[p].file),
           disturbed' = {} =>
               /\ NoHoles'
               /\ (\A i \in Index : Covered(i)) => \A i \in Index : Covered(i)'
               /\ logger'[p].file # Unlinked \/ logger'[p].file = logger[p].file
    PROVE  KeptInv'
<1>1. \A q \in Processes, i \in Index : Positions(q, i)' = Positions(q, i)
  BY DEF Positions
<1>2. \A q \in Processes : Readable(q)' = Readable(q) /\ (InOrder(q) => InOrder(q)')
  BY <1>1 DEF Readable, InOrder
<1>3. ASSUME "overlap" \notin disturbed' PROVE OrderInv'
  <2>1. OrderInv
    BY <1>3 DEF KeptInv
  <2>2. OneRotates'
    BY <1>3, <2>1 DEF OrderInv, OneRotates, Rotating
  <2>3. StepIsFree'
    BY <1>3, <2>1 DEF OrderInv, StepIsFree
  <2>4. ASSUME NEW q \in Processes
        PROVE  NothingBeyond(q, logger[q].file)' /\ Newest(q)'
    <3>1. NothingBeyond(q, logger'[q].file)
      BY <1>3, <2>1 DEF OrderInv
    <3> QED BY <1>1, <1>2, <2>1, <3>1 DEF OrderInv, NothingBeyond, Newest
  <2> QED BY <2>2, <2>3, <2>4 DEF OrderInv
<1>4. ASSUME disturbed' = {} PROVE NoHoles' /\ LostWhenFull'
  <2>1. LostWhenFull
    BY <1>4 DEF KeptInv
  <2>2. \A q \in Processes : HasLost(q)' => HasLost(q)
    BY <1>2, <1>4 DEF HasLost
  <2> QED BY <1>4, <2>1, <2>2 DEF LostWhenFull
<1> QED BY <1>3, <1>4 DEF KeptInv

LEMMA CoveredStays ==
    ASSUME LogInv, NEW p \in Processes,
           \A q \in Processes \ {p} : logger'[q] = logger[q],
           present \subseteq present', present' \subseteq present \cup {0},
           logger[p].step \in Index => logger[p].step \in present',
           NoHoles
    PROVE  NoHoles' /\ \A i \in Index : Covered(i) => Covered(i)'
<1>1. ASSUME NEW i \in Index, Covered(i) PROVE Covered(i)'
  BY <1>1 DEF Covered
<1>2. ASSUME NEW i \in present', NEW j \in Index, j < i PROVE Covered(j)'
  <2>1. i \in present
    <3>1. j >= 0
      BY DEF Index
    <3> QED BY <1>2, <3>1 DEF Index
  <2> QED BY <1>1, <1>2, <2>1 DEF NoHoles
<1> QED BY <1>1, <1>2 DEF NoHoles

LEMMA KeptOpenLog ==
    ASSUME KeptInv, NEW p \in Processes, OpenLog(p)
    PROVE  KeptInv'
<1>1. LogInv /\ LogInv'
  BY OpenLogStep DEF KeptInv
<1>2. /\ logger'[p].file = 0 /\ logger'[p].step = Idle
      /\ \A q \in Processes \ {p} : logger'[q] = logger[q]
  BY <1>1, HandleMoves
<1>3. /\ UNCHANGED <<content, acknowledged, disturbed>> /\ present' = present \cup {0}
      /\ logger[p].step \notin Index
  BY DEF OpenLog, Closed, Idle, Index
<1>4. Idle \notin 1 .. RetainedFiles /\ 0 # Unlinked
  BY DEF Idle, Unlinked
<1>5. NothingBeyond(p, logger'[p].file)
  BY <1>2, <1>4 DEF NothingBeyond, Index
<1>6. NoHoles => NoHoles' /\ \A i \in Index : Covered(i) => Covered(i)'
  BY <1>1, <1>2, <1>3, CoveredStays
<1>7. disturbed' = {} => NoHoles
  BY <1>3 DEF KeptInv
<1> QED BY <1>1, <1>2, <1>3, <1>4, <1>5, <1>6, <1>7, KeptStays

LEMMA KeptCloseLog ==
    ASSUME KeptInv, NEW p \in Processes, CloseLog(p)
    PROVE  KeptInv'
<1>1. LogInv /\ LogInv'
  BY CloseLogStep DEF KeptInv
<1>2. /\ logger'[p].file = NoFile /\ logger'[p].step = Idle
      /\ \A q \in Processes \ {p} : logger'[q] = logger[q]
  BY <1>1, HandleMoves
<1>3. UNCHANGED <<content, acknowledged, present>> /\ disturbed \subseteq disturbed'
  BY DEF CloseLog
<1>4. Idle \notin 1 .. RetainedFiles /\ NoFile # Unlinked /\ Idle \notin Index
      /\ \A i \in Index : ~(i < NoFile)
  BY LogAssumption DEF Idle, Unlinked, NoFile, Index
<1>5. NothingBeyond(p, logger'[p].file)
  BY <1>2, <1>4 DEF NothingBeyond
<1>6. disturbed' = {} => NoHoles' /\ \A i \in Index : Covered(i) => Covered(i)'
  <2> SUFFICES ASSUME disturbed' = {}
               PROVE  NoHoles' /\ \A i \in Index : Covered(i) => Covered(i)'
    OBVIOUS
  <2>1. ~Rotating(p) /\ disturbed = {}
    BY DEF CloseLog
  <2>2. NoHoles /\ logger[p].step \notin Index
    BY <1>4, <2>1 DEF KeptInv, Rotating
  <2> QED BY <1>1, <1>2, <1>3, <2>2, CoveredStays
<1> QED BY <1>1, <1>2, <1>3, <1>4, <1>5, <1>6, KeptStays

LEMMA KeptBeginRotation ==
    ASSUME KeptInv, NEW p \in Processes, BeginRotation(p)
    PROVE  KeptInv'
<1>1. LogInv /\ LogInv'
  BY BeginRotationStep DEF KeptInv
<1>2. /\ logger'[p].file = logger[p].file /\ logger'[p].step = FirstStep
      /\ \A q \in Processes \ {p} : logger'[q] = logger[q]
  BY <1>1, HandleMoves
<1>3. /\ UNCHANGED <<content, acknowledged, present>> /\ disturbed \subseteq disturbed'
      /\ "overlap" \notin disturbed' => \A q \in Processes : ~Rotating(q)
      /\ ~Rotating(p)
  BY DEF BeginRotation, MayWrite
<1>4. FirstStep \notin 1 .. RetainedFiles /\ Idle \notin Index
  BY LogAssumption DEF FirstStep, Idle, Index
<1>5. "overlap" \notin disturbed' => NothingBeyond(p, logger'[p].file)
  BY <1>2, <1>3 DEF KeptInv, OrderInv
<1>6. disturbed' = {} => NoHoles' /\ \A i \in Index : Covered(i) => Covered(i)'
  <2>1. disturbed' = {} => NoHoles
    BY <1>3 DEF KeptInv
  <2>2. logger[p].step \notin Index
    BY <1>3, <1>4 DEF Rotating
  <2> QED BY <1>1, <1>2, <1>3, <2>1, <2>2, CoveredStays
<1> QED BY <1>1, <1>2, <1>3, <1>4, <1>5, <1>6, KeptStays

LEMMA KeptRotationFails ==
    ASSUME KeptInv, NEW p \in Processes, RotationFails(p)
    PROVE  KeptInv'
<1>1. LogInv /\ LogInv'
  BY RotationFailsStep DEF KeptInv
<1>2. /\ logger'[p].file = logger[p].file /\ logger'[p].step = Idle
      /\ \A q \in Processes \ {p} : logger'[q] = logger[q]
  BY <1>1, HandleMoves
<1>3. /\ UNCHANGED <<content, acknowledged, present>> /\ disturbed \subseteq disturbed'
      /\ disturbed' # {}
  BY DEF RotationFails
<1>4. Idle \notin 1 .. RetainedFiles
  BY DEF Idle
<1>5. "overlap" \notin disturbed' => NothingBeyond(p, logger'[p].file)
  BY <1>2, <1>3 DEF KeptInv, OrderInv
<1> QED BY <1>1, <1>2, <1>3, <1>4, <1>5, KeptStays

\* A record is appended to a file beyond which the process has none, or to one that is gone.
LEMMA KeptAppend ==
    ASSUME KeptInv, LogInv', NEW p \in Processes, NEW f \in Index \cup {Unlinked},
           NEW size \in Sizes, NEW written \in Nat, AppendTo(p, f, size, written),
           logger'[p].file = f, logger'[p].step = Idle,
           \A q \in Processes \ {p} : logger'[q] = logger[q],
           present \subseteq present', present' \subseteq present \cup {0},
           logger[p].step \in Index => logger[p].step \in present',
           "overlap" \notin disturbed => NothingBeyond(p, f),
           f = Unlinked => logger[p].file = Unlinked
    PROVE  KeptInv'
<1>1. LogInv /\ disturbed' = disturbed
  BY DEF KeptInv, AppendTo
<1>2. Idle \notin 1 .. RetainedFiles /\ Unlinked \notin Index
  BY LogConstants DEF Idle
<1>3. \A q \in Processes, i \in Index :
         i # f \/ q # p => Positions(q, i)' = Positions(q, i)
  BY <1>1, AppendPlaces
<1>4. ASSUME "overlap" \notin disturbed PROVE OrderInv'
  <2>1. OrderInv
    BY <1>4 DEF KeptInv
  <2>2. OneRotates' /\ StepIsFree'
    BY <1>2, <2>1 DEF OrderInv, OneRotates, StepIsFree, Rotating
  <2>3. \A q \in Processes : Newest(q)'
    <3>1. NothingBeyond(p, f) /\ \A q \in Processes : Newest(q)
      BY <1>4, <2>1 DEF OrderInv
    <3> QED BY <1>1, <3>1, AppendNewest
  <2>4. ASSUME NEW q \in Processes PROVE NothingBeyond(q, logger[q].file)'
    <3>1. NothingBeyond(q, logger'[q].file)
      BY <1>4, <2>1 DEF OrderInv
    <3>2. q = p => \A i \in Index : logger'[q].file = Unlinked \/ i < logger'[q].file => i # f
      BY <1>2 DEF Index
    <3> QED BY <1>3, <3>1, <3>2 DEF NothingBeyond
  <2> QED BY <2>2, <2>3, <2>4 DEF OrderInv
<1>5. ASSUME disturbed = {} PROVE NoHoles' /\ LostWhenFull'
  <2>1. NoHoles /\ LostWhenFull /\ OrderInv
    BY <1>5 DEF KeptInv
  <2>2. NoHoles' /\ \A i \in Index : Covered(i) => Covered(i)'
    BY <1>1, <2>1, CoveredStays
  <2>3. ASSUME NEW q \in Processes, HasLost(q)' PROVE \E r \in Processes : HasLost(r)
    <3>1. \A r \in Processes : f \in Index /\ Readable(r) = 1 .. acknowledged[r] =>
                                  Readable(r)' = 1 .. acknowledged'[r]
      <4>1. NothingBeyond(p, f) /\ \A r \in Processes : Newest(r)
        BY <1>5, <2>1 DEF OrderInv
      <4> QED BY <1>1, <4>1, AppendNewest
    <3>2. CASE f = Unlinked
      BY <3>2 DEF HasLost
    <3>3. CASE f \in Index
      BY <1>2, <2>3, <3>1, <3>3 DEF HasLost
    <3> QED BY <3>2, <3>3
  <2> QED BY <2>1, <2>2, <2>3 DEF LostWhenFull
<1> QED BY <1>1, <1>4, <1>5 DEF KeptInv

LEMMA KeptWriteRecord ==
    ASSUME KeptInv, NEW p \in Processes, WriteRecord(p)
    PROVE  KeptInv'
<1> DEFINE f == logger[p].file
<1>1. PICK size \in Sizes : AppendTo(p, f, size, logger[p].written)
  BY DEF WriteRecord
<1>2. LogInv /\ LogInv'
  BY WriteRecordStep DEF KeptInv
<1>3. /\ logger'[p].file = f /\ logger'[p].step = Idle
      /\ \A q \in Processes \ {p} : logger'[q] = logger[q]
  BY <1>2, HandleMoves
<1>4. f \in Index \cup {Unlinked} /\ logger[p].written \in Nat
  BY <1>2, LoggerTypes DEF WriteRecord, MayWrite
<1>5. present' = present /\ logger[p].step \notin Index
  BY DEF WriteRecord, MayWrite, Rotating, Idle, Index
<1>6. "overlap" \notin disturbed => NothingBeyond(p, f)
  BY DEF KeptInv, OrderInv
<1> QED BY <1>1, <1>2, <1>3, <1>4, <1>5, <1>6, KeptAppend

LEMMA KeptOpenNext ==
    ASSUME KeptInv, NEW p \in Processes, OpenNext(p)
    PROVE  KeptInv'
<1>1. LogInv /\ LogInv'
  BY OpenNextStep DEF KeptInv
<1>2. /\ logger'[p].file = 0 /\ logger'[p].step = Idle
      /\ \A q \in Processes \ {p} : logger'[q] = logger[q]
  BY <1>1, HandleMoves
<1>3. present' = present \cup {0} /\ logger[p].step = 0
  BY DEF OpenNext
<1>4. NothingBeyond(p, 0) /\ 0 # Unlinked /\ Idle \notin 1 .. RetainedFiles /\ 0 \in Index
  BY LogConstants DEF NothingBeyond, Unlinked, Index, Idle
<1>5. CASE AppendTo(p, 0, logger[p].record, 0)
  <2> DEFINE size == logger[p].record
  <2>1. size \in Sizes
    BY <1>1, <1>3, LoggerTypes DEF Idle
  <2>2. AppendTo(p, 0, size, 0)
    BY <1>5
  <2> HIDE DEF size
  <2> QED BY <1>1, <1>2, <1>3, <1>4, <2>1, <2>2, KeptAppend
<1>6. CASE UNCHANGED <<content, acknowledged, disturbed>>
  <2>1. NoHoles => NoHoles' /\ \A i \in Index : Covered(i) => Covered(i)'
    BY <1>1, <1>2, <1>3, CoveredStays
  <2>2. disturbed' = {} => NoHoles
    BY <1>6 DEF KeptInv
  <2> QED BY <1>1, <1>2, <1>3, <1>4, <1>6, <2>1, <2>2, KeptStays
<1> QED BY <1>5, <1>6 DEF OpenNext

\* A file that takes the next number, which is free, or, the oldest, none.
LEMMA KeptMove ==
    ASSUME KeptInv, LogInv', NEW p \in Processes, logger[p].step \in 1 .. FirstStep,
           NEW a \in Index, NEW b \in Index \cup {Unlinked},
           b = Unlinked => a = RetainedFiles /\ logger[p].step = FirstStep,
           b \in Index => b = a + 1 /\ a \in present /\ logger[p].step = b,
           a = logger[p].step - 1, logger' = Handles(p, a, b),
           UNCHANGED <<acknowledged, disturbed>>,
           present' = (present \ {a}) \cup ({b} \ {Unlinked}),
           \A i \in Index : content'[i] = IF i = a THEN <<>> ELSE IF i = b THEN content[a]
                                          ELSE content[i]
    PROVE  KeptInv'
<1>1. LogInv /\ Unlinked \notin Index /\ Idle \notin Index /\ a # Idle /\ Rotating(p)
  BY LogConstants DEF KeptInv, Idle, Rotating
<1>2. \A q \in Processes :
         /\ logger'[q].file = NextHandle(logger[q].file, a, b)
         /\ logger'[q].step = IF q = p THEN a ELSE logger[q].step
  <2>1. a # b
    BY <1>1 DEF Index
  <2> QED BY <1>1, <2>1, HandlesMove
<1>3. ASSUME "overlap" \notin disturbed
      PROVE  /\ OrderInv
             /\ b \in Index => b \notin present /\ content[b] = <<>>
             /\ \A q \in Processes : Rotating(q) => q = p
  <2>1. OrderInv
    BY <1>3 DEF KeptInv
  <2>2. \A q \in Processes : Rotating(q) => q = p
    BY <1>1, <2>1 DEF OrderInv, OneRotates
  <2>3. b \in Index => b \notin present
    <3>1. b \in Index => b \in 1 .. RetainedFiles
      BY <1>1 DEF Index, FirstStep
    <3> QED BY <2>1, <3>1 DEF OrderInv, StepIsFree
  <2> QED BY <1>1, <2>1, <2>2, <2>3, FileTypes
<1>4. ASSUME "overlap" \notin disturbed, NEW q \in Processes
      PROVE  /\ Newest(q)'
             /\ \A i \in Index : Positions(q, i)' = IF i = a THEN {}
                                                    ELSE IF i = b THEN Positions(q, a)
                                                    ELSE Positions(q, i)
             /\ b \in Index \/ Positions(q, a) = {} => Readable(q)' = Readable(q)
  <2>1. Newest(q) /\ (b \in Index => content[b] = <<>>)
    BY <1>3, <1>4 DEF OrderInv
  <2> QED BY <1>1, <2>1, MoveNewest
<1>5. ASSUME "overlap" \notin disturbed PROVE OrderInv'
  <2>1. \A q \in Processes : Rotating(q)' => q = p
    BY <1>2, <1>3, <1>5 DEF Rotating
  <2>2. OneRotates'
    BY <2>1 DEF OneRotates
  <2>3. StepIsFree'
    <3>1. a \notin present'
      BY <1>1 DEF Index
    <3>2. \A q \in Processes : logger'[q].step \in 1 .. RetainedFiles => q = p
      BY <2>1 DEF Rotating, Idle
    <3> QED BY <1>2, <3>1, <3>2 DEF StepIsFree
  <2>4. ASSUME NEW q \in Processes PROVE NothingBeyond(q, logger[q].file)'
    <3> DEFINE f == logger[q].file
               g == logger'[q].file
    <3>1. NothingBeyond(q, f) /\ f \in present \cup {Unlinked, NoFile} /\ g = NextHandle(f, a, b)
      BY <1>1, <1>2, <1>3, <1>5, LoggerTypes DEF OrderInv
    <3>2. \A i \in Index : Positions(q, i)' = IF i = a THEN {}
                                              ELSE IF i = b THEN Positions(q, a)
                                              ELSE Positions(q, i)
      BY <1>4, <1>5
    <3>3. f \in Index \/ f = Unlinked \/ f = NoFile
      BY <1>1, LogTypes, <3>1
    <3>4. f # b \/ f = Unlinked
      BY <1>3, <1>5, <3>1, LogConstants
    <3> SUFFICES ASSUME NEW i \in Index, g = Unlinked \/ i < g
                 PROVE  Positions(q, i)' = {}
      BY DEF NothingBeyond
    <3>5. CASE f = a
      <4>1. g = b
        BY <3>1, <3>5 DEF NextHandle
      <4>2. CASE b = Unlinked
        <5>1. i = a \/ i < f
          BY <3>5, <4>2 DEF Index
        <5> QED BY <1>1, <3>1, <3>2, <4>2, <5>1 DEF NothingBeyond
      <4>3. CASE b \in Index
        <5>1. i = a \/ (i < f /\ i # b)
          BY <1>1, <3>5, <4>1, <4>3 DEF Index
        <5> QED BY <3>1, <3>2, <5>1 DEF NothingBeyond
      <4> QED BY <4>2, <4>3
    <3>6. CASE f # a
      <4>1. g = f
        BY <3>1, <3>4, <3>6 DEF NextHandle
      <4>2. CASE f = Unlinked
        BY <3>1, <3>2, <4>2 DEF NothingBeyond
      <4>3. CASE f # Unlinked
        <5>1. i < f /\ f \in Int /\ i \in Int /\ a \in Int
          BY <3>3, <4>1, <4>3 DEF Index, NoFile
        <5>2. i = b => a < f
          BY <1>1, <5>1
        <5> QED BY <3>1, <3>2, <5>1, <5>2 DEF NothingBeyond
      <4> QED BY <4>2, <4>3
    <3> QED BY <3>5, <3>6
  <2> QED BY <1>4, <1>5, <2>2, <2>3, <2>4 DEF OrderInv
<1>6. ASSUME disturbed = {} PROVE NoHoles' /\ LostWhenFull'
  <2>1. NoHoles /\ LostWhenFull /\ OrderInv /\ "overlap" \notin disturbed
    BY <1>6 DEF KeptInv
  <2>2. /\ \A i : Covered(i) => i \in present \/ i = logger[p].step \/ i \notin Index
        /\ \A i : i \in present' \/ i = a => Covered(i)'
    <3>1. ASSUME NEW q \in Processes, q # p PROVE logger[q].step \notin Index
      BY <1>1, <1>3, <2>1, <3>1 DEF Rotating
    <3> QED BY <1>2, <3>1 DEF Covered
  <2>3. NoHoles'
    <3> SUFFICES ASSUME NEW i \in present', NEW j \in Index, j < i PROVE Covered(j)'
      BY DEF NoHoles
    <3>1. i \in Index
      BY <1>1, LogTypes
    <3>2. CASE i \in present
      <4>1. j \in present \/ j = logger[p].step
        BY <2>1, <2>2, <3>2 DEF NoHoles
      <4>2. j \in present' \/ j = a
        <5>1. j = logger[p].step => j = b
          BY LogConstants DEF Index
        <5> QED BY <1>1, <4>1, <5>1
      <4> QED BY <2>2, <4>2
    <3>3. CASE i = b /\ b \in Index
      <4>1. j = a \/ j < a
        BY <3>3 DEF Index
      <4>2. j < a => j \in present \/ j = b
        BY <2>1, <2>2, <3>3 DEF NoHoles
      <4> QED BY <1>1, <2>2, <4>1, <4>2
    <3> QED BY <3>1, <3>2, <3>3
  <2>4. ASSUME NEW q \in Processes, HasLost(q)' PROVE \A i \in Index : Covered(i)'
    <3>1. CASE \E r \in Processes : HasLost(r)
      <4>1. \A i \in Index : i \in present \/ i = logger[p].step
        BY <2>1, <2>2, <3>1 DEF LostWhenFull
      <4>2. \A i \in Index : i \in present' \/ i = a
        <5>1. \A i \in Index : i = logger[p].step => i = b
          BY LogConstants DEF Index
        <5> QED BY <1>1, <4>1, <5>1
      <4> QED BY <2>2, <4>2
    <3>2. CASE ~ \E r \in Processes : HasLost(r)
      <4>1. b \notin Index /\ a \in present
        <5>1. Readable(q) = 1 .. acknowledged[q] /\ logger[q].file # Unlinked
          BY <3>2 DEF HasLost
        <5>2. CASE logger'[q].file = Unlinked
          <6>1. logger[q].file = a \/ logger[q].file = b
            BY <1>2, <5>1, <5>2 DEF NextHandle
          <6>2. logger[q].file \in present
            BY <1>1, <5>1, <6>1, LoggerTypes, LogConstants
          <6>3. logger[q].file = a
            BY <1>3, <2>1, <5>1, <6>1, <6>2
          <6>4. b = Unlinked
            BY <1>2, <5>2, <6>3 DEF NextHandle
          <6> QED BY <1>1, <6>2, <6>3, <6>4
        <5>3. CASE Readable(q)' # 1 .. acknowledged'[q]
          <6>1. b \notin Index /\ Positions(q, a) # {}
            BY <1>4, <2>1, <5>1, <5>3
          <6>2. content[a] # <<>>
            BY <6>1 DEF Positions
          <6> QED BY <1>1, <6>1, <6>2, FileTypes
        <5> QED BY <2>4, <5>2, <5>3 DEF HasLost
      <4>2. ASSUME NEW i \in Index PROVE i \in present' \/ i = a
        <5>1. b = Unlinked /\ a = RetainedFiles /\ logger[p].step \notin Index
          BY <4>1, LogAssumption DEF FirstStep, Index
        <5>2. i = a \/ i < a
          BY <5>1, LogAssumption DEF Index
        <5>3. i < a => i \in present
          BY <2>1, <2>2, <4>1, <5>1 DEF NoHoles
        <5> QED BY <5>2, <5>3
      <4> QED BY <2>2, <4>2
    <3> QED BY <3>1, <3>2
  <2> QED BY <2>3, <2>4 DEF LostWhenFull
<1> QED BY <1>5, <1>6 DEF KeptInv

LEMMA KeptRemoveOldest ==
    ASSUME KeptInv, NEW p \in Processes, RemoveOldest(p)
    PROVE  KeptInv'
<1>1. LogInv /\ LogInv'
  BY RemoveOldestStep DEF KeptInv
<1>2. /\ logger[p].step = FirstStep /\ FirstStep \in 1 .. FirstStep
      /\ RetainedFiles \in Index /\ RetainedFiles = logger[p].step - 1 /\ Unlinked \notin Index
  BY LogConstants, LogAssumption DEF RemoveOldest
<1>3. /\ logger' = Handles(p, RetainedFiles, Unlinked)
      /\ UNCHANGED <<acknowledged, disturbed>>
      /\ present' = (present \ {RetainedFiles}) \cup ({Unlinked} \ {Unlinked})
  BY DEF RemoveOldest
<1>4. \A i \in Index : content'[i] = IF i = RetainedFiles THEN <<>>
                                     ELSE IF i = Unlinked THEN content[RetainedFiles]
                                     ELSE content[i]
  <2>1. content' = [content EXCEPT ![RetainedFiles] = <<>>] /\ DOMAIN content = Index
    BY <1>1, LogTypes DEF RemoveOldest
  <2> SUFFICES ASSUME NEW i \in Index
               PROVE  content'[i] = IF i = RetainedFiles THEN <<>> ELSE content[i]
    BY <1>2
  <2>2. CASE i = RetainedFiles
    BY <2>1, <2>2
  <2>3. CASE i # RetainedFiles
    BY <2>1, <2>3
  <2> QED BY <2>2, <2>3
<1>5. /\ logger[p].step \in 1 .. FirstStep /\ RetainedFiles = logger[p].step - 1
      /\ Unlinked \in Index \cup {Unlinked}
      /\ Unlinked = Unlinked => RetainedFiles = RetainedFiles /\ logger[p].step = FirstStep
      /\ Unlinked \in Index =>
            Unlinked = RetainedFiles + 1 /\ RetainedFiles \in present
               /\ logger[p].step = Unlinked
  BY <1>2
<1> QED BY <1>1, <1>2, <1>3, <1>4, <1>5, KeptMove, Zenon

LEMMA KeptRenameNext ==
    ASSUME KeptInv, NEW p \in Processes, RenameNext(p)
    PROVE  KeptInv'
<1> DEFINE s == logger[p].step
           a == s - 1
<1>1. LogInv /\ LogInv'
  BY RenameNextStep DEF KeptInv
<1>2. /\ s \in 1 .. RetainedFiles /\ s \in 1 .. FirstStep /\ s \in Index /\ a \in Index
      /\ s = a + 1 /\ a # s /\ Rename(p, a, s) /\ Unlinked \notin Index
  BY LogConstants, LogAssumption DEF RenameNext, Index
<1>3. CASE a \in present
  <2>1. /\ present' = (present \ {a}) \cup ({s} \ {Unlinked})
        /\ logger' = Handles(p, a, s)
        /\ UNCHANGED <<acknowledged, disturbed>>
    BY <1>2, <1>3 DEF Rename
  <2>2. \A i \in Index : content'[i] = IF i = a THEN <<>> ELSE IF i = s THEN content[a]
                                       ELSE content[i]
    <3>1. content' = [content EXCEPT ![s] = content[a], ![a] = <<>>]
      BY <1>2, <1>3 DEF Rename
    <3> QED BY <1>1, <1>2, <3>1, LogTypes
  <2> QED BY <1>1, <1>2, <1>3, <2>1, <2>2, KeptMove
<1>4. CASE a \notin present
  <2>1. /\ UNCHANGED <<present, content, acknowledged, disturbed>>
        /\ logger' = [logger EXCEPT ![p].step = a]
    BY <1>2, <1>4 DEF Rename
  <2>2. /\ logger'[p].file = logger[p].file /\ logger'[p].step = a
        /\ \A q \in Processes \ {p} : logger'[q] = logger[q]
    <3>1. logger \in [Processes -> LoggerRecord]
      BY <1>1, LogTypes
    <3> HIDE DEF a
    <3> QED BY <2>1, <3>1 DEF LoggerRecord
  <2>3. ASSUME "overlap" \notin disturbed
        PROVE  \A q \in Processes : Rotating(q) => q = p
    <3>1. Rotating(p)
      BY <1>2 DEF Rotating, Idle
    <3> QED BY <2>3, <3>1 DEF KeptInv, OrderInv, OneRotates
  <2>4. "overlap" \notin disturbed => NothingBeyond(p, logger'[p].file)
    BY <2>2 DEF KeptInv, OrderInv
  <2>5. ASSUME disturbed = {} PROVE ~Covered(a)
    <3>1. \A q \in Processes : logger[q].step = a => q = p
      BY <1>2, <2>3, <2>5 DEF Rotating, Idle, Index
    <3> QED BY <1>2, <1>4, <3>1 DEF Covered
  <2>6. ASSUME disturbed = {} PROVE NoHoles'
    <3>1. NoHoles
      BY <2>6 DEF KeptInv
    <3> SUFFICES ASSUME NEW i \in present, NEW j \in Index, j < i PROVE Covered(j)'
      BY <2>1 DEF NoHoles
    <3>2. i \in Index /\ Covered(j)
      BY <1>1, <3>1, LogTypes DEF NoHoles
    <3>3. j # s
      <4>1. ASSUME j = s PROVE FALSE
        <5>1. a < i
          BY <1>2, <3>2, <4>1 DEF Index
        <5>2. Covered(a)
          BY <1>2, <3>1, <5>1 DEF NoHoles
        <5> QED BY <2>5, <2>6, <5>2
      <4> QED BY <4>1
    <3> QED BY <2>1, <2>2, <3>2, <3>3 DEF Covered
  <2>7. disturbed = {} => ~ \A i \in Index : Covered(i)
    BY <1>2, <2>5
  <2> QED BY <1>1, <1>4, <2>1, <2>2, <2>3, <2>4, <2>6, <2>7, KeptStays
<1> QED BY <1>3, <1>4

LEMMA KeptUnchanged ==
    ASSUME KeptInv, UNCHANGED logVars
    PROVE  KeptInv'
<1>1. LogInv'
  BY LogUnchanged DEF KeptInv
<1>2. \A q, i : Positions(q, i)' = Positions(q, i)
  BY DEF Positions, logVars
<1>3. \A q \in Processes : /\ Readable(q)' = Readable(q) /\ (InOrder(q) => InOrder(q)')
                           /\ NothingBeyond(q, logger[q].file) =>
                                 NothingBeyond(q, logger[q].file)'
  BY <1>2 DEF Readable, InOrder, NothingBeyond, logVars
<1>4. OrderInv => OrderInv'
  BY <1>3 DEF OrderInv, OneRotates, StepIsFree, Newest, Rotating, logVars
<1>5. NoHoles /\ LostWhenFull => NoHoles' /\ LostWhenFull'
  BY <1>3 DEF NoHoles, LostWhenFull, HasLost, Covered, logVars
<1> QED BY <1>1, <1>4, <1>5 DEF KeptInv, logVars

LEMMA KeptStep ==
    ASSUME KeptInv, [Next]_vars
    PROVE  KeptInv'
<1>1. CASE UNCHANGED vars
  BY <1>1, KeptUnchanged DEF vars
<1>2. ASSUME NEW p \in Processes, NEW c \in Commands, Launch(p, c) PROVE KeptInv'
  BY <1>2, KeptOpenLog DEF Launch
<1>3. ASSUME NEW p \in Processes, Log(p) PROVE KeptInv'
  BY <1>3, KeptWriteRecord, KeptBeginRotation, KeptRemoveOldest, KeptRenameNext, KeptOpenNext,
     KeptRotationFails DEF Log, WriteLog
<1>4. ASSUME NEW p \in Processes, UseDatabase(p) PROVE KeptInv'
  BY <1>4, KeptUnchanged DEF UseDatabase
<1>5. ASSUME NEW p \in Processes, End(p) PROVE KeptInv'
  BY <1>5, KeptCloseLog DEF End
<1> QED BY <1>1, <1>2, <1>3, <1>4, <1>5 DEF Next

LEMMA KeptInit == Init => KeptInv
<1> SUFFICES ASSUME Init PROVE KeptInv
  OBVIOUS
<1>1. LogInv /\ LogInit
  BY InitLog DEF Init
<1>2. \A p \in Processes : logger[p].file = NoFile /\ logger[p].step = Idle /\ acknowledged[p] = 0
  BY <1>1 DEF LogInit, Closed
<1>3. \A p \in Processes, i \in Index : Positions(p, i) = {}
  BY <1>1 DEF LogInit, Positions
<1>4. \A p \in Processes : Readable(p) = {}
  BY <1>3, ReadableIs
<1>5. OrderInv
  <2>1. OneRotates /\ StepIsFree
    BY <1>1, <1>2 DEF OneRotates, StepIsFree, Rotating, LogInit
  <2>2. \A p \in Processes : NothingBeyond(p, logger[p].file)
    BY <1>3 DEF NothingBeyond
  <2>3. \A p \in Processes : Newest(p)
    BY <1>3, <1>4 DEF Newest, InOrder
  <2> QED BY <2>1, <2>2, <2>3 DEF OrderInv
<1>6. NoHoles /\ LostWhenFull
  BY <1>1, <1>2, <1>4 DEF NoHoles, LostWhenFull, HasLost, LogInit, NoFile, Unlinked
<1> QED BY <1>1, <1>5, <1>6 DEF KeptInv

\* What can be read of a process are its newest records, in order and without a gap, as long as
\* no two rotations overlapped, wherever they failed; and no record is gone before the retained
\* files are all in use, as long as no rotation was cut short.
THEOREM NewestAreKept == Spec => []KeptRecordsAreNewest
<1>1. KeptInv => KeptRecordsAreNewest
  <2> SUFFICES ASSUME KeptInv, NEW p \in Processes
               PROVE  /\ "overlap" \notin disturbed => Newest(p)
                      /\ disturbed = {} /\ Readable(p) # 1 .. acknowledged[p] =>
                            present = Index \/ \E q \in Processes : Rotating(q)
    BY DEF KeptRecordsAreNewest, Newest
  <2>1. "overlap" \notin disturbed => Newest(p)
    BY DEF KeptInv, OrderInv
  <2>2. ASSUME disturbed = {}, Readable(p) # 1 .. acknowledged[p],
               ~ \E q \in Processes : Rotating(q)
        PROVE  present = Index
    <3>1. \A i \in Index : Covered(i)
      BY <2>2 DEF KeptInv, LostWhenFull, HasLost
    <3>2. \A i \in Index : i \in present
      BY <2>2, <3>1, LogConstants DEF Covered, Rotating, Idle, Index
    <3> QED BY <3>2, LogTypes DEF KeptInv
  <2> QED BY <2>1, <2>2
<1>2. KeptInv /\ [Next]_vars => KeptInv'
  BY KeptStep
<1> QED BY <1>1, <1>2, KeptInit, PTL DEF Spec

----------------------------------------------------------------------------
(* The commands. *)

\* Whoever runs has the log open; whoever does not has left nothing open.
CommandInv ==
    /\ command \in [Processes -> Commands \cup {None}]
    /\ launches \in 0 .. MaxLaunches
    /\ \A p \in Processes :
          IF command[p] = None THEN logger[p] = Closed /\ connection[p] = NoConnection
          ELSE logger[p].file # NoFile

\* A handle may lose its file's name, but writing and rotating close no handle.
HandlesStay(p) ==
    \A q \in Processes :
        /\ logger[q].file # NoFile => logger'[q].file # NoFile
        /\ q # p /\ logger[q] = Closed => logger'[q] = Closed

LEMMA RotationKeepsHandles ==
    ASSUME LogInv, NEW p \in Processes, Rotating(p), logger[p].step \in 1 .. FirstStep,
           NEW a \in Index, NEW b \in Index \cup {Unlinked}, a # b,
           logger' = Handles(p, a, b)
    PROVE  HandlesStay(p)
<1> SUFFICES ASSUME NEW q \in Processes
             PROVE  /\ logger[q].file # NoFile => logger'[q].file # NoFile
                    /\ q # p /\ logger[q] = Closed => logger'[q] = Closed
  BY DEF HandlesStay
<1>1. /\ logger'[q] \in LoggerRecord
      /\ logger'[q].file = NextHandle(logger[q].file, a, b)
      /\ logger'[q].written = logger[q].written
      /\ logger'[q].record = logger[q].record
      /\ q # p => logger'[q].step = logger[q].step
  BY HandlesMove
<1>2. logger[q].file # NoFile => logger'[q].file # NoFile
  <2>1. b # NoFile /\ Unlinked # NoFile
    BY LogConstants DEF Unlinked, NoFile
  <2> QED BY <1>1, <2>1 DEF NextHandle
<1>3. ASSUME q # p, logger[q] = Closed PROVE logger'[q] = Closed
  <2>1. logger'[q] = [file |-> logger'[q].file, written |-> logger'[q].written,
                      record |-> logger'[q].record, step |-> logger'[q].step]
    BY <1>1, LoggerFields
  <2>2. /\ logger[q].file = NoFile /\ logger[q].written = 0
        /\ logger[q].record = 0 /\ logger[q].step = Idle
    BY <1>3 DEF Closed
  <2>3. NextHandle(NoFile, a, b) = NoFile
    BY LogConstants DEF NextHandle
  <2>4. logger'[q].file = NoFile
    BY <1>1, <2>2, <2>3
  <2> QED BY <1>1, <1>3, <2>1, <2>2, <2>4 DEF Closed
<1> QED BY <1>2, <1>3

LEMMA WriteLogKeepsHandles ==
    ASSUME LogInv, NEW p \in Processes, WriteLog(p)
    PROVE  HandlesStay(p)
<1> USE DEF HandlesStay
<1>0. logger \in [Processes -> LoggerRecord]
  BY LogTypes
<1>1. ASSUME NEW l, l.file # NoFile, logger' = [logger EXCEPT ![p] = l]
      PROVE  HandlesStay(p)
  BY <1>0, <1>1
<1>2. ASSUME NEW f, NEW size, NEW written, f # NoFile, AppendTo(p, f, size, written)
      PROVE  HandlesStay(p)
  <2> DEFINE m == [Closed EXCEPT !.file = f]
             l == [m EXCEPT !.written = written + size]
  <2>1. m = [file |-> f, written |-> 0, record |-> 0, step |-> Idle]
    BY DEF Closed
  <2>2. logger' = [logger EXCEPT ![p] = l]
    BY <1>2 DEF AppendTo
  <2> HIDE DEF m
  <2>3. l.file # NoFile
    BY <1>2, <2>1
  <2> HIDE DEF l
  <2> QED BY <1>1, <2>2, <2>3
<1>3. CASE WriteRecord(p)
  BY <1>2, <1>3 DEF WriteRecord, MayWrite
<1>4. CASE BeginRotation(p)
  BY <1>0, <1>4 DEF BeginRotation, MayWrite
<1>5. CASE RotationFails(p)
  <2> DEFINE m == [logger[p] EXCEPT !.record = 0]
  <2>1. m \in LoggerRecord /\ m.file = logger[p].file
    BY <1>0 DEF LoggerRecord
  <2>2. logger' = [logger EXCEPT ![p] = [m EXCEPT !.step = Idle]]
    BY <1>5 DEF RotationFails
  <2> HIDE DEF m
  <2>3. [m EXCEPT !.step = Idle].file = m.file
    BY <2>1 DEF LoggerRecord
  <2> QED BY <1>0, <2>1, <2>2, <2>3
<1>6. CASE OpenNext(p)
  <2>1. CASE AppendTo(p, 0, logger[p].record, 0)
    <3>1. 0 # NoFile
      BY DEF NoFile
    <3> QED BY <1>2, <2>1, <3>1
  <2>2. CASE logger' = [logger EXCEPT ![p] = [Closed EXCEPT !.file = 0]]
    <3> DEFINE l == [file |-> 0, written |-> 0, record |-> 0, step |-> Idle]
    <3>1. l.file # NoFile /\ logger' = [logger EXCEPT ![p] = l]
      <4>1. l.file # NoFile
        BY DEF NoFile
      <4>2. [Closed EXCEPT !.file = 0] = l
        BY ClosedFile
      <4> HIDE DEF l
      <4> QED BY <2>2, <4>1, <4>2
    <3> HIDE DEF l
    <3> QED BY <1>1, <3>1
  <2> QED BY <1>6, <2>1, <2>2 DEF OpenNext
<1>7. CASE RemoveOldest(p)
  <2>1. /\ Rotating(p) /\ logger[p].step \in 1 .. FirstStep
        /\ RetainedFiles \in Index /\ RetainedFiles # Unlinked
        /\ logger' = Handles(p, RetainedFiles, Unlinked)
    BY <1>7, LogConstants, LogAssumption DEF RemoveOldest, Rotating, Idle, Unlinked
  <2> QED BY <2>1, RotationKeepsHandles
<1>8. CASE RenameNext(p)
  <2> DEFINE s == logger[p].step
             a == s - 1
  <2>1. s \in 1 .. RetainedFiles /\ Rename(p, a, s)
    BY <1>8 DEF RenameNext
  <2>2. /\ s # Idle /\ s \in 1 .. FirstStep /\ s \in Index /\ a \in Index /\ a # s
    <3>1. s \in 1 .. RetainedFiles /\ RetainedFiles \in Nat
      BY <2>1, LogAssumption
    <3> HIDE DEF s
    <3> QED BY <3>1 DEF Index, Idle, FirstStep
  <2>3. CASE logger' = Handles(p, a, s)
    <3>1. Rotating(p) /\ logger[p].step \in 1 .. FirstStep
      BY <2>2 DEF Rotating
    <3> HIDE DEF s, a
    <3> QED BY <2>2, <2>3, <3>1, RotationKeepsHandles
  <2>4. CASE logger' = [logger EXCEPT ![p].step = @ - 1]
    BY <1>0, <2>4
  <2> QED BY <2>1, <2>3, <2>4 DEF Rename
<1> QED BY <1>3, <1>4, <1>5, <1>6, <1>7, <1>8 DEF WriteLog

LEMMA CommandStep ==
    ASSUME LogInv, MigrationInv, CommandInv, [Next]_vars
    PROVE  CommandInv'
<1> USE DEF CommandInv
<1>0. logger \in [Processes -> LoggerRecord] /\ DOMAIN connection = Processes
  <2>1. logger \in [Processes -> LoggerRecord]
    BY LogTypes
  <2> QED BY <2>1 DEF MigrationInv, ConnectionType
<1>1. CASE UNCHANGED vars
  BY <1>1 DEF vars, logVars, migrationVars
<1>2. ASSUME NEW p \in Processes, NEW c \in Commands, Launch(p, c) PROVE CommandInv'
  <2>1. /\ command' = [command EXCEPT ![p] = c] /\ launches' = launches + 1
        /\ launches < MaxLaunches /\ c # None /\ connection' = connection
    BY <1>2 DEF Launch, Commands, None, migrationVars
  <2>2. /\ \A q \in Processes : q # p => logger'[q] = logger[q]
        /\ logger'[p].file # NoFile
    BY <1>0, <1>2 DEF Launch, OpenLog, NoFile, LoggerRecord
  <2>3. launches' \in 0 .. MaxLaunches
    BY <2>1, CommandsAssumption
  <2> QED BY <2>1, <2>2, <2>3
<1>3. ASSUME NEW p \in Processes, Log(p) PROVE CommandInv'
  <2>1. HandlesStay(p) /\ command[p] # None /\ UNCHANGED <<command, launches, connection>>
    BY <1>3, WriteLogKeepsHandles DEF Log, migrationVars, None
  <2> QED BY <2>1 DEF HandlesStay
<1>4. ASSUME NEW p \in Processes, UseDatabase(p) PROVE CommandInv'
  <2>1. command[p] # None /\ UNCHANGED <<command, launches, logger>>
    BY <1>4 DEF UseDatabase, logVars, None
  <2>2. \A q \in Processes : q # p => connection'[q] = connection[q]
    BY <1>0, <1>4 DEF UseDatabase, OpenDatabase, ReadVersion, BeginMigration, TakeWriteLock,
                      CommitMigration, InsertRow, OpenReadOnly, CloseReadOnly
  <2> QED BY <2>1, <2>2
<1>5. ASSUME NEW p \in Processes, End(p) PROVE CommandInv'
  BY <1>0, <1>5 DEF End, CloseLog, CloseDatabase
<1> QED BY <1>1, <1>2, <1>3, <1>4, <1>5 DEF Next

\* The rotations of several processes, the stages of their connections and what each was
\* started as keep to their types: a file that does not exist has no content, a handle points
\* at a file that exists or at none, one process at most writes to the database, and no
\* process that has ended holds anything.
THEOREM TypeCorrect == Spec => []TypeOK
<1>1. Init => CommandInv
  BY CommandsAssumption DEF Init, CommandInv, LogInit, MigrationInit
<1>2. LogInv /\ MigrationInv /\ CommandInv /\ [Next]_vars => CommandInv'
  BY CommandStep
<1>3. LogInv /\ MigrationInv /\ CommandInv => TypeOK
  <2> SUFFICES ASSUME LogInv, MigrationInv, CommandInv PROVE TypeOK
    OBVIOUS
  <2>1. Cardinality({p \in Processes : Stage(p) = "writing"}) <= 1
    <3> DEFINE W == {p \in Processes : Stage(p) = "writing"}
    <3>1. CASE W = {}
      BY <3>1, FS_EmptySet
    <3>2. CASE W # {}
      <4>1. PICK p \in W : TRUE
        BY <3>2
      <4>2. W = {p}
        BY <4>1 DEF MigrationInv, OneWriter
      <4>3. Cardinality({p}) = 1
        BY FS_Singleton
      <4> QED BY <4>2, <4>3
    <3> QED BY <3>1, <3>2
  <2>2. LogTypeOK /\ MigrationTypeOK
    BY <2>1 DEF LogInv, MigrationInv, ConnectionType, MigrationTypeOK
  <2>3. \A p \in Processes : Stage(p) # "closed" => logger[p].file # NoFile
    BY DEF CommandInv, Stage, NoConnection
  <2> QED BY <2>2, <2>3 DEF TypeOK, CommandInv
<1> QED BY <1>1, <1>2, <1>3, LogInvariant, MigrationInvariant, PTL DEF Spec
=============================================================================
