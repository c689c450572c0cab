------------------------- MODULE ControlPlaneProofs -------------------------
(***************************************************************************)
(* Theorems about ControlPlane for any number of processes and handlers,   *)
(* any workload and any database an earlier release may have left.         *)
(*                                                                         *)
(* Part one is the process: the data directory lock makes the owner of the *)
(* store unique, and from that follow the socket and the schema.  Part two *)
(* is the data that requests share: the request record, credentials and    *)
(* bindings.                                                               *)
(***************************************************************************)
EXTENDS ControlPlane, TLAPS

----------------------------------------------------------------------------
(* The process.                                                            *)

Phases == Ended \cup LockHeld \cup {"lock", "closed"}

\* The phases in which the store is used as one of the current version.
Served == StoreOpen \ {"open", "record5", "record6"}

LockExclusive ==
    \A d, e \in Daemons : phase[d] \in LockHeld /\ phase[e] \in LockHeld => d = e

\* The column of version 5 without its record.
HalfBudget == objects = CanonicalObjects(5) /\ history = CanonicalHistory(4)

\* Every database a start can meet.
SchemaShape == HalfBudget \/ \E v \in 0..SchemaVersion : CanonicalDatabase(v)

\* What a process that recorded half of a migration knows of the database.
Recording ==
    \A d \in Daemons : /\ phase[d] = "record5" => HalfBudget
                       /\ phase[d] = "record6" => CanonicalDatabase(5)

ProcessInv ==
    /\ phase \in [Daemons -> Phases]
    /\ LockExclusive
    /\ SocketServes
    /\ SchemaShape
    /\ Recording
    /\ ServedSchema

USE DEF Starting, Listening, StoreOpen, LockHeld, Ended, Phases, Served

\* What neither moves a process nor touches the socket or the schema keeps the
\* invariant.
LEMMA ProcessUnchanged ==
    ASSUME ProcessInv, phase' = phase, socket' = socket, objects' = objects, history' = history
    PROVE  ProcessInv'
BY DEF ProcessInv, LockExclusive, SocketServes, SchemaShape, Recording, ServedSchema, HalfBudget,
       CanonicalDatabase

\* A process moves to another phase and touches neither socket nor schema.
LEMMA ProcessMoves ==
    ASSUME ProcessInv, NEW d \in Daemons, NEW new \in Phases,
           phase' = [phase EXCEPT ![d] = new],
           socket' = socket, objects' = objects, history' = history,
           new \in LockHeld => phase[d] \in LockHeld,
           new \in Listening => phase[d] \in Listening,
           new = "record5" => HalfBudget,
           new = "record6" => CanonicalDatabase(5),
           new \in Served => phase[d] \in Served \/ CanonicalDatabase(SchemaVersion)
    PROVE  ProcessInv'
<1>1. \A e \in Daemons : phase'[e] = IF e = d THEN new ELSE phase[e]
  BY DEF ProcessInv
<1>2. (phase \in [Daemons -> Phases])'
  BY DEF ProcessInv
<1>3. LockExclusive'
  BY <1>1 DEF ProcessInv, LockExclusive
<1>4. SocketServes'
  BY <1>1 DEF ProcessInv, SocketServes
<1>5. SchemaShape'
  BY DEF ProcessInv, SchemaShape, HalfBudget, CanonicalDatabase
<1>6. Recording'
  BY <1>1 DEF ProcessInv, Recording, HalfBudget, CanonicalDatabase
<1>7. ServedSchema'
  BY <1>1 DEF ProcessInv, ServedSchema, CanonicalDatabase
<1>8. QED
  BY <1>2, <1>3, <1>4, <1>5, <1>6, <1>7 DEF ProcessInv

\* The owner of the store changes the schema on the way to Open.
LEMMA SchemaMoves ==
    ASSUME ProcessInv, NEW d \in Daemons, NEW new \in {"open", "record5", "record6"},
           phase[d] \in {"open", "record5", "record6"},
           phase' = [phase EXCEPT ![d] = new], socket' = socket,
           SchemaShape',
           new = "record5" => HalfBudget',
           new = "record6" => CanonicalDatabase(5)'
    PROVE  ProcessInv'
<1>1. \A e \in Daemons : phase'[e] = IF e = d THEN new ELSE phase[e]
  BY DEF ProcessInv
<1>2. \A e \in Daemons \ {d} : phase[e] \notin LockHeld
  BY DEF ProcessInv, LockExclusive
<1>3. (phase \in [Daemons -> Phases])'
  BY DEF ProcessInv
<1>4. LockExclusive'
  BY <1>1, <1>2 DEF LockExclusive
<1>5. SocketServes'
  BY <1>1, <1>2 DEF SocketServes
<1>6. Recording'
  BY <1>1, <1>2 DEF Recording
<1>7. ServedSchema'
  BY <1>1, <1>2 DEF ServedSchema
<1>8. QED
  BY <1>3, <1>4, <1>5, <1>6, <1>7 DEF ProcessInv

\* MAX(version) of a history without gaps is its length.
LEMMA VersionOfHistory ==
    ASSUME NEW v \in 0..SchemaVersion, history = CanonicalHistory(v)
    PROVE  MigrationVersion = v
<1>1. CASE v = 0
  BY <1>1 DEF MigrationVersion, CanonicalHistory, SchemaVersion
<1>2. CASE v # 0
  <2>1. v \in history /\ \A w \in history : w <= v
    BY <1>2 DEF CanonicalHistory, SchemaVersion
  <2>2. \A u \in history : (\A w \in history : w <= u) => u = v
    BY <2>1 DEF CanonicalHistory, SchemaVersion
  <2>3. QED
    BY <2>1, <2>2 DEF MigrationVersion
<1>3. QED
  BY <1>1, <1>2

\* A migration in a transaction goes from one version to the next.
LEMMA TransactionStep ==
    ASSUME NEW v \in 1..SchemaVersion, CanonicalDatabase(v - 1), InTransaction(v)
    PROVE  CanonicalDatabase(v)'
<1>1. objects' = CanonicalObjects(v)
  <2>1. DDLVersions \subseteq Int
    BY DEF DDLVersions
  <2>2. \A n \in DDLVersions : n <= v <=> n <= v - 1 \/ n = v
    BY <2>1 DEF SchemaVersion
  <2>3. CanonicalObjects(v) = CanonicalObjects(v - 1) \cup ({v} \cap DDLVersions)
    BY <2>2 DEF CanonicalObjects
  <2>4. QED
    BY <2>3 DEF CanonicalDatabase, InTransaction
<1>2. history' = CanonicalHistory(v)
  BY DEF CanonicalDatabase, CanonicalHistory, InTransaction, SchemaVersion
<1>3. QED
  BY <1>1, <1>2 DEF CanonicalDatabase

\* An empty database is the one before the first version.
LEMMA EmptyDatabase ==
    ASSUME SchemaShape, objects = {} PROVE CanonicalDatabase(0)
<1>1. 1 \in CanonicalObjects(5)
  BY DEF CanonicalObjects, DDLVersions
<1>2. \A v \in 1..SchemaVersion : 1 \in CanonicalObjects(v)
  BY DEF CanonicalObjects, DDLVersions
<1>3. QED
  BY <1>1, <1>2 DEF SchemaShape, HalfBudget, CanonicalDatabase, SchemaVersion

\* The ALTER TABLE of version 5 leaves exactly the half schema.
LEMMA AlterLeavesHalf ==
    ASSUME alterTaskBudget PROVE HalfBudget'
BY DEF alterTaskBudget, ReadyFor, CanonicalDatabase, CanonicalObjects, DDLVersions, HalfBudget

\* The record of version 5 makes the half schema a whole one.
LEMMA RecordCompletes ==
    /\ HalfBudget /\ RecordMigration(5) => CanonicalDatabase(5)'
    /\ CanonicalDatabase(5) /\ RecordMigration(6) => CanonicalDatabase(6)'
<1>1. HalfBudget /\ RecordMigration(5) => CanonicalDatabase(5)'
  BY DEF RecordMigration, HalfBudget, CanonicalDatabase, CanonicalHistory
<1>2. CanonicalObjects(5) = CanonicalObjects(6)
  BY DEF CanonicalObjects, DDLVersions
<1>3. CanonicalDatabase(5) /\ RecordMigration(6) => CanonicalDatabase(6)'
  BY <1>2 DEF RecordMigration, CanonicalDatabase, CanonicalHistory
<1>4. QED
  BY <1>1, <1>3

\* The first states: no process runs and the database is of one release.
LEMMA ProcessInit == Init => ProcessInv
<1> SUFFICES ASSUME Init PROVE ProcessInv
  OBVIOUS
<1>1. phase = [d \in Daemons |-> "down"]
  BY DEF Init
<1>2. SchemaShape
  <2>1. PICK v \in load.versions : objects = CanonicalObjects(v) /\ history = CanonicalHistory(v)
    BY DEF Init
  <2>2. v \in 0..SchemaVersion
    BY ControlPlaneAssumption DEF Init
  <2>3. QED
    BY <2>1, <2>2 DEF SchemaShape, CanonicalDatabase
<1>3. QED
  BY <1>1, <1>2 DEF ProcessInv, LockExclusive, SocketServes, Recording, ServedSchema

\* The migrations that are one transaction.
LEMMA MigrateInTransactionProcess ==
    ASSUME ProcessInv, NEW d \in Daemons, MigrateInTransaction(d)
    PROVE  ProcessInv'
<1>1. phase[d] = "open" /\ phase' = phase /\ socket' = socket
  BY DEF MigrateInTransaction, planeVars
<1>2. phase' = [phase EXCEPT ![d] = "open"]
  BY <1>1 DEF ProcessInv
<1>3. \E v \in 1..SchemaVersion : CanonicalDatabase(v)'
  <2>1. CASE CreateSchema
    BY <2>1, EmptyDatabase, TransactionStep DEF ProcessInv, CreateSchema, SchemaVersion
  <2>2. CASE applyIsolationSpecMigration
    BY <2>2, TransactionStep DEF applyIsolationSpecMigration, ReadyFor, SchemaVersion
  <2>3. CASE applyParticipantRolesMigration
    BY <2>3, TransactionStep DEF applyParticipantRolesMigration, ReadyFor, SchemaVersion
  <2>4. CASE applyHumanTaskLifecycleMigration
    BY <2>4, TransactionStep DEF applyHumanTaskLifecycleMigration, ReadyFor, SchemaVersion
  <2>5. CASE applyAgentRuntimeConfigMigration
    BY <2>5, TransactionStep DEF applyAgentRuntimeConfigMigration, ReadyFor, SchemaVersion
  <2>6. QED
    BY <2>1, <2>2, <2>3, <2>4, <2>5 DEF MigrateInTransaction
<1>4. SchemaShape'
  BY <1>3 DEF SchemaShape, SchemaVersion
<1>5. QED
  BY <1>1, <1>2, <1>4, SchemaMoves

\* The migrations to versions 5 and 6, whose statements commit one by one.
LEMMA MigrateByStatementProcess ==
    ASSUME ProcessInv, NEW d \in Daemons,
           applyTaskBudgetMigration(d) \/ applyProjectDeleteCapabilityMigration(d)
              \/ MigrationRecorded(d)
    PROVE  ProcessInv'
<1>1. CASE applyTaskBudgetMigration(d)
  <2>1. /\ phase[d] = "open" /\ phase' = [phase EXCEPT ![d] = "record5"] /\ socket' = socket
        /\ alterTaskBudget
    BY <1>1 DEF applyTaskBudgetMigration, Become
  <2>2. HalfBudget'
    BY <2>1, AlterLeavesHalf
  <2>3. SchemaShape'
    BY <2>2 DEF SchemaShape
  <2>4. QED
    BY <2>1, <2>2, <2>3, SchemaMoves
<1>2. CASE applyProjectDeleteCapabilityMigration(d)
  <2>1. /\ phase[d] = "open" /\ phase' = [phase EXCEPT ![d] = "record6"] /\ socket' = socket
        /\ CanonicalDatabase(5) /\ objects' = objects /\ history' = history
    BY <1>2 DEF applyProjectDeleteCapabilityMigration, Become, ReadyFor, schemaVars
  <2>2. CanonicalDatabase(5)'
    BY <2>1 DEF CanonicalDatabase
  <2>3. SchemaShape'
    BY <2>2 DEF SchemaShape, SchemaVersion
  <2>4. QED
    BY <2>1, <2>2, <2>3, SchemaMoves
<1>3. CASE MigrationRecorded(d)
  <2>1. /\ phase[d] \in {"record5", "record6"}
        /\ phase' = [phase EXCEPT ![d] = "open"] /\ socket' = socket
    BY <1>3 DEF MigrationRecorded, Become
  <2>2. \E v \in 0..SchemaVersion : CanonicalDatabase(v)'
    BY <1>3, RecordCompletes DEF MigrationRecorded, ProcessInv, Recording, SchemaVersion
  <2>3. SchemaShape'
    BY <2>2 DEF SchemaShape
  <2>4. QED
    BY <2>1, <2>3, SchemaMoves
<1>4. QED
  BY <1>1, <1>2, <1>3

\* A store that opens is one of the current version.
LEMMA StoreOpenedProcess ==
    ASSUME ProcessInv, NEW d \in Daemons, StoreOpened(d)
    PROVE  ProcessInv'
<1>1. /\ phase[d] = "open" /\ socket' = socket /\ objects' = objects /\ history' = history
      /\ \/ phase' = [phase EXCEPT ![d] = "failed"]
         \/ /\ phase' = [phase EXCEPT ![d] = "scan"]
            /\ ~SchemaRefused /\ MigrationVersion = SchemaVersion
  BY DEF StoreOpened, Become, dataVars, schemaVars
<1>2. CASE phase' = [phase EXCEPT ![d] = "failed"]
  BY <1>1, <1>2, ProcessMoves
<1>3. CASE ~SchemaRefused /\ MigrationVersion = SchemaVersion /\ phase' = [phase EXCEPT ![d] = "scan"]
  <2>1. objects # {}
    <3>1. SUFFICES ASSUME objects = {} PROVE FALSE
      OBVIOUS
    <3>2. history = CanonicalHistory(0)
      BY <3>1, EmptyDatabase DEF ProcessInv, CanonicalDatabase
    <3>3. QED
      BY <1>3, <3>2, VersionOfHistory DEF SchemaVersion
  <2>2. CanonicalDatabase(SchemaVersion)
    BY <1>3, <2>1 DEF SchemaRefused
  <2>3. QED
    BY <1>1, <1>3, <2>2, ProcessMoves
<1>4. QED
  BY <1>1, <1>2, <1>3

\* Only the process with the lock touches the socket, and nobody else listens.
LEMMA SocketProcess ==
    ASSUME ProcessInv, NEW d \in Daemons,
           removeStaleSocket(d) \/ ListenUnix(d) \/ CloseListener(d)
    PROVE  ProcessInv'
<1>1. /\ phase[d] \in {"listen", "stopping"} /\ objects' = objects /\ history' = history
      /\ \E new \in {"listen", "failed", "serving", "unready", "draining"} :
            /\ phase' = [phase EXCEPT ![d] = new]
            /\ new \in Listening => socket' = d
  <2>1. CASE removeStaleSocket(d)
    <3>1. phase[d] = "listen" /\ (phase' = phase \/ phase' = [phase EXCEPT ![d] = "failed"])
      BY <2>1 DEF removeStaleSocket, Become
    <3>2. phase = [phase EXCEPT ![d] = "listen"]
      BY <3>1 DEF ProcessInv
    <3>3. QED
      BY <2>1, <3>1, <3>2 DEF removeStaleSocket, dataVars, schemaVars
  <2>2. CASE ListenUnix(d)
    BY <2>2 DEF ListenUnix, Become, dataVars, schemaVars
  <2>3. CASE CloseListener(d)
    BY <2>3 DEF CloseListener, Become, dataVars, schemaVars
  <2>4. QED
    BY <2>1, <2>2, <2>3
<1>2. PICK new \in {"listen", "failed", "serving", "unready", "draining"} :
         phase' = [phase EXCEPT ![d] = new] /\ (new \in Listening => socket' = d)
  BY <1>1
<1>3. \A e \in Daemons : phase'[e] = IF e = d THEN new ELSE phase[e]
  BY <1>2 DEF ProcessInv
<1>4. \A e \in Daemons \ {d} : phase[e] \notin LockHeld
  BY <1>1 DEF ProcessInv, LockExclusive
<1>5. CanonicalDatabase(SchemaVersion)
  BY <1>1 DEF ProcessInv, ServedSchema
<1>6. (phase \in [Daemons -> Phases])'
  BY <1>2 DEF ProcessInv
<1>7. LockExclusive'
  BY <1>3, <1>4 DEF LockExclusive
<1>8. SocketServes'
  BY <1>2, <1>3, <1>4 DEF SocketServes
<1>9. SchemaShape' /\ Recording' /\ ServedSchema'
  <2>1. CanonicalDatabase(SchemaVersion)'
    BY <1>1, <1>5 DEF CanonicalDatabase
  <2>2. SchemaShape'
    BY <2>1 DEF SchemaShape, SchemaVersion
  <2>3. Recording'
    BY <1>3, <1>4 DEF Recording
  <2>4. QED
    BY <2>1, <2>2, <2>3 DEF ServedSchema
<1>10. QED
  BY <1>6, <1>7, <1>8, <1>9 DEF ProcessInv

\* The lock is taken only while nobody has it.
LEMMA AcquireDataDirLockProcess ==
    ASSUME ProcessInv, NEW d \in Daemons, AcquireDataDirLock(d)
    PROVE  ProcessInv'
<1>1. phase[d] = "lock" /\ socket' = socket /\ objects' = objects /\ history' = history
  BY DEF AcquireDataDirLock, dataVars, schemaVars
<1>2. CASE \E e \in Daemons \ {d} : phase[e] \in LockHeld
  <2>1. phase' = [phase EXCEPT ![d] = "failed"]
    BY <1>2 DEF AcquireDataDirLock, Become
  <2>2. QED
    BY <1>1, <2>1, ProcessMoves
<1>3. CASE \A e \in Daemons \ {d} : phase[e] \notin LockHeld
  <2>1. phase' = [phase EXCEPT ![d] = "open"]
    BY <1>3 DEF AcquireDataDirLock, Become
  <2>2. \A e \in Daemons : phase'[e] = IF e = d THEN "open" ELSE phase[e]
    BY <2>1 DEF ProcessInv
  <2>3. (phase \in [Daemons -> Phases])'
    BY <2>1 DEF ProcessInv
  <2>4. LockExclusive' /\ SocketServes' /\ Recording' /\ ServedSchema'
    BY <1>3, <2>2 DEF LockExclusive, SocketServes, Recording, ServedSchema
  <2>5. SchemaShape'
    BY <1>1 DEF ProcessInv, SchemaShape, HalfBudget, CanonicalDatabase
  <2>6. QED
    BY <2>3, <2>4, <2>5 DEF ProcessInv
<1>4. QED
  BY <1>2, <1>3

\* Steps of a start that leave the socket and the schema alone.
LEMMA StartProcess ==
    ASSUME ProcessInv, NEW d \in Daemons,
           \/ Start(d) \/ QuarantineUnknown(d) \/ Scanned(d) \/ ReconcileCreating(d)
           \/ ReconciledCreating(d) \/ ReconcileActive(d) \/ Reconciled(d) \/ StartFails(d)
    PROVE  ProcessInv'
<1> USE DEF dataVars, schemaVars, Become
<1>1. CASE Start(d)
  <2>1. PICK new \in {"failed", "lock"} : phase' = [phase EXCEPT ![d] = new]
    BY <1>1 DEF Start
  <2>2. socket' = socket /\ objects' = objects /\ history' = history
    BY <1>1 DEF Start
  <2>3. QED
    BY <2>1, <2>2, ProcessMoves
<1>2. CASE QuarantineUnknown(d)
  BY <1>2, ProcessMoves DEF QuarantineUnknown
<1>3. CASE Scanned(d)
  <2>1. socket' = socket /\ objects' = objects /\ history' = history
    BY <1>3 DEF Scanned
  <2>2. CASE phase[d] = "scan"
    <3>1. phase' = [phase EXCEPT ![d] = "reconcile"]
      BY <1>3, <2>2 DEF Scanned
    <3>2. QED
      BY <2>1, <2>2, <3>1, ProcessMoves
  <2>3. CASE phase[d] = "refuse"
    <3>1. phase' = [phase EXCEPT ![d] = "failed"]
      BY <1>3, <2>3 DEF Scanned
    <3>2. QED
      BY <2>1, <2>3, <3>1, ProcessMoves
  <2>4. QED
    BY <1>3, <2>2, <2>3 DEF Scanned
<1>4. CASE ReconcileCreating(d)
  BY <1>4, ProcessUnchanged DEF ReconcileCreating
<1>5. CASE ReconciledCreating(d)
  BY <1>5, ProcessMoves DEF ReconciledCreating
<1>6. CASE ReconcileActive(d)
  BY <1>6, ProcessUnchanged DEF ReconcileActive
<1>7. CASE Reconciled(d)
  BY <1>7, ProcessMoves DEF Reconciled
<1>8. CASE StartFails(d)
  BY <1>8, ProcessMoves DEF StartFails
<1>9. QED
  BY <1>1, <1>2, <1>3, <1>4, <1>5, <1>6, <1>7, <1>8

\* Readiness, the orderly stop and the death of a process.
LEMMA StopProcess ==
    ASSUME ProcessInv, NEW d \in Daemons,
           \/ Degraded(d) \/ Healthy(d) \/ Stop(d) \/ CloseStore(d) \/ ReleaseLock(d)
           \/ Exit(d) \/ Crash(d)
    PROVE  ProcessInv'
<1> USE DEF dataVars, schemaVars, Become
<1>1. CASE Degraded(d)
  BY <1>1, ProcessMoves DEF Degraded
<1>2. CASE Healthy(d)
  BY <1>2, ProcessMoves DEF Healthy
<1>3. CASE Stop(d)
  BY <1>3, ProcessMoves DEF Stop
<1>4. CASE CloseStore(d)
  BY <1>4, ProcessMoves DEF CloseStore
<1>5. CASE ReleaseLock(d)
  BY <1>5, ProcessMoves DEF ReleaseLock
<1>6. CASE Exit(d)
  BY <1>6, ProcessMoves DEF Exit
<1>7. CASE Crash(d)
  BY <1>7, ProcessMoves DEF Crash
<1>8. QED
  BY <1>1, <1>2, <1>3, <1>4, <1>5, <1>6, <1>7

\* Jobs, of a request or of a starting process, work on rows and repositories.
LEMMA JobStepProcess ==
    ASSUME NEW w, JobStep(w)
    PROVE  phase' = phase /\ socket' = socket /\ objects' = objects /\ history' = history
BY DEF JobStep, Initialize, PreparePartial, MarkPartial, PublishPartial, BuildRepository,
       PromoteRepository, VerifyRepository, GitFails, FinishJob, jobFrame, schemaVars

\* Requests and the world outside do, too.
LEMMA RequestProcess ==
    ASSUME \/ \E h \in Handlers : Call(h) \/ RequestStep(h)
           \/ Outside \/ RepositoryLost
    PROVE  phase' = phase /\ socket' = socket /\ objects' = objects /\ history' = history
<1>1. ASSUME NEW h \in Handlers, Call(h) PROVE UNCHANGED <<phase, socket, objects, history>>
  BY <1>1 DEF Call, dataVars, schemaVars
<1>2. ASSUME NEW h \in Handlers, RequestStep(h) PROVE UNCHANGED <<phase, socket, objects, history>>
  <2>1. CASE JobStep(h)
    BY <2>1, JobStepProcess
  <2>2. CASE Gate(h) \/ TransactAuthority(h) \/ TransactProject(h) \/ Preflight(h) \/ InsertProject(h)
    BY <2>2 DEF Gate, TransactAuthority, TransactProject, Preflight, InsertProject, requestFrame,
                schemaVars
  <2>3. CASE ReadProject(h) \/ UpdateProject(h) \/ Abort(h)
    BY <2>3 DEF ReadProject, UpdateProject, Abort, requestFrame, schemaVars, dataVars
  <2>4. QED
    BY <1>2, <2>1, <2>2, <2>3 DEF RequestStep
<1>3. CASE Outside
  BY <1>3 DEF Outside, planeVars, schemaVars
<1>4. CASE RepositoryLost
  BY <1>4 DEF RepositoryLost, schemaVars
<1>5. QED
  BY <1>1, <1>2, <1>3, <1>4

\* Every step keeps the invariant.
LEMMA ProcessStep == ProcessInv /\ [Next]_vars => ProcessInv'
<1> SUFFICES ASSUME ProcessInv, [Next]_vars PROVE ProcessInv'
  OBVIOUS
<1>1. ASSUME NEW d \in Daemons, DaemonStep(d) PROVE ProcessInv'
  <2>1. CASE \/ (phase[d] = "failed" /\ Start(d)) \/ QuarantineUnknown(d) \/ Scanned(d)
             \/ ReconcileCreating(d) \/ ReconciledCreating(d) \/ ReconcileActive(d) \/ Reconciled(d)
    BY <2>1, StartProcess
  <2>2. CASE CloseStore(d) \/ ReleaseLock(d) \/ Exit(d)
    BY <2>2, StopProcess
  <2>3. CASE removeStaleSocket(d) \/ ListenUnix(d) \/ CloseListener(d)
    BY <2>3, SocketProcess
  <2>4. CASE AcquireDataDirLock(d)
    BY <2>4, AcquireDataDirLockProcess
  <2>5. CASE MigrateInTransaction(d)
    BY <2>5, MigrateInTransactionProcess
  <2>6. CASE \/ applyTaskBudgetMigration(d) \/ applyProjectDeleteCapabilityMigration(d)
             \/ MigrationRecorded(d)
    BY <2>6, MigrateByStatementProcess
  <2>7. CASE StoreOpened(d)
    BY <2>7, StoreOpenedProcess
  <2>8. CASE JobStep(d)
    BY <2>8, JobStepProcess, ProcessUnchanged
  <2>9. QED
    BY <1>1, <2>1, <2>2, <2>3, <2>4, <2>5, <2>6, <2>7, <2>8 DEF DaemonStep
<1>2. ASSUME NEW d \in Daemons,
             Start(d) \/ StartFails(d) \/ Degraded(d) \/ Healthy(d) \/ Stop(d) \/ Crash(d)
      PROVE  ProcessInv'
  BY <1>2, StartProcess, StopProcess
<1>3. CASE \/ \E h \in Handlers : Call(h) \/ RequestStep(h)
           \/ Outside \/ RepositoryLost
  BY <1>3, RequestProcess, ProcessUnchanged
<1>4. CASE UNCHANGED vars
  BY <1>4, ProcessUnchanged DEF vars, planeVars, schemaVars
<1>5. QED
  BY <1>1, <1>2, <1>3, <1>4 DEF Next

\* The invariant holds throughout.
LEMMA ProcessInvariant == Spec => []ProcessInv
BY ProcessInit, ProcessStep, PTL DEF Spec

\* A data directory has one owner: at most one process has its store open, and
\* the socket file leads to the process that listens, whatever is started,
\* stops, fails or dies.  removeStaleSocket never takes a live socket away.
THEOREM StoreExclusive == Spec => []OneOwner
<1>1. ProcessInv => OneOwner
  BY DEF ProcessInv, LockExclusive, OneOwner, OneStoreOwner
<1>2. QED
  BY <1>1, ProcessInvariant, PTL

\* The only database a start cannot take up again is the one an interrupted
\* applyTaskBudgetMigration leaves.
LEMMA HalfSchemaKnown == ProcessInv => HalfSchemaOnlyFromBudget
<1>1. SUFFICES ASSUME SchemaShape, ~CanonicalDatabase(MigrationVersion) PROVE HalfBudget
  BY DEF ProcessInv, HalfSchemaOnlyFromBudget, HalfBudget
<1>2. ASSUME NEW v \in 0..SchemaVersion, CanonicalDatabase(v) PROVE FALSE
  BY <1>1, <1>2, VersionOfHistory DEF CanonicalDatabase
<1>3. QED
  BY <1>1, <1>2 DEF SchemaShape

\* A store in use has exactly the schema and history of the current version,
\* wherever the migrations before were interrupted, and the column of version 5
\* without its record is the only half schema they can leave.
THEOREM SchemaServed == Spec => []SchemaIntact
<1>1. ProcessInv => SchemaIntact
  BY HalfSchemaKnown DEF ProcessInv, SchemaIntact
<1>2. QED
  BY <1>1, ProcessInvariant, PTL

----------------------------------------------------------------------------
(* The data that requests share.                                           *)

sharedVars == <<roles, bindings, credentials, pinned, dedupes, registered>>

\* A project's row may move without them.
QuietRows ==
    \/ projects' = projects
    \/ \E j, ok : finishProjectAction(j, ok)
    \/ \E p, ok : finishActiveVerification(p, ok)

Quiet == UNCHANGED sharedVars /\ QuietRows

\* Jobs write neither permissions nor registrations.
LEMMA JobStepData == ASSUME NEW w, JobStep(w) PROVE Quiet
<1> USE DEF Quiet, QuietRows, sharedVars, authorityVars, registryVars, registryRowVars
<1>1. CASE Initialize(w) \/ VerifyRepository(w) \/ GitFails(w)
  BY <1>1 DEF Initialize, VerifyRepository, GitFails
<1>2. CASE PreparePartial(w) \/ MarkPartial(w) \/ PublishPartial(w)
  BY <1>2 DEF PreparePartial, MarkPartial, PublishPartial, MakePartial, WriteTemporaryMarker,
              PublishMarker, DropTemporaryMarker
<1>3. CASE BuildRepository(w) \/ PromoteRepository(w)
  BY <1>3 DEF BuildRepository, PromoteRepository, BuildPartial, PromotePartial
<1>4. CASE FinishJob(w)
  <2>1. PICK ok : finishProjectAction(calls[w].job, ok)
    BY <1>4 DEF FinishJob
  <2>2. UNCHANGED sharedVars
    BY <2>1 DEF finishProjectAction
  <2>3. QED
    BY <2>1, <2>2
<1>5. QED
  BY <1>1, <1>2, <1>3, <1>4 DEF JobStep

\* Nor does a process between its start and its end, but for two migrations.
LEMMA DaemonStepData ==
    ASSUME NEW d \in Daemons,
           DaemonStep(d) \/ Start(d) \/ StartFails(d) \/ Degraded(d) \/ Healthy(d) \/ Stop(d)
              \/ Crash(d)
    PROVE  \/ Quiet
           \/ MigrateInTransaction(d) \/ applyProjectDeleteCapabilityMigration(d)
<1> USE DEF Quiet, QuietRows, sharedVars, dataVars, authorityVars, registryVars, registryRowVars
<1>1. CASE Start(d) \/ StartFails(d) \/ Degraded(d) \/ Healthy(d) \/ Stop(d) \/ Crash(d)
  BY <1>1 DEF Start, StartFails, Degraded, Healthy, Stop, Crash
<1>2. CASE AcquireDataDirLock(d) \/ applyTaskBudgetMigration(d) \/ MigrationRecorded(d) \/ StoreOpened(d)
  BY <1>2 DEF AcquireDataDirLock, applyTaskBudgetMigration, MigrationRecorded, StoreOpened
<1>3. CASE QuarantineUnknown(d)
  BY <1>3 DEF QuarantineUnknown, QuarantineFinal, QuarantinePartial
<1>4. CASE ReconcileActive(d)
  <2>1. PICK p, ok : finishActiveVerification(p, ok)
    BY <1>4 DEF ReconcileActive
  <2>2. UNCHANGED sharedVars
    BY <2>1 DEF finishActiveVerification
  <2>3. QED
    BY <2>1, <2>2
<1>5. CASE Scanned(d) \/ ReconcileCreating(d) \/ ReconciledCreating(d) \/ Reconciled(d)
  BY <1>5 DEF Scanned, ReconcileCreating, ReconciledCreating, Reconciled
<1>6. CASE \/ removeStaleSocket(d) \/ ListenUnix(d) \/ CloseListener(d) \/ CloseStore(d)
           \/ ReleaseLock(d) \/ Exit(d)
  BY <1>6 DEF removeStaleSocket, ListenUnix, CloseListener, CloseStore, ReleaseLock, Exit
<1>7. CASE JobStep(d)
  BY <1>7, JobStepData
<1>8. QED
  BY <1>1, <1>2, <1>3, <1>4, <1>5, <1>6, <1>7 DEF DaemonStep

\* The transactions that write permissions, credentials, answers and
\* registrations.
AuthorityWrite ==
    \/ SeedParticipants(AllCapabilities)
    \/ GrantOwnerRole
    \/ \E q : CreateRole(q) \/ UpdateRole(q) \/ DeleteRole(q)
    \/ \E q : BindParticipantRole(q, q.scope \in Rows) \/ UnbindParticipantRole(q)
    \/ \E q : AddCredential(q) \/ RotateCredential(q) \/ RevokeCredential(q)

SharedWrite ==
    \/ Quiet
    \/ AuthorityWrite /\ UNCHANGED <<registered, projects>>
    \/ \E q : ArchiveProject(q) \/ DeleteProject(q)
    \/ \E q, seen, action : RepairProject(q, seen, action)
    \/ \E q, initial : \E p \in Projects : AddProject(q, initial, p)

\* Every step is one of them or leaves this data alone.
LEMMA NextData == [Next]_vars => SharedWrite
<1> SUFFICES ASSUME [Next]_vars PROVE SharedWrite
  OBVIOUS
<1>1. ASSUME NEW d \in Daemons, MigrateInTransaction(d) PROVE SharedWrite
  BY <1>1 DEF MigrateInTransaction, SharedWrite, AuthorityWrite, Quiet, QuietRows, sharedVars,
              authorityVars, registryVars
<1>2. ASSUME NEW d \in Daemons, applyProjectDeleteCapabilityMigration(d) PROVE SharedWrite
  BY <1>2 DEF applyProjectDeleteCapabilityMigration, SharedWrite, AuthorityWrite, registryVars
<1>3. ASSUME NEW h \in Handlers, RequestStep(h) PROVE SharedWrite
  <2>1. CASE TransactAuthority(h)
    <3>1. AuthorityWrite
      BY <2>1 DEF TransactAuthority, AuthorityWrite
    <3>2. UNCHANGED <<registered, projects>>
      BY <2>1 DEF TransactAuthority, registryVars
    <3>3. QED
      BY <3>1, <3>2 DEF SharedWrite
  <2>2. CASE TransactProject(h)
    BY <2>2 DEF TransactProject, SharedWrite
  <2>3. CASE InsertProject(h)
    BY <2>3 DEF InsertProject, SharedWrite
  <2>4. CASE UpdateProject(h)
    BY <2>4 DEF UpdateProject, SharedWrite
  <2>5. CASE Gate(h) \/ Preflight(h) \/ ReadProject(h) \/ Abort(h)
    BY <2>5 DEF Gate, Preflight, ReadProject, Abort, SharedWrite, Quiet, QuietRows,
                sharedVars, dataVars, authorityVars, registryVars
  <2>6. CASE JobStep(h)
    BY <2>6, JobStepData DEF SharedWrite
  <2>7. QED
    BY <1>3, <2>1, <2>2, <2>3, <2>4, <2>5, <2>6 DEF RequestStep
<1>4. ASSUME NEW h \in Handlers, Call(h) PROVE SharedWrite
  BY <1>4 DEF Call, SharedWrite, Quiet, QuietRows, sharedVars, dataVars, authorityVars, registryVars
<1>5. CASE Outside \/ RepositoryLost
  BY <1>5 DEF Outside, RepositoryLost, SourceMoves, AdvanceCanonical, LoseRepository, SharedWrite,
              Quiet, QuietRows, sharedVars, authorityVars, registryRowVars
<1>6. CASE UNCHANGED vars
  BY <1>6 DEF vars, SharedWrite, Quiet, QuietRows, sharedVars, authorityVars, registryVars
<1>7. ASSUME NEW d \in Daemons,
             DaemonStep(d) \/ Start(d) \/ StartFails(d) \/ Degraded(d) \/ Healthy(d) \/ Stop(d)
                \/ Crash(d)
      PROVE  SharedWrite
  BY <1>1, <1>2, <1>7, DaemonStepData DEF SharedWrite
<1>8. QED
  BY <1>3, <1>4, <1>5, <1>6, <1>7 DEF Next

----------------------------------------------------------------------------
\* Every registration is on record as answered: the reason why a second call
\* under the same request id, which passed the look-up before the first one
\* committed, inserts nothing.
RegistrationInv ==
    /\ OneProjectPerRequest
    /\ \A a \in registered : Answered("project.add", a.key) # {}

\* Answers are never forgotten, and only AddProject registers.
LEMMA RegistrationStep == RegistrationInv /\ [Next]_vars => RegistrationInv'
<1> SUFFICES ASSUME RegistrationInv, SharedWrite PROVE RegistrationInv'
  BY NextData
<1>1. ASSUME registered' = registered, dedupes \subseteq dedupes' PROVE RegistrationInv'
  BY <1>1 DEF RegistrationInv, OneProjectPerRequest, Answered
<1>2. CASE Quiet
  BY <1>1, <1>2 DEF Quiet, sharedVars
<1>3. CASE AuthorityWrite /\ UNCHANGED <<registered, projects>>
  BY <1>1, <1>3 DEF AuthorityWrite, SeedParticipants, GrantOwnerRole, CreateRole, UpdateRole,
     DeleteRole, BindParticipantRole, UnbindParticipantRole, AddCredential, RotateCredential,
     RevokeCredential, Record
<1>4. CASE \E q : ArchiveProject(q) \/ DeleteProject(q)
  BY <1>1, <1>4 DEF ArchiveProject, DeleteProject, Record, authorityVars
<1>5. CASE \E q, seen, action : RepairProject(q, seen, action)
  BY <1>1, <1>5 DEF RepairProject, Record
<1>6. ASSUME NEW q, NEW initial, NEW p \in Projects, AddProject(q, initial, p) PROVE RegistrationInv'
  <2>1. /\ Answered("project.add", q.key) = {}
        /\ registered' = registered \cup {[key |-> q.key, project |-> p]}
        /\ dedupes' = dedupes \cup {[op |-> "project.add", key |-> q.key, id |-> p]}
    BY <1>6 DEF AddProject, Record
  <2>2. \A a \in registered : a.key # q.key
    BY <2>1 DEF RegistrationInv
  <2>3. OneProjectPerRequest'
    BY <2>1, <2>2 DEF RegistrationInv, OneProjectPerRequest
  <2>4. (\A a \in registered : Answered("project.add", a.key) # {})'
    <3>1. ASSUME NEW a \in registered PROVE Answered("project.add", a.key)' # {}
      BY <2>1 DEF RegistrationInv, Answered
    <3>2. [op |-> "project.add", key |-> q.key, id |-> p] \in Answered("project.add", q.key)'
      BY <2>1 DEF Answered
    <3>3. QED
      BY <2>1, <3>1, <3>2
  <2>5. QED
    BY <2>3, <2>4 DEF RegistrationInv
<1>7. QED
  BY <1>2, <1>3, <1>4, <1>5, <1>6 DEF SharedWrite

\* AddProject registers at most one project under a request id, however often
\* and however concurrently the request is sent.
THEOREM RequestOnce == Spec => []OneProjectPerRequest
<1>1. Init => RegistrationInv
  BY DEF Init, RegistryInit, RegistrationInv, OneProjectPerRequest
<1>2. RegistrationInv => OneProjectPerRequest
  BY DEF RegistrationInv
<1>3. QED
  BY <1>1, <1>2, RegistrationStep, PTL DEF Spec

----------------------------------------------------------------------------
\* Credential rows are records: what a column update leaves alone, it keeps.
CredentialRow(row) == row = [of |-> row.of, secret |-> row.secret, status |-> row.status]

CredentialInv ==
    /\ credentials = [c \in CredentialIds |-> credentials[c]]
    /\ \A c \in CredentialIds : CredentialRow(credentials[c])
    /\ pinned = [w \in Participants |-> pinned[w]]
    /\ OneActiveCredential

\* A new credential next to rows that leave its owner no active one.
LEMMA IssueKeeps ==
    ASSUME NEW rows, NEW q,
           rows = [c \in CredentialIds |-> rows[c]],
           \A c \in CredentialIds : CredentialRow(rows[c]),
           pinned = [w \in Participants |-> pinned[w]],
           \A c \in CredentialIds : rows[c].status = "active" /\ rows[c].of \in Participants =>
              rows[c].of # q.who /\ c = pinned[rows[c].of],
           issueCredential(rows, q)
    PROVE  CredentialInv'
<1>1. PICK n \in CredentialIds :
        /\ credentials' = [rows EXCEPT ![n] = [of |-> q.who, secret |-> q.secret, status |-> "active"]]
        /\ pinned' = [pinned EXCEPT ![q.who] = n]
  BY DEF issueCredential
<1>2. \A c \in CredentialIds : credentials'[c] =
        IF c = n THEN [of |-> q.who, secret |-> q.secret, status |-> "active"] ELSE rows[c]
  BY <1>1
<1>3. \A w \in Participants : pinned'[w] = IF w = q.who THEN n ELSE pinned[w]
  BY <1>1
<1>4. /\ credentials' = [c \in CredentialIds |-> credentials'[c]]
      /\ pinned' = [w \in Participants |-> pinned'[w]]
  BY <1>1
<1>5. \A c \in CredentialIds : CredentialRow(credentials'[c])
  BY <1>2 DEF CredentialRow
<1>6. OneActiveCredential'
  <2>1. SUFFICES ASSUME NEW w \in Participants, NEW c \in CredentialIds,
                        credentials'[c].of = w, credentials'[c].status = "active"
                 PROVE  c = pinned'[w]
    BY DEF OneActiveCredential, ActiveOf, CredentialsOf
  <2>2. CASE c = n
    BY <1>2, <1>3, <2>1, <2>2
  <2>3. CASE c # n
    BY <1>2, <1>3, <2>1, <2>3
  <2>4. QED
    BY <2>2, <2>3
<1>7. QED
  BY <1>4, <1>5, <1>6 DEF CredentialInv

\* Revoking an active credential keeps the invariant's facts and leaves its
\* owner none.
LEMMA RevokedRows ==
    ASSUME CredentialInv, NEW who, NEW c \in ActiveOf(who)
    PROVE  /\ Revoked(c) = [n \in CredentialIds |-> Revoked(c)[n]]
           /\ \A n \in CredentialIds : CredentialRow(Revoked(c)[n])
           /\ \A n \in CredentialIds : Revoked(c)[n].status = "active" =>
                 /\ n # c /\ Revoked(c)[n] = credentials[n]
                 /\ credentials[n].of \in Participants => n = pinned[credentials[n].of]
<1>1. c \in CredentialIds /\ credentials[c].of = who /\ credentials[c].status = "active"
  BY DEF ActiveOf, CredentialsOf
<1>2. \A n \in CredentialIds : Revoked(c)[n] =
        IF n = c THEN [of |-> credentials[c].of, secret |-> credentials[c].secret, status |-> "revoked"]
        ELSE credentials[n]
  BY <1>1 DEF CredentialInv, CredentialRow, Revoked
<1>3. Revoked(c) = [n \in CredentialIds |-> Revoked(c)[n]]
  BY DEF CredentialInv, Revoked
<1>4. \A n \in CredentialIds : CredentialRow(Revoked(c)[n])
  BY <1>2 DEF CredentialInv, CredentialRow
<1>5. \A n \in CredentialIds :
        credentials[n].status = "active" /\ credentials[n].of \in Participants
           => n = pinned[credentials[n].of]
  BY DEF CredentialInv, OneActiveCredential, ActiveOf, CredentialsOf
<1>6. QED
  BY <1>2, <1>3, <1>4, <1>5

\* Every write keeps at most one active credential per participant.
LEMMA CredentialStep == CredentialInv /\ [Next]_vars => CredentialInv'
<1> SUFFICES ASSUME CredentialInv, SharedWrite PROVE CredentialInv'
  BY NextData
<1>1. ASSUME credentials' = credentials, pinned' = pinned PROVE CredentialInv'
  BY <1>1 DEF CredentialInv, OneActiveCredential, ActiveOf, CredentialsOf
<1>2. \A n \in CredentialIds :
        credentials[n].status = "active" /\ credentials[n].of \in Participants
           => n = pinned[credentials[n].of]
  BY DEF CredentialInv, OneActiveCredential, ActiveOf, CredentialsOf
<1>3. ASSUME NEW q, AddCredential(q) PROVE CredentialInv'
  <2>1. issueCredential(credentials, q) /\ ActiveOf(q.who) = {}
    BY <1>3 DEF AddCredential
  <2>2. \A c \in CredentialIds : credentials[c].status = "active" => credentials[c].of # q.who
    BY <2>1 DEF ActiveOf, CredentialsOf
  <2>3. QED
    BY <1>2, <2>1, <2>2, IssueKeeps DEF CredentialInv
<1>4. ASSUME NEW q, RotateCredential(q) PROVE CredentialInv'
  <2>1. PICK c \in ActiveOf(q.who) : issueCredential(Revoked(c), q)
    BY <1>4 DEF RotateCredential
  <2>2. c \in CredentialIds /\ credentials[c].of = q.who /\ credentials[c].status = "active"
    BY DEF ActiveOf, CredentialsOf
  <2>3. ASSUME NEW n \in CredentialIds, Revoked(c)[n].status = "active",
               Revoked(c)[n].of \in Participants
        PROVE  Revoked(c)[n].of # q.who /\ n = pinned[Revoked(c)[n].of]
    BY <1>2, <2>2, <2>3, RevokedRows
  <2>4. QED
    BY <2>1, <2>3, RevokedRows, IssueKeeps DEF CredentialInv
<1>5. ASSUME NEW q, RevokeCredential(q) PROVE CredentialInv'
  <2>1. PICK c \in ActiveOf(q.who) : credentials' = Revoked(c)
    BY <1>5 DEF RevokeCredential
  <2>2. pinned' = pinned
    BY <1>5 DEF RevokeCredential
  <2>3. OneActiveCredential'
    BY <2>1, <2>2, RevokedRows DEF OneActiveCredential, ActiveOf, CredentialsOf
  <2>4. QED
    BY <2>1, <2>2, <2>3, RevokedRows DEF CredentialInv
<1>6. CASE AuthorityWrite
  BY <1>1, <1>3, <1>4, <1>5, <1>6 DEF AuthorityWrite, SeedParticipants, GrantOwnerRole, CreateRole,
     UpdateRole, DeleteRole, BindParticipantRole, UnbindParticipantRole
<1>7. QED
  BY <1>1, <1>6 DEF SharedWrite, Quiet, sharedVars, ArchiveProject, DeleteProject, RepairProject, AddProject,
     authorityVars

\* A participant never has two active credentials, and the active one is the
\* one its row names, in any order of additions, rotations and revocations.
LEMMA CredentialUnique == Spec => []OneActiveCredential
<1>1. Init => CredentialInv
  <2>1. SUFFICES ASSUME Init PROVE CredentialInv
    OBVIOUS
  <2>2. /\ credentials = [c \in CredentialIds |-> [of |-> None, secret |-> None, status |-> "unused"]]
        /\ pinned = [w \in Participants |-> None]
    BY <2>1 DEF Init, NoCredential
  <2>3. QED
    BY <2>2 DEF CredentialInv, CredentialRow, OneActiveCredential, ActiveOf, CredentialsOf
<1>2. CredentialInv => OneActiveCredential
  BY DEF CredentialInv
<1>3. QED
  BY <1>1, <1>2, CredentialStep, PTL DEF Spec

----------------------------------------------------------------------------
\* A participant holds the capability to manage through a global binding.
LEMMA HoldersAre ==
    participantManageHolders =
        {w \in Participants : \E b \in bindings : b.who = w /\ b.scope = Global
                                  /\ "participant.manage" \in roles[b.role].caps}
BY DEF participantManageHolders, EffectiveCapabilities

\* Global bindings that stay keep their holders.
LEMMA HoldersStay ==
    ASSUME roles' = roles, \A b \in bindings : b.scope = Global => b \in bindings'
    PROVE  participantManageHolders \subseteq participantManageHolders'
BY HoldersAre DEF participantManageHolders, EffectiveCapabilities

\* UnbindParticipantRole leaves a holder: another participant, or the same one
\* through another binding.
LEMMA UnbindLeaves ==
    ASSUME NEW q, UnbindParticipantRole(q), participantManageHolders # {}
    PROVE  participantManageHolders' # {}
<1> DEFINE gone == [who |-> q.who, scope |-> q.scope, role |-> q.role]
<1>1. /\ bindings' = bindings \ {gone} /\ roles' = roles /\ ~LastHolder(q)
  BY DEF UnbindParticipantRole
<1>2. ASSUME NEW w \in Participants, NEW b \in bindings, b # gone, b.who = w, b.scope = Global,
             "participant.manage" \in roles[b.role].caps
      PROVE  participantManageHolders' # {}
  <2>1. b \in bindings'
    BY <1>1, <1>2
  <2>2. w \in participantManageHolders'
    BY <1>1, <1>2, <2>1 DEF participantManageHolders, EffectiveCapabilities
  <2>3. QED
    BY <2>2
<1>3. CASE q.scope # Global \/ "participant.manage" \notin roles[q.role].caps
  <2>1. PICK w \in Participants, b \in bindings :
           b.who = w /\ b.scope = Global /\ "participant.manage" \in roles[b.role].caps
    BY HoldersAre
  <2>2. b # gone
    BY <1>3, <2>1
  <2>3. QED
    BY <1>2, <2>1, <2>2
<1>4. CASE participantManageHolders # {q.who}
  <2>1. PICK w \in participantManageHolders : w # q.who
    BY <1>4
  <2>2. PICK b \in bindings :
           b.who = w /\ b.scope = Global /\ "participant.manage" \in roles[b.role].caps
    BY <2>1, HoldersAre
  <2>3. w \in Participants /\ b # gone
    BY <2>1, <2>2, HoldersAre
  <2>4. QED
    BY <1>2, <2>2, <2>3
<1>5. CASE /\ participantManageHolders = {q.who}
           /\ participantRetainsGlobalCapability(q.who, q.role, "participant.manage")
  <2>1. PICK b \in bindings : /\ b.who = q.who /\ b.scope = Global /\ b.role # q.role
                              /\ "participant.manage" \in roles[b.role].caps
    BY <1>5 DEF participantRetainsGlobalCapability
  <2>2. q.who \in Participants
    BY <1>5 DEF participantManageHolders
  <2>3. QED
    BY <1>2, <2>1, <2>2
<1>6. QED
  BY <1>1, <1>3, <1>4, <1>5 DEF LastHolder

\* No step but the update of a role takes the last holder of participant.manage
\* away: not unbinding, not the deletion of a role or a project, not a start.
THEOREM HolderKept == Spec => UnbindKeepsHolder
<1>1. ASSUME SharedWrite, roles' = roles, participantManageHolders # {}
      PROVE  participantManageHolders' # {}
  <2>1. ASSUME NEW q, DeleteProject(q) PROVE \A b \in bindings : b.scope = Global => b \in bindings'
    <3>1. q.project # Global
      BY <2>1, AuthorityAssumption DEF DeleteProject, Rows
    <3>2. QED
      BY <2>1, <3>1 DEF DeleteProject, BindingsOutside
  <2>2. ASSUME NEW q, UnbindParticipantRole(q) PROVE participantManageHolders' # {}
    BY <1>1, <2>2, UnbindLeaves
  <2>3. CASE AuthorityWrite
    BY <1>1, <2>2, <2>3, HoldersStay DEF AuthorityWrite, SeedParticipants, GrantOwnerRole, CreateRole,
       UpdateRole, DeleteRole, BindParticipantRole, AddCredential, RotateCredential, RevokeCredential
  <2>4. CASE \E q, initial : \E p \in Projects : AddProject(q, initial, p)
    BY <1>1, <2>4, HoldersStay DEF AddProject
  <2>5. CASE Quiet \/ \E q, seen, action : RepairProject(q, seen, action)
    BY <1>1, <2>5, HoldersStay DEF Quiet, sharedVars, RepairProject
  <2>6. CASE \E q : ArchiveProject(q) \/ DeleteProject(q)
    BY <1>1, <2>1, <2>6, HoldersStay DEF ArchiveProject, authorityVars
  <2>7. QED
    BY <1>1, <2>3, <2>4, <2>5, <2>6 DEF SharedWrite
<1>2. [Next]_vars => [roles' = roles /\ participantManageHolders # {}
                         => participantManageHolders' # {}]_vars
  BY <1>1, NextData
<1>3. QED
  BY <1>2, PTL DEF Spec, UnbindKeepsHolder

----------------------------------------------------------------------------
\* Role rows have a state and project rows a status.
RoleRow(row) == "state" \in DOMAIN row

ProjectRow(row) == "status" \in DOMAIN row

ProjectTable ==
    /\ projects = [p \in Projects |-> projects[p]]
    /\ \A p \in Projects : ProjectRow(projects[p])

RoleTable ==
    /\ roles = [r \in RoleIds |-> roles[r]]
    /\ \A r \in RoleIds : RoleRow(roles[r])

BindingInv == RoleTable /\ ProjectTable /\ BindingsLive

Gone == {"none", "deleted"}

\* Writing a role's row decides about that role only.
LEMMA RoleWritten ==
    ASSUME RoleTable, NEW r \in RoleIds, NEW row, RoleRow(row), roles' = [roles EXCEPT ![r] = row]
    PROVE  /\ RoleTable'
           /\ LiveRoles \ {r} \subseteq LiveRoles'
           /\ row.state = "live" => r \in LiveRoles'
<1>1. \A n \in RoleIds : roles'[n] = IF n = r THEN row ELSE roles[n]
  BY DEF RoleTable
<1>2. roles' = [n \in RoleIds |-> roles'[n]]
  BY DEF RoleTable
<1>3. QED
  BY <1>1, <1>2 DEF RoleTable, LiveRoles

\* A row that is written and not deleted stays among the rows.
LEMMA RowWritten ==
    ASSUME ProjectTable, NEW t, NEW new, projects' = [projects EXCEPT ![t] = new],
           t \in Projects => ProjectRow(new) /\ new.status \notin Gone
    PROVE  ProjectTable' /\ Rows \subseteq Rows' /\ (t \in Projects => t \in Rows')
<1>1. \A p \in Projects : projects'[p] = IF p = t THEN new ELSE projects[p]
  BY DEF ProjectTable
<1>2. projects' = [p \in Projects |-> projects'[p]]
  BY DEF ProjectTable
<1>3. QED
  BY <1>1, <1>2 DEF ProjectTable, Rows, Gone

\* The end of an action moves a project's row and deletes none.
LEMMA FinishKeepsRows ==
    ASSUME ProjectTable, NEW j, NEW ok, finishProjectAction(j, ok)
    PROVE  ProjectTable' /\ Rows \subseteq Rows'
<1> DEFINE row == projects[j.project]
           new == [row EXCEPT !.status = IF ok THEN "active" ELSE "error",
                              !.canonical = IF ok THEN j.fact ELSE @,
                              !.action = "", !.op = NoOp, !.version = @ + 1]
<1>1. projects' = [projects EXCEPT ![j.project] = new]
  BY DEF finishProjectAction
<1>2. ASSUME j.project \in Projects PROVE ProjectRow(new) /\ new.status \notin Gone
  BY <1>2 DEF ProjectTable, ProjectRow, Gone
<1>3. QED
  BY <1>1, <1>2, RowWritten

\* So does the verification of an active project at a start.
LEMMA VerificationKeepsRows ==
    ASSUME ProjectTable, NEW p, NEW ok, finishActiveVerification(p, ok)
    PROVE  ProjectTable' /\ Rows \subseteq Rows'
<1> DEFINE row == projects[p]
           failed == [row EXCEPT !.status = "error", !.version = @ + 1]
           moved == [row EXCEPT !.canonical = finals[p].canonical, !.version = @ + 1]
           new == IF ~ok THEN failed ELSE IF row.canonical = finals[p].canonical THEN row ELSE moved
<1>1. projects' = [projects EXCEPT ![p] = new] /\ row.status = "active"
  BY DEF finishActiveVerification
<1>2. ASSUME p \in Projects PROVE ProjectRow(new) /\ new.status \notin Gone
  <2>1. ProjectRow(row)
    BY <1>2 DEF ProjectTable
  <2>2. ProjectRow(failed) /\ failed.status = "error"
    BY <2>1 DEF ProjectRow
  <2>3. ProjectRow(moved) /\ moved.status = "active"
    BY <1>1, <2>1 DEF ProjectRow
  <2>4. QED
    BY <1>1, <2>1, <2>2, <2>3 DEF Gone
<1>3. QED
  BY <1>1, <1>2, RowWritten

\* Bindings that are added, if any, name live roles and projects.
LEMMA BindingsGrow ==
    ASSUME BindingsLive, LiveRoles \subseteq LiveRoles', Rows \subseteq Rows',
           \A b \in bindings' \ bindings :
              b.role \in LiveRoles' /\ (b.scope = Global \/ b.scope \in Rows')
    PROVE  BindingsLive'
BY DEF BindingsLive

\* Permissions change: a role is deleted only unbound and bound only while it
\* exists.
LEMMA AuthorityWriteBindings ==
    ASSUME BindingInv, AuthorityWrite, projects' = projects
    PROVE  BindingInv'
<1>1. ProjectTable' /\ Rows' = Rows
  BY DEF BindingInv, ProjectTable, Rows
<1>2. ASSUME roles' = roles PROVE RoleTable' /\ LiveRoles' = LiveRoles
  BY <1>2 DEF BindingInv, RoleTable, LiveRoles
<1>3. RoleTable
  BY DEF BindingInv
<1>4. CASE SeedParticipants(AllCapabilities)
  <2> DEFINE row == [state |-> "live", name |-> OwnerName, caps |-> AllCapabilities]
  <2>1. RoleRow(row) /\ row.state = "live" /\ OwnerRole \in RoleIds
    BY AuthorityAssumption DEF RoleRow
  <2>2. roles' = [roles EXCEPT ![OwnerRole] = row]
    BY <1>4 DEF SeedParticipants
  <2> HIDE DEF row
  <2>3. RoleTable' /\ LiveRoles \subseteq LiveRoles' /\ OwnerRole \in LiveRoles'
    BY <1>3, <2>1, <2>2, RoleWritten
  <2>4. BindingsLive'
    BY <1>1, <1>4, <2>3, BindingsGrow DEF SeedParticipants, BindingInv
  <2>5. QED
    BY <1>1, <2>3, <2>4 DEF BindingInv
<1>5. CASE GrantOwnerRole
  <2> DEFINE row == [roles[OwnerRole] EXCEPT !.caps = AllCapabilities]
  <2>1. /\ OwnerRole \in RoleIds /\ RoleRow(row)
        /\ OwnerRole \in LiveRoles => row.state = "live"
    BY AuthorityAssumption DEF BindingInv, RoleTable, RoleRow, LiveRoles
  <2>2. roles' = [roles EXCEPT ![OwnerRole] = row]
    BY <1>5 DEF GrantOwnerRole
  <2> HIDE DEF row
  <2>3. RoleTable' /\ LiveRoles \subseteq LiveRoles'
    BY <1>3, <2>1, <2>2, RoleWritten
  <2>4. QED
    BY <1>1, <1>5, <2>3, BindingsGrow DEF BindingInv, GrantOwnerRole
<1>6. ASSUME NEW q, CreateRole(q) PROVE BindingInv'
  <2> DEFINE row == [state |-> "live", name |-> q.name, caps |-> q.caps]
  <2>1. PICK r \in RoleIds : roles' = [roles EXCEPT ![r] = row]
    BY <1>6 DEF CreateRole
  <2>2. RoleRow(row) /\ row.state = "live"
    BY DEF RoleRow
  <2> HIDE DEF row
  <2>3. RoleTable' /\ LiveRoles \subseteq LiveRoles'
    BY <1>3, <2>1, <2>2, RoleWritten
  <2>4. QED
    BY <1>1, <1>6, <2>3, BindingsGrow DEF BindingInv, CreateRole
<1>7. ASSUME NEW q, UpdateRole(q) PROVE BindingInv'
  <2> DEFINE row == [roles[q.role] EXCEPT !.name = q.name, !.caps = q.caps]
  <2>1. q.role \in RoleIds /\ RoleRow(row) /\ row.state = "live"
    BY <1>7 DEF UpdateRole, LiveRoles, BindingInv, RoleTable, RoleRow
  <2>2. roles' = [roles EXCEPT ![q.role] = row]
    BY <1>7 DEF UpdateRole
  <2> HIDE DEF row
  <2>3. RoleTable' /\ LiveRoles \subseteq LiveRoles'
    BY <1>3, <2>1, <2>2, RoleWritten
  <2>4. QED
    BY <1>1, <1>7, <2>3, BindingsGrow DEF BindingInv, UpdateRole
<1>8. ASSUME NEW q, DeleteRole(q) PROVE BindingInv'
  <2> DEFINE row == [state |-> "deleted", name |-> None, caps |-> {}]
  <2>1. q.role \in RoleIds /\ roles' = [roles EXCEPT ![q.role] = row]
    BY <1>8 DEF DeleteRole, LiveRoles
  <2>2. RoleRow(row)
    BY DEF RoleRow
  <2> HIDE DEF row
  <2>3. RoleTable' /\ LiveRoles \ {q.role} \subseteq LiveRoles'
    BY <1>3, <2>1, <2>2, RoleWritten
  <2>4. BindingsLive'
    BY <1>1, <1>8, <2>3 DEF DeleteRole, BindingInv, BindingsLive
  <2>5. QED
    BY <1>1, <2>3, <2>4 DEF BindingInv
<1>9. ASSUME NEW q, BindParticipantRole(q, q.scope \in Rows) PROVE BindingInv'
  BY <1>1, <1>2, <1>9, BindingsGrow DEF BindParticipantRole, BindingInv
<1>10. ASSUME NEW q, UnbindParticipantRole(q) PROVE BindingInv'
  BY <1>1, <1>2, <1>10, BindingsGrow DEF UnbindParticipantRole, BindingInv
<1>11. ASSUME NEW q, AddCredential(q) \/ RotateCredential(q) \/ RevokeCredential(q) PROVE BindingInv'
  BY <1>1, <1>2, <1>11, BindingsGrow
     DEF AddCredential, RotateCredential, RevokeCredential, BindingInv
<1>12. QED
  BY <1>4, <1>5, <1>6, <1>7, <1>8, <1>9, <1>10, <1>11 DEF AuthorityWrite

\* Projects come with the operator's bindings and take their own with them.
LEMMA BindingStep == BindingInv /\ [Next]_vars => BindingInv'
<1> SUFFICES ASSUME BindingInv, SharedWrite PROVE BindingInv'
  BY NextData
<1>1. ASSUME ProjectTable', Rows \subseteq Rows', roles' = roles, bindings' = bindings
      PROVE  BindingInv'
  <2>1. RoleTable' /\ LiveRoles' = LiveRoles
    BY <1>1 DEF BindingInv, RoleTable, LiveRoles
  <2>2. QED
    BY <1>1, <2>1, BindingsGrow DEF BindingInv
<1>2. ProjectTable
  BY DEF BindingInv
<1>3. CASE Quiet
  <2>1. ProjectTable' /\ Rows \subseteq Rows'
    <3>1. CASE projects' = projects
      BY <1>2, <3>1 DEF ProjectTable, Rows
    <3>2. QED
      BY <1>2, <1>3, <3>1, FinishKeepsRows, VerificationKeepsRows DEF Quiet, QuietRows
  <2>2. QED
    BY <1>1, <1>3, <2>1 DEF Quiet, sharedVars
<1>4. CASE AuthorityWrite /\ UNCHANGED <<registered, projects>>
  BY <1>4, AuthorityWriteBindings
<1>5. ASSUME NEW q, ArchiveProject(q) PROVE BindingInv'
  <2> DEFINE row == [projects[q.project] EXCEPT !.status = "archived", !.version = @ + 1]
  <2>1. projects' = [projects EXCEPT ![q.project] = row]
    BY <1>2, <1>5 DEF ArchiveProject, ProjectTable, Rows
  <2>2. q.project \in Projects => ProjectRow(row) /\ row.status \notin Gone
    BY <1>2 DEF ProjectTable, ProjectRow, Gone
  <2> HIDE DEF row
  <2>3. ProjectTable' /\ Rows \subseteq Rows'
    BY <1>2, <2>1, <2>2, RowWritten
  <2>4. QED
    BY <1>1, <1>5, <2>3 DEF ArchiveProject, authorityVars
<1>6. ASSUME NEW q, NEW seen, NEW action, RepairProject(q, seen, action) PROVE BindingInv'
  <2> DEFINE row == [status |-> "creating", name |-> seen.name, action |-> action, op |-> lastOp + 1,
                     initial |-> seen.initial, canonical |-> seen.canonical,
                     version |-> seen.version + 1]
  <2>1. projects' = [projects EXCEPT ![q.project] = row]
    BY <1>6 DEF RepairProject
  <2>2. ProjectRow(row) /\ row.status \notin Gone
    BY DEF ProjectRow, Gone
  <2> HIDE DEF row
  <2>3. ProjectTable' /\ Rows \subseteq Rows'
    BY <1>2, <2>1, <2>2, RowWritten
  <2>4. QED
    BY <1>1, <1>6, <2>3 DEF RepairProject
<1>7. ASSUME NEW q, NEW initial, NEW p \in Projects, AddProject(q, initial, p) PROVE BindingInv'
  <2> DEFINE row == [status |-> "creating", name |-> q.name, action |-> "initialize",
                     op |-> lastOp + 1, initial |-> initial, canonical |-> NoCommit, version |-> 1]
  <2>1. projects' = [projects EXCEPT ![p] = row]
    BY <1>7 DEF AddProject
  <2>2. ProjectRow(row) /\ row.status \notin Gone
    BY DEF ProjectRow, Gone
  <2> HIDE DEF row
  <2>3. ProjectTable' /\ Rows \subseteq Rows' /\ p \in Rows'
    BY <1>2, <2>1, <2>2, RowWritten
  <2>4. RoleTable' /\ LiveRoles' = LiveRoles
    BY <1>7 DEF AddProject, BindingInv, RoleTable, LiveRoles
  <2>5. BindingsLive'
    BY <1>7, <2>3, <2>4, BindingsGrow DEF AddProject, OperatorBindingsFor, BindingInv, BindingsLive
  <2>6. QED
    BY <2>3, <2>4, <2>5 DEF BindingInv
<1>8. ASSUME NEW q, DeleteProject(q) PROVE BindingInv'
  <2> DEFINE row == [NoProject EXCEPT !.status = "deleted"]
  <2>1. projects' = [projects EXCEPT ![q.project] = row] /\ roles' = roles
    BY <1>8 DEF DeleteProject
  <2>2. ProjectRow(row)
    BY DEF ProjectRow, NoProject
  <2> HIDE DEF row
  <2>3. \A p \in Projects : projects'[p] = IF p = q.project THEN row ELSE projects[p]
    BY <1>2, <2>1 DEF ProjectTable
  <2>4. ProjectTable'
    BY <1>2, <2>1, <2>2, <2>3 DEF ProjectTable
  <2>5. Rows \ {q.project} \subseteq Rows'
    BY <2>3 DEF Rows
  <2>6. RoleTable' /\ LiveRoles' = LiveRoles
    BY <2>1 DEF BindingInv, RoleTable, LiveRoles
  <2>7. BindingsLive'
    BY <1>8, <2>5, <2>6 DEF DeleteProject, BindingsOutside, BindingInv, BindingsLive
  <2>8. QED
    BY <2>4, <2>6, <2>7 DEF BindingInv
<1>9. QED
  BY <1>3, <1>4, <1>5, <1>6, <1>7, <1>8 DEF SharedWrite

\* Bindings name roles and projects that exist, although DeleteRole looks only
\* at bindings and DeleteProject only at its own scope.
LEMMA BindingsNameRows == Spec => []BindingsLive
<1>1. Init => BindingInv
  <2>1. SUFFICES ASSUME Init PROVE BindingInv
    OBVIOUS
  <2>2. PICK v \in load.versions :
          /\ roles = SeededRoles(v)
          /\ bindings = IF v < 3 THEN {}
                        ELSE {[who |-> Owner, scope |-> Global, role |-> OwnerRole]}
    BY <2>1 DEF Init
  <2>3. v \in 0..SchemaVersion
    BY <2>1, ControlPlaneAssumption DEF Init
  <2>4. projects = [p \in Projects |-> NoProject]
    BY <2>1 DEF Init, RegistryInit
  <2>5. ProjectTable
    BY <2>4 DEF ProjectTable, ProjectRow, NoProject
  <2>6. RoleTable /\ (v >= 3 => OwnerRole \in LiveRoles)
    BY <2>2, AuthorityAssumption DEF RoleTable, RoleRow, SeededRoles, NoRole, LiveRoles
  <2>7. BindingsLive
    BY <2>2, <2>3, <2>6 DEF BindingsLive, SchemaVersion
  <2>8. QED
    BY <2>5, <2>6, <2>7 DEF BindingInv
<1>2. BindingInv => BindingsLive
  BY DEF BindingInv
<1>3. QED
  BY <1>1, <1>2, BindingStep, PTL DEF Spec

\* Bindings name roles and projects that exist and the row of a participant its
\* only active credential, for any number of requests in any order.
THEOREM AuthorityKept == Spec => []AuthorityConsistent
<1>1. BindingsLive /\ OneActiveCredential => AuthorityConsistent
  BY DEF AuthorityConsistent
<1>2. QED
  BY <1>1, BindingsNameRows, CredentialUnique, PTL
=============================================================================
