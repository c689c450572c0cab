---------------------------- MODULE ControlPlane ----------------------------
(***************************************************************************)
(* The daemon process around the store, the authority and the project      *)
(* registry: the data directory lock, the start and stop order of the      *)
(* components (daemon/components.go, daemon/daemon.go, daemon/lock.go),    *)
(* the operator socket (transport/unix.go) and the operator requests it    *)
(* serves (transport/handler.go), each in the steps its handler takes.     *)
(*                                                                         *)
(* Several processes may be started on one data directory; any of them may *)
(* die at any step.  A handler is not waited for when its server closes:   *)
(* it may still touch files until the process exits.                       *)
(***************************************************************************)
EXTENDS StoreSchema, ProjectRegistry

CONSTANTS Daemons,     \* processes started on the data directory
          Handlers,    \* request handlers that run at the same time
          Workloads    \* what happens from outside in one behaviour: the
                       \* versions and the legacy state the database may
                       \* start with, the processes started, the requests
                       \* clients may send, to how many handlers and how
                       \* often, and how many deaths, stops, outages of
                       \* Docker and lost repositories there are at most

Limits == {"calls", "crashes", "stops", "outages", "losses"}

\* What a request names exists in the model; every other one is refused.
Named(q) ==
    /\ q.op \in {"project.repair", "project.archive", "project.delete"} => q.project \in Projects
    /\ q.op = "role.bind" => q.who \in Participants /\ q.scope \in Scopes

ASSUME ControlPlaneAssumption ==
    /\ Daemons \cap Handlers = {}
    /\ None \notin Daemons \cup Handlers
    /\ \A l \in Workloads : /\ l.versions \subseteq 0..SchemaVersion
                            /\ l.daemons \subseteq Daemons /\ l.handlers \subseteq Handlers
                            /\ l.limits \in [Limits -> Nat]
                            /\ \A q \in l.requests : Named(q)

VARIABLES phase,    \* where each process is between start and exit
          todo,     \* projects a starting process has yet to verify
          socket,   \* the process whose socket file is at the path
          calls,    \* what each handler, and each starting process, is doing
          load,     \* the workload of this behaviour
          left      \* how much of it is left

planeVars == <<phase, todo, socket, calls, load, left>>
vars == <<planeVars, schemaVars, authorityVars, registryVars>>

Workers == Handlers \cup Daemons
Idle == [pc |-> "idle", at |-> None, q |-> None, seen |-> NoProject, job |-> NoJob]

Starting == {"open", "record5", "record6", "scan", "refuse", "reconcile", "verify", "listen"}
Listening == {"serving", "unready", "stopping"}
StoreOpen == Starting \cup Listening \cup {"draining"}
LockHeld == StoreOpen \cup {"closing"}
Ended == {"down", "failed"}

\* Database left by an earlier release, with what that release seeded.
SeededRoles(v) ==
    [r \in RoleIds |->
        IF r = OwnerRole /\ v >= 3
        THEN [state |-> "live", name |-> OwnerName,
              caps |-> IF v < 6 THEN OldCapabilities ELSE AllCapabilities]
        ELSE NoRole]

Init ==
    /\ load \in Workloads
    /\ left = load.limits
    /\ \E v \in load.versions :
          /\ objects = CanonicalObjects(v)
          /\ history = CanonicalHistory(v)
          /\ roles = SeededRoles(v)
          /\ bindings = IF v < 3 THEN {}
                        ELSE {[who |-> Owner, scope |-> Global, role |-> OwnerRole]}
    /\ legacy \in load.legacy
    /\ credentials = [c \in CredentialIds |-> NoCredential]
    /\ pinned = [w \in Participants |-> None]
    /\ dedupes = {}
    /\ RegistryInit
    /\ phase = [d \in Daemons |-> "down"]
    /\ todo = [d \in Daemons |-> {}]
    /\ socket = None
    /\ calls = [w \in Workers |-> Idle]

Become(d, new) == phase' = [phase EXCEPT ![d] = new]

\* The goroutines of a process end with it.
CallsWithout(d) == [w \in Workers |-> IF calls[w].at = d THEN Idle ELSE calls[w]]

Spend(kind) == left[kind] > 0 /\ left' = [left EXCEPT ![kind] = @ - 1]

dataVars == <<schemaVars, authorityVars, registryVars>>

----------------------------------------------------------------------------
(* Starting: buildComponents and Open.                                     *)

\* The read-only preflight, before the lock is taken.
Start(d) ==
    /\ d \in load.daemons
    /\ phase[d] \in Ended
    /\ Become(d, IF LegacyRefused THEN "failed" ELSE "lock")
    /\ UNCHANGED <<todo, socket, calls, load, left, dataVars>>

\* Mutant: the lock is opened and never tried.
LockUntested(d) ==
    /\ phase[d] = "lock"
    /\ Become(d, "open")
    /\ UNCHANGED <<todo, socket, calls, load, left, dataVars>>

\* flock(LOCK_EX | LOCK_NB): a second process does not wait.
AcquireDataDirLock(d) ==
    /\ phase[d] = "lock"
    /\ Become(d, IF \E e \in Daemons \ {d} : phase[e] \in LockHeld THEN "failed" ELSE "open")
    /\ UNCHANGED <<todo, socket, calls, load, left, dataVars>>

MigrateInTransaction(d) ==
    /\ phase[d] = "open"
    /\ ~LegacyRefused
    /\ \/ /\ CreateSchema \/ applyIsolationSpecMigration
             \/ applyHumanTaskLifecycleMigration \/ applyAgentRuntimeConfigMigration
          /\ UNCHANGED authorityVars
       \/ /\ applyParticipantRolesMigration
          /\ SeedParticipants(AllCapabilities)
    /\ UNCHANGED <<planeVars, registryVars>>

applyTaskBudgetMigration(d) ==
    /\ phase[d] = "open"
    /\ ~LegacyRefused
    /\ alterTaskBudget
    /\ Become(d, "record5")
    /\ UNCHANGED <<todo, socket, calls, load, left, authorityVars, registryVars>>

applyProjectDeleteCapabilityMigration(d) ==
    /\ phase[d] = "open"
    /\ ~LegacyRefused
    /\ ReadyFor(6)
    /\ GrantOwnerRole
    /\ Become(d, "record6")
    /\ UNCHANGED <<todo, socket, calls, load, left, schemaVars, registryVars>>

MigrationRecorded(d) ==
    /\ \/ phase[d] = "record5" /\ RecordMigration(5)
       \/ phase[d] = "record6" /\ RecordMigration(6)
    /\ Become(d, "open")
    /\ UNCHANGED <<todo, socket, calls, load, left, authorityVars, registryVars>>

\* store.Open returns a store at the current version, or none.
StoreOpened(d) ==
    /\ phase[d] = "open"
    /\ \/ LegacyRefused \/ SchemaRefused
       \/ MigrationVersion = SchemaVersion
    /\ Become(d, IF LegacyRefused \/ SchemaRefused THEN "failed" ELSE "scan")
    /\ UNCHANGED <<todo, socket, calls, load, left, dataVars>>

\* Unknown repositories are put away one by one; a start that had to put any
\* away ends, and asks for an inspection and another start.
QuarantineUnknown(d) ==
    /\ phase[d] \in {"scan", "refuse"}
    /\ \/ \E p \in Projects : QuarantineFinal(p)
       \/ \E o \in OpIds : QuarantinePartial(o)
    /\ Become(d, "refuse")
    /\ UNCHANGED <<todo, socket, calls, load, left, schemaVars>>

Scanned(d) ==
    /\ phase[d] \in {"scan", "refuse"}
    /\ ~UnknownRepositories
    /\ Become(d, IF phase[d] = "scan" THEN "reconcile" ELSE "failed")
    /\ UNCHANGED <<todo, socket, calls, load, left, dataVars>>

\* ReconcileProjects takes up the pending action of every creating project ...
ReconcileCreating(d) ==
    /\ phase[d] = "reconcile"
    /\ calls[d] = Idle
    /\ \E p \in RowsIn("creating") :
          calls' = [calls EXCEPT ![d] =
              [Idle EXCEPT !.pc = IF projects[p].action = "verify" THEN "verify" ELSE "init",
                           !.at = d, !.job = projectIntent(p, projects[p])]]
    /\ UNCHANGED <<phase, todo, socket, load, left, dataVars>>

\* ... and then verifies the active ones.
ReconciledCreating(d) ==
    /\ phase[d] = "reconcile"
    /\ calls[d] = Idle
    /\ RowsIn("creating") = {}
    /\ Become(d, "verify")
    /\ todo' = [todo EXCEPT ![d] = RowsIn("active")]
    /\ UNCHANGED <<socket, calls, load, left, dataVars>>

ReconcileActive(d) ==
    /\ phase[d] = "verify"
    /\ \E p \in todo[d] :
          /\ \/ RepositoryValid(p, projects[p].initial) /\ finishActiveVerification(p, TRUE)
             \/ finishActiveVerification(p, FALSE)
          /\ todo' = [todo EXCEPT ![d] = @ \ {p}]
    /\ UNCHANGED <<phase, socket, calls, load, left, schemaVars>>

\* runtime.Reconcile, which RunLaunch models, comes last.
Reconciled(d) ==
    /\ phase[d] = "verify"
    /\ todo[d] = {}
    /\ Become(d, "listen")
    /\ UNCHANGED <<todo, socket, calls, load, left, dataVars>>

Live(d) == phase[d] \in Listening

\* ListenUnix: a socket that answers is left alone, a dead one is unlinked.
removeStaleSocket(d) ==
    /\ phase[d] = "listen"
    /\ socket # None
    /\ IF Live(socket) THEN Become(d, "failed") /\ UNCHANGED socket
                       ELSE socket' = None /\ UNCHANGED phase
    /\ UNCHANGED <<todo, calls, load, left, dataVars>>

\* Ready at once when Docker answers, otherwise when it does.
ListenUnix(d) ==
    /\ phase[d] = "listen"
    /\ socket = None
    /\ socket' = d
    /\ Become(d, "serving") \/ Become(d, "unready")
    /\ UNCHANGED <<todo, calls, load, left, dataVars>>

\* Any step of a start may fail, or be cancelled: the components opened so
\* far are closed again and the process exits with an error.
StartFails(d) ==
    /\ phase[d] \in Starting
    /\ Spend("crashes")
    /\ Become(d, "failed")
    /\ calls' = CallsWithout(d)
    /\ UNCHANGED <<todo, socket, load, dataVars>>

----------------------------------------------------------------------------
(* Running, stopping, dying.                                               *)

\* publishDegradedStateLocked.
Degraded(d) ==
    /\ phase[d] = "serving"
    /\ Spend("outages")
    /\ Become(d, "unready")
    /\ UNCHANGED <<todo, socket, calls, load, dataVars>>

Healthy(d) ==
    /\ phase[d] = "unready"
    /\ Become(d, "serving")
    /\ UNCHANGED <<todo, socket, calls, load, left, dataVars>>

\* Serve: the context ends, no further mutation is admitted, runs are stopped.
Stop(d) ==
    /\ phase[d] \in {"serving", "unready"}
    /\ Spend("stops")
    /\ Become(d, "stopping")
    /\ UNCHANGED <<todo, socket, calls, load, dataVars>>

\* The listener unlinks the socket file if it is still the one it made.
CloseListener(d) ==
    /\ phase[d] = "stopping"
    /\ Become(d, "draining")
    /\ socket' = IF socket = d THEN None ELSE socket
    /\ UNCHANGED <<todo, calls, load, left, dataVars>>

\* Requests are waited for up to a deadline, then their contexts end.
CloseStore(d) ==
    /\ phase[d] = "draining"
    /\ Become(d, "closing")
    /\ UNCHANGED <<todo, socket, calls, load, left, dataVars>>

ReleaseLock(d) ==
    /\ phase[d] = "closing"
    /\ Become(d, "closed")
    /\ UNCHANGED <<todo, socket, calls, load, left, dataVars>>

Exit(d) ==
    /\ phase[d] = "closed"
    /\ Become(d, "down")
    /\ calls' = CallsWithout(d)
    /\ UNCHANGED <<todo, socket, load, left, dataVars>>

\* The kernel drops the lock; the socket file and every half-done file stay.
Crash(d) ==
    /\ phase[d] \notin Ended
    /\ Spend("crashes")
    /\ Become(d, "failed")
    /\ calls' = CallsWithout(d)
    /\ UNCHANGED <<todo, socket, load, dataVars>>

----------------------------------------------------------------------------
(* Requests.                                                               *)

Gated(q) == q.op \notin {"project.add", "project.archive"}

GateCapability(q) ==
    CASE q.op \in {"role.create", "role.update", "role.delete"} -> "role.manage"
      [] q.op \in {"role.bind", "role.unbind"} -> "role.bind"
      [] q.op \in {"credential.add", "credential.rotate", "credential.revoke"} -> "participant.manage"
      [] q.op = "project.repair" -> "project.repair"
      [] q.op = "project.delete" -> "project.delete"

GateScope(q) == IF q.op \in {"project.repair", "project.delete"} THEN q.project ELSE Global

\* What follows the gate.
FirstStep(q) ==
    CASE q.op = "project.add" -> "preflight"
      [] q.op = "project.repair" -> "read"
      [] OTHER -> "transact"

Running(w) == calls[w] # Idle
CanTransact(w) == Running(w) /\ phase[calls[w].at] \in StoreOpen
CanRunGit(w) == CanTransact(w)          \* the context ends when the store closes
CanTouchFiles(w) == Running(w) /\ phase[calls[w].at] \notin Ended

Goto(w, pc) == calls' = [calls EXCEPT ![w].pc = pc]
Return(w) == calls' = [calls EXCEPT ![w] = Idle]

requestFrame == <<phase, todo, socket, load, left, schemaVars>>

RequireReady(d) == phase[d] = "serving"

\* fenceMutations looks at POST and PUT; these two are DELETE.
Fenced(q) == q.op \notin {"role.delete", "role.unbind"}

\* A request is admitted by a process that listens, ready if the request is
\* fenced, and with a secret that authenticates (operatorCredentialFence).
Call(h) ==
    /\ h \in load.handlers
    /\ calls[h] = Idle
    /\ Spend("calls")
    /\ \E s \in Secrets \cup {None} : Authenticates(s)
    /\ \E d \in Daemons, q \in load.requests :
          /\ Live(d)
          /\ Fenced(q) => RequireReady(d)
          /\ calls' = [calls EXCEPT ![h] =
                [Idle EXCEPT !.pc = IF Gated(q) THEN "gate" ELSE FirstStep(q), !.at = d, !.q = q]]
    /\ UNCHANGED <<phase, todo, socket, load, dataVars>>

\* The permission is looked up in a transaction of its own.
Gate(h) ==
    /\ calls[h].pc = "gate"
    /\ CanTransact(h)
    /\ IF OperatorHolds(GateCapability(calls[h].q), GateScope(calls[h].q))
       THEN Goto(h, FirstStep(calls[h].q)) ELSE Return(h)
    /\ UNCHANGED <<requestFrame, authorityVars, registryVars>>

\* Operations that are one transaction after the gate.
TransactAuthority(h) ==
    LET q == calls[h].q
    IN /\ calls[h].pc = "transact"
       /\ CanTransact(h)
       /\ \/ q.op = "role.create" /\ CreateRole(q)
          \/ q.op = "role.update" /\ UpdateRole(q)
          \/ q.op = "role.delete" /\ DeleteRole(q)
          \/ q.op = "role.bind" /\ BindParticipantRole(q, q.scope \in Rows)
          \/ q.op = "role.unbind" /\ UnbindParticipantRole(q)
          \/ q.op = "credential.add" /\ AddCredential(q)
          \/ q.op = "credential.rotate" /\ RotateCredential(q)
          \/ q.op = "credential.revoke" /\ RevokeCredential(q)
       /\ Return(h)
       /\ UNCHANGED <<requestFrame, registryVars>>

TransactProject(h) ==
    LET q == calls[h].q
    IN /\ calls[h].pc = "transact"
       /\ CanTransact(h)
       /\ \/ q.op = "project.archive" /\ ArchiveProject(q)
          \/ q.op = "project.delete" /\ DeleteProject(q)
       /\ Return(h)
       /\ UNCHANGED requestFrame

\* AddProject: an answered request is answered again; otherwise the source's
\* branch is resolved, once.
Preflight(h) ==
    /\ calls[h].pc = "preflight"
    /\ CanRunGit(h)
    /\ IF Answered("project.add", calls[h].q.key) # {} THEN Return(h)
       ELSE calls' = [calls EXCEPT ![h].pc = "insert", ![h].job.initial = source]
    /\ UNCHANGED <<requestFrame, authorityVars, registryVars>>

InsertProject(h) ==
    /\ calls[h].pc = "insert"
    /\ CanTransact(h)
    /\ \E p \in Projects :
          /\ AddProject(calls[h].q, calls[h].job.initial, p)
          /\ calls' = [calls EXCEPT ![h].pc = "init", ![h].job = projectIntent(p, projects'[p])]
    /\ UNCHANGED requestFrame

\* RepairProject reads the row and looks for the repository, then writes.
ReadProject(h) ==
    LET p == calls[h].q.project
    IN /\ calls[h].pc = "read"
       /\ CanTransact(h)
       /\ IF Answered("project.repair", calls[h].q.key) # {} \/ projects[p].status # "error"
          THEN Return(h)
          ELSE calls' = [calls EXCEPT ![h].pc = "update", ![h].seen = projects[p],
                                      ![h].job.action = RepairAction(projects[p], Exists(p))]
       /\ UNCHANGED <<requestFrame, authorityVars, registryVars>>

UpdateProject(h) ==
    LET q == calls[h].q
        action == calls[h].job.action
    IN /\ calls[h].pc = "update"
       /\ CanTransact(h)
       /\ RepairProject(q, calls[h].seen, action)
       /\ calls' = [calls EXCEPT ![h].pc = IF action = "verify" THEN "verify" ELSE "init",
                                 ![h].seen = NoProject,
                                 ![h].job = projectIntent(q.project, projects'[q.project])]
       /\ UNCHANGED requestFrame

\* A transaction that is refused or fails, a client that goes away, a context
\* that ends: the operation returns and leaves what it did.  The steps between
\* two Git commands that only touch files do not look at the context.
Abort(h) ==
    /\ calls[h].pc \notin {"idle", "prepare", "mark", "publish", "promote"}
    /\ Return(h)
    /\ UNCHANGED <<phase, todo, socket, load, left, dataVars>>

----------------------------------------------------------------------------
(* Jobs: Initialize and Verify, of a request or of a starting process.     *)

jobFrame == <<phase, todo, socket, load, left, schemaVars>>

Initialize(w) ==
    /\ calls[w].pc = "init"
    /\ CanRunGit(w)
    /\ Goto(w, IF Exists(calls[w].job.project) THEN "confirm" ELSE "prepare")
    /\ UNCHANGED <<jobFrame, authorityVars, registryVars>>

PreparePartial(w) ==
    /\ calls[w].pc = "prepare"
    /\ CanTouchFiles(w)
    /\ MakePartial(calls[w].job)
    /\ Goto(w, "mark")
    /\ UNCHANGED jobFrame

MarkPartial(w) ==
    LET j == calls[w].job
    IN /\ calls[w].pc = "mark"
       /\ CanTouchFiles(w)
       /\ \/ WriteTemporaryMarker(j) /\ Goto(w, "publish")
          \/ /\ MarkerMatches(j) /\ Goto(w, "build")
             /\ UNCHANGED <<authorityVars, registryVars>>
          \/ /\ PartialRefused(j) /\ Goto(w, "fail")
             /\ UNCHANGED <<authorityVars, registryVars>>
       /\ UNCHANGED jobFrame

PublishPartial(w) ==
    LET j == calls[w].job
    IN /\ calls[w].pc = "publish"
       /\ CanTouchFiles(w)
       /\ \/ PublishMarker(j) /\ Goto(w, "build")
          \/ DropTemporaryMarker(j) /\ Goto(w, "fail")
       /\ UNCHANGED jobFrame

BuildRepository(w) ==
    LET j == calls[w].job
    IN /\ calls[w].pc = "build"
       /\ CanRunGit(w)
       /\ \/ BuildPartial(j) /\ UNCHANGED calls
          \/ /\ Stage(j.op) \notin Marked..(Complete - 1)
             /\ Goto(w, IF Stage(j.op) = Complete THEN "promote" ELSE "fail")
             /\ UNCHANGED <<authorityVars, registryVars>>
       /\ UNCHANGED jobFrame

PromoteRepository(w) ==
    LET j == calls[w].job
    IN /\ calls[w].pc = "promote"
       /\ CanTouchFiles(w)
       /\ \/ PromotePartial(j) /\ Goto(w, "confirm")
          \/ /\ Stage(j.op) # Complete \/ Exists(j.project)
             /\ Goto(w, "fail")
             /\ UNCHANGED <<authorityVars, registryVars>>
       /\ UNCHANGED jobFrame

VerifyRepository(w) ==
    LET j == calls[w].job
        ok == IF calls[w].pc = "confirm" THEN InitializedValid(j.project, j.initial)
              ELSE RepositoryValid(j.project, j.initial)
    IN /\ calls[w].pc \in {"confirm", "verify"}
       /\ CanRunGit(w)
       /\ IF ok THEN calls' = [calls EXCEPT ![w].pc = "finish",
                                            ![w].job.fact = finals[j.project].canonical]
          ELSE Goto(w, "fail")
       /\ UNCHANGED <<jobFrame, authorityVars, registryVars>>

\* A Git command fails for a reason of its own.
GitFails(w) ==
    /\ calls[w].pc \in {"build", "confirm", "verify"}
    /\ CanRunGit(w)
    /\ Goto(w, "fail")
    /\ UNCHANGED <<jobFrame, authorityVars, registryVars>>

FinishJob(w) ==
    /\ calls[w].pc \in {"finish", "fail"}
    /\ CanTransact(w)
    /\ finishProjectAction(calls[w].job, calls[w].pc = "finish")
    /\ Return(w)
    /\ UNCHANGED jobFrame

JobStep(w) ==
    \/ Initialize(w) \/ PreparePartial(w) \/ MarkPartial(w) \/ PublishPartial(w)
    \/ BuildRepository(w) \/ PromoteRepository(w) \/ VerifyRepository(w) \/ GitFails(w)
    \/ FinishJob(w)

----------------------------------------------------------------------------
Outside ==
    /\ \/ SourceMoves
       \/ \E d \in Daemons, p \in Projects : phase[d] = "serving" /\ AdvanceCanonical(p)
    /\ UNCHANGED <<planeVars, schemaVars>>

RepositoryLost ==
    /\ Spend("losses")
    /\ \E p \in Projects : LoseRepository(p)
    /\ UNCHANGED <<phase, todo, socket, calls, load, schemaVars>>

\* What a process does by itself.
DaemonStep(d) ==
    \/ phase[d] = "failed" /\ Start(d)          \* Restart=on-failure
    \/ AcquireDataDirLock(d) \/ MigrateInTransaction(d) \/ applyTaskBudgetMigration(d)
    \/ applyProjectDeleteCapabilityMigration(d) \/ MigrationRecorded(d) \/ StoreOpened(d)
    \/ QuarantineUnknown(d) \/ Scanned(d) \/ ReconcileCreating(d) \/ ReconciledCreating(d)
    \/ ReconcileActive(d) \/ Reconciled(d) \/ removeStaleSocket(d) \/ ListenUnix(d)
    \/ CloseListener(d) \/ CloseStore(d) \/ ReleaseLock(d) \/ Exit(d)
    \/ JobStep(d)

RequestStep(h) ==
    \/ Gate(h) \/ TransactAuthority(h) \/ TransactProject(h) \/ Preflight(h) \/ InsertProject(h)
    \/ ReadProject(h) \/ UpdateProject(h) \/ JobStep(h) \/ Abort(h)

Next ==
    \/ \E d \in Daemons : \/ DaemonStep(d) \/ Start(d) \/ StartFails(d) \/ Degraded(d)
                          \/ Healthy(d) \/ Stop(d) \/ Crash(d)
    \/ \E h \in Handlers : Call(h) \/ RequestStep(h)
    \/ Outside
    \/ RepositoryLost

Spec == Init /\ [][Next]_vars

FairSpec == Spec /\ \A d \in Daemons : WF_vars(DaemonStep(d))

----------------------------------------------------------------------------
(* Properties.                                                             *)

CallTypes == [pc: {"idle", "gate", "transact", "preflight", "insert", "read", "update", "init",
                   "prepare", "mark", "publish", "build", "promote", "confirm", "verify",
                   "finish", "fail"},
              at: Daemons \cup {None}]

\* Every row, file and counter keeps its type.
TypeOK ==
    /\ phase \in [Daemons -> Ended \cup LockHeld \cup {"lock", "closed"}]
    /\ todo \in [Daemons -> SUBSET Projects]
    /\ socket \in Daemons \cup {None}
    /\ \A w \in Workers : [pc |-> calls[w].pc, at |-> calls[w].at] \in CallTypes
    /\ objects \subseteq DDLVersions /\ history \subseteq 1..SchemaVersion
    /\ bindings \subseteq Binding
    /\ \A p \in Projects :
          /\ projects[p].status \in {"none", "creating", "active", "error", "archived", "deleted"}
          /\ projects[p].action \in {"", "initialize", "verify"}
          /\ (projects[p].status = "creating") <=> (projects[p].action # "")
    /\ lastOp \in 0..MaxOps /\ quarantine \subseteq OpIds

\* Two processes never have the database of one data directory open: the lock
\* is taken before it is opened and given back after it is closed.
OneStoreOwner ==
    \A d, e \in Daemons : phase[d] \in StoreOpen /\ phase[e] \in StoreOpen => d = e

\* The socket file leads to the process that listens: no other process, old
\* or new, removes or replaces it while it is in use.
SocketServes == \A d \in Daemons : phase[d] \in Listening => socket = d

\* A data directory has one owner: its store and its socket are those of one
\* process, whatever is started, stops, fails or dies beside it.
OneOwner == OneStoreOwner /\ SocketServes

\* A store that is in use past Open has exactly the current schema and
\* history, whatever interrupted the migrations before.
ServedSchema ==
    (\E d \in Daemons : phase[d] \in StoreOpen \ {"open", "record5", "record6"})
        => CanonicalDatabase(SchemaVersion)

\* An interrupted migration leaves a database the next start can take up, but
\* for one place: the column of version 5 without its record.
HalfSchemaOnlyFromBudget ==
    objects # {} /\ ~CanonicalDatabase(MigrationVersion)
        => objects = CanonicalObjects(5) /\ history = CanonicalHistory(4)

\* Interrupted migrations neither reach a store in use nor leave anything but
\* that one half schema on disk.
SchemaIntact == ServedSchema /\ HalfSchemaOnlyFromBudget

\* A daemon that becomes ready has an operator with every capability, even
\* when the database was seeded by a release that did not know them all and
\* the upgrade was interrupted.
UpgradeGrantsOwner ==
    (\E d \in Daemons : phase[d] \in Listening) /\ left.calls = load.limits.calls
        => AllCapabilities \subseteq EffectiveCapabilities(Owner, Global)

\* Bindings name roles and projects that exist: neither a role nor a project
\* is deleted under a binding, and none is bound after it was deleted.
BindingsLive ==
    \A b \in bindings : b.role \in LiveRoles /\ (b.scope = Global \/ b.scope \in Rows)

\* A participant has at most one active credential, and it is the one its row
\* names, however additions, rotations and revocations overlap.
OneActiveCredential ==
    \A w \in Participants : ActiveOf(w) \subseteq {pinned[w]}

\* What permission is decided on refers to what exists, although every request
\* checks in transactions of its own: bindings to roles and projects, the row
\* of a participant to its only active credential.
AuthorityConsistent == BindingsLive /\ OneActiveCredential

\* No step but the update of a role takes the last holder of
\* participant.manage away, however requests overlap.
UnbindKeepsHolder ==
    [][roles' = roles /\ participantManageHolders # {} => participantManageHolders' # {}]_vars

\* The operator can manage neither roles nor bindings, and no request that
\* would is past its gate.
Sealed ==
    /\ 7 \in history
    /\ {"role.manage", "role.bind"} \cap EffectiveCapabilities(Owner, Global) = {}
    /\ \A h \in Handlers : calls[h].pc = "transact" /\ Gated(calls[h].q) =>
          GateCapability(calls[h].q) \notin {"role.manage", "role.bind"}

\* Once the operator has lost role.manage and role.bind they are lost for good:
\* no later request, restart or migration gets them back.  A request that had
\* passed its gate before may still.
SealedForGood == [][Sealed => Sealed']_vars

\* An active project has a complete repository that contains the commit it
\* was registered with, unless that was lost behind the daemon's back.
ActiveBacked ==
    \A p \in RowsIn("active") :
        InitializedValid(p, projects[p].initial) \/ p \in damaged

\* A repository starts at the commit its registration fixed, although the
\* source's branch moved while it was built, interrupted and built again.
PinnedInitial ==
    \A p \in Rows : Exists(p) => finals[p].initial = projects[p].initial

\* Nothing is put into quarantine that a pending initialization waits for,
\* also when the start that does it was interrupted before, or an old handler
\* still writes beside it.
QuarantinedUnwanted ==
    \A o \in quarantine, p \in Rows :
        ~(projects[p].action = "initialize" /\ projects[p].op = o)

\* Rows and repositories agree, while repositories are built, abandoned, built
\* again, put away and lost beside each other.
RepositoriesMatchRows == ActiveBacked /\ PinnedInitial /\ QuarantinedUnwanted

\* A request registers at most one project, however often it is sent, also
\* after that project was deleted.
OneProjectPerRequest ==
    \A a, b \in registered : a.key = b.key => a = b

\* A handler that outlived its process's hold on the data directory is about
\* to rename a repository of p into place.
LeftBehind(p) ==
    \E h \in Handlers : /\ calls[h].pc = "promote" /\ calls[h].job.project = p
                        /\ phase[calls[h].at] = "closed"

\* A project that was active never gets another repository made from the
\* commit it was registered with, and its branch never goes back, but for a
\* handler that a closed process left behind, after the repository was lost.
NeverRebuilt ==
    [][\A p \in Rows : projects[p].canonical # NoCommit =>
          \/ finals'[p] = NoFinal
          \/ Exists(p) /\ finals'[p].canonical >= finals[p].canonical
          \/ ~Exists(p) /\ LeftBehind(p)]_vars

\* A process that ended with an error comes to listen, or another one does,
\* unless the database cannot be brought to the current version.
FailureRecovers ==
    (\E d \in Daemons : phase[d] = "failed")
        ~> (~Upgradable \/ \E d \in Daemons : phase[d] \in Listening)
=============================================================================
