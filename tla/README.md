# CoordPlane in TLA+

CoordPlane is a single-host daemon that schedules coding agents. Operators and
agents create tasks and send messages; the daemon claims a queued task for its
agent, runs the agent's CLI in a Docker container, records what the run
reported, captures the resulting Git commit and, when somebody accepts it,
advances the project's canonical branch. Everything durable is one SQLite
database; everything else (containers, control sockets, Git refs, the daemon's
memory) has to be reconciled with it after any crash.

This directory holds TLA+ modules translated from `src/internal`, TLC
configurations for small instances and TLAPS proofs.

## Inventory

| part | state | operations | what is hard | what makes it correct |
|---|---|---|---|---|
| ledger (`core`, `store`) | task, run and message rows; agent and project status | one SQLite transaction per request, runtime fact or Git fact | requests of operators, agents and workers in any order; a fact arriving late for a row that has moved on | rows agree with each other; fences neither let stale facts in nor lock good ones out; no message and no wakeup is lost |
| task state machine (`core/fsm.go`) | a status per task | transitions by kind | written by a dozen transactions, consulted by few | completed and cancelled are final |
| acceptance and Git projection (`core/accept.go`, `core/git_reconcile.go`) | pending action, link between a source and its integration task | capture, advance, stale, failure | the row changes between intent and projection | an accepted result can always be finished |
| Git (`gitrepo`, `gitcapture`, `daemon/project_git.go`, `daemon/git_capture_helper.go`) | control repository, refs, task workspaces, capture handoff | init, checkout, capture, ref compare-and-swap | crash between ref update and projection; quarantined workspaces | canonical only moves forward, to accepted results |
| runtime controller (`daemon/runtime_*.go`) | per-run operation, monitors, degraded state; the run's launch phase | launch, supervise, adopt after restart, stop, clean up | a crash between any two of a dozen steps; launcher, reconciler and cleaner meeting on one run | one owner per run; nothing is created before it is on record; cleanup ends only when everything is gone |
| Docker runtime (`runtime`) | containers by name and label | create, start, inspect, attach, stop, remove | lost answers, unavailable engine, foreign containers | a container is never started twice and never mistaken for another |
| control socket (`daemon/runtime_control.go`) | token, socket and identity marker in a per-run directory | open, serve, close, remove | half-written directories | the directory of a run is removed with it |
| retention (`core/gc.go`, `daemon/*_gc.go`) | what may be collected | tick | a run starting while its resources are collected | nothing in use is collected |
| participants, roles, credentials (`core/participant*.go`, `core/credentials.go`) | role, binding and credential rows, the record of answered requests | create, update, delete, bind, unbind; add, rotate, revoke | permission looked up in one transaction and used in the next; requests repeated | bindings name rows that exist; one active credential; unbinding keeps a manager |
| project registry (`core/project.go`, `core/project_delete.go`, `gitrepo/initializer.go`, `gitrepo/quarantine.go`) | project rows, control repositories, half-built ones, quarantine | add, repair, archive, delete, reconcile at start | a repository is built file by file while clients leave, daemons die and the source moves | an active row has its repository, made from the commit it was registered with |
| schema (`store/store.go`, `store/schema*.go`) | schema objects and migration history | open, migrate | a death between two statements | what is served is exactly the current version |
| daemon process (`daemon/components.go`, `daemon/lock.go`, `transport/unix.go`, `transport/handler.go`) | data directory lock, socket file, readiness, component order | start, serve, degrade, stop, die | two daemons on one data directory; handlers that outlive their server | one owner of the store; the socket leads to it; a failed start gets further the next time |
| CLIs, run socket routes, web server, adapters, configuration | none of their own | decode, call, render | - | - |

The parts meet in the ledger: the scheduler loop calls `ClaimNext`; the
launcher records its phases in the run row and activates it; the agent inside
the container calls back through the control socket (`RequestOutcome`,
messages, child tasks); the supervisor records the end and the cleanup; the Git
reconciler polls pending actions and projects what Git did; the operator's
socket issues everything else. All of them run concurrently and are ordered
only by the database.

## Modules

| module | models |
|---|---|
| `TaskLedger` | the ledger: every transaction on tasks, runs and messages, acceptance and Git projection, agent and project administration |
| `TaskFsm` | the task state machine of `core/fsm.go`, as an abstract specification |
| `TaskFsmRefinement` | the refinement mapping from the ledger to `TaskFsm` |
| `MCTaskLedger` | the small instances of the ledger |
| `TaskLedgerProofs` | theorems about the ledger: types and runtime exclusivity |
| `TaskLedgerRowProofs` | theorems about the task rows: ownership, fencing, links, versions, the refinement |
| `TaskLedgerMailProofs` | theorems about the messages |
| `RunLaunch` | the runtime controller: launch, supervision, adoption and cleanup of an agent's runs, with Docker, the file system and crashes |
| `MCRunLaunch` | the small instances of the runtime controller |
| `RunLaunchProofs` | theorems about the runtime controller |
| `GitResults` | workspaces, captured results, the canonical branch, integrations and garbage collection, with crashes |
| `MCGitResults` | the small instances of the Git results |
| `GitResultsProofs` | theorems about the Git results |
| `StoreSchema` | the SQLite schema and its migrations, statement by statement where they are not one transaction |
| `Authority` | roles, bindings, credentials and the record of answered requests |
| `ProjectRegistry` | project rows, control repositories and the quarantine; extends `Authority` |
| `ControlPlane` | the composition: processes on one data directory, the operator socket and the handlers of its requests, over `StoreSchema` and `ProjectRegistry` |
| `MCControlPlane` | the workloads of the control plane |
| `ControlPlaneProofs` | theorems about the process, the schema and what requests share |
| `ControlPlaneDataProofs` | theorems about project rows, repositories, permissions and types |

### TaskLedger

Variables are tables: `task`, `run` and `msg` map identifiers to rows whose
fields are the columns that decide something; `agent` and `project` are
statuses. A row that was not inserted yet has status `none`; identifiers are
never reused, so a deleted row stays `deleted`. Columns fixed at insertion
(`Kind`, `Assignee`, `Parent`) are constants of the identifier.

Each action is one transaction and keeps its Go name (`ClaimNext`,
`BeginRunLaunch`, `ObserveProcessAndActivateRun`, `RecordMessagesDelivered`,
`RequestOutcome`, `RecordRuntimeRunTerminal`, `CancelTask`, `FinalizeCapture`,
`FinalizeSuccessfulAdvance`, ...). Transactions that write several rows in
sequence build the tables they commit step by step (`Begin`, `WithTask`,
`Redelivered`, `Disposed`, `Notified`, `Settle`, `Commit`), because a later
step of the same transaction reads what an earlier one wrote: a task that is
closed first reroutes its messages, which may wake a conversation, and then
notifies its parent, which may be that conversation's neighbour.
`finalizeStaleAdvance` is two actions, one per branch.

What Git answers is chosen nondeterministically (`GitResults` has the answers):
a capture succeeds, fails or breaks an invariant; an advance succeeds, is stale
or breaks one. A handler
that reads, asks Git and then writes is the action of its second transaction,
which repeats every check.

Bounds: the identifier sets `Tasks`, `Runs`, `Msgs`, `Agents` bound the number
of rows ever inserted (an action that needs a message slot waits for one);
`MaxRuns`, `MaxRetries` and `MaxDeliveries` are the code's own limits; `Ops`
switches optional operations off so that an instance can afford more rows of
the kind its question needs. `TerminalStates` restricts how runs may end.
Versions and generations are not capped: every write is paid for with a run, a
message or a status that cannot recur for ever, except rework and wake cycles,
which the finite sets of runs end.

### RunLaunch

What survives a crash: `run` (the columns of the run row the controller reads
and writes), `cont` (Docker's container of the run) and `ctl` (its control
directory: absent, bare, with the identity file, complete). What does not:
`sock` (the socket being served), `op` (the map `runOperations`), `mon` (the
map `monitors`) and `at` (the step of each worker, its run and the value it has
read and not used yet).

The workers are the scheduler, the reconciler, the garbage collector and one
supervising goroutine per run, named by its run. A step of a worker is one
transaction, one Docker call or one change of the file system, so a crash
(`Crash`, `Restart`), the operator (`RequestStop`, `CancelTask`), the agent
(`RequestOutcome`), the container (`ContainerExits`, `ContainerLost`) and the
other workers come in between any two.

- Launching: `Claim`, then `BeginLaunch` ... `Activate`, the list
  `runtimePrepareSteps`; `Supervise` is the handover to the supervisor.
- Watching: `Watch`, `AwaitExit`, `Finish` (the terminal state is decided on a
  snapshot) and `RecordTerminal` (and recorded in a later transaction).
- Cleanup: `StopContainer`, `RemoveContainer`, `CloseSocket`, `CheckControl`,
  `RemoveDirectory`, `RecordCleanup`, the list `runtimeCleanupSteps`; it follows
  the terminal fact, and `ListCleanup`, `TakeCleanup`, `RetryCleanup` repeat it.
- Reconciliation: `TakeLive`, `Inspect`, `RecordFound`, `Adopt`, `Rebuild`, then
  `Halt`, `Attach`, or the launcher's own steps from where it had stopped.

Every step that can fail has a disjunct in which it does, paid for with
`Mishap`; a failing Docker call may or may not have had its effect. A crash and
a vanished container are mishaps too. `MaxTrouble` bounds them.

Abstractions: `timed_out` counts as `interrupted`; deadlines, stalls and failed
logs stop a run as its operator does; of the task only its cancellation is
kept, which ends the claim of the run; the degraded flag, which only delays the
scheduler, and the orderly shutdown are left out. `Tunings` says whether an
agent has provider settings that its adapter puts on the command line. The
runs are those of one agent, so at most one is live.

### GitResults

A commit is the set of runs whose changes its history holds: an ancestor is a
subset, a merge a union. `task` and `run` keep the columns that Git work reads
and writes, `saved` is the project's `canonical_sha`; `ws` are the workspaces,
`refs` and `imports` the refs of the control repository, `canon` the canonical
ref, `handoff` the ready bundles of the capture helper. `lock` is the project's
maintenance lock. `at` says what the Git reconciler (`git`), the collector
(`gc`) and the request in flight (`boss`) are doing, with the row they have read;
it is what a crash forgets, together with the lock. `dropped` is a history
variable: results the operator has given up.

- Tasks and runs: `CreateTask`; `ReadSource`, `UseTaskRef`, `InsertSourced` for a
  task made from another's result; `ClaimNext`, `PrepareWorkspace`, `StartRun`,
  `AgentWorks`, `Submit`, `EndRun`.
- Capture: `TakeCapture`, `CheckExisting`, `RunHelper`, `ImportCapture`,
  `PublishRef`, `DeleteImport`, `FinalizeCapture` or `RefuseCapture`,
  `CleanupCapture`.
- Advance: `ReadAccept`, `RequestAdvance`, `TakeAdvance`, `Advance`,
  `FinalizeAdvance` or `FinalizeStale`.
- Requests: `Requeue`, `CancelTask`, `DeleteTask` with `DeleteWorkspace` and
  `DeleteRef`.
- Collection and discarding: `AuthorizeWorkspace`, `RemoveWorkspace`,
  `ReleaseSource`, `AuthorizeRef`, `RemoveRef`; `Crash`.

An agent leaves a commit of its own on what it found, a merge with its source
or with the canonical branch it was given, and, where `Ops` has `mess`,
unrelated history and uncommitted changes; what it submits may be what is in
the workspace or not, and it may write after submitting. The ledger's versions
are compared by comparing rows, the retry budget is a free choice, retention
times are over as soon as a task is closed, and the project stays active.

### StoreSchema, Authority, ProjectRegistry and ControlPlane

`StoreSchema` abstracts a schema to the versions whose DDL it contains
(`objects`) and `schema_migrations` to the versions it lists (`history`). A
migration in a transaction is one action; version 5 (`alterTaskBudget`,
`RecordMigration(5)`) and version 6 are two, because their statements commit one
by one. `CanonicalDatabase(v)` is `validateCanonicalDatabase`.

`Authority` has the tables as they are: `roles`, `bindings`, `credentials`,
`pinned` (the column `credential_id` of a participant) and `dedupes` (the table
`request_dedupes`). Each action is one transaction. Capabilities are the five
that gate the operations modelled here; names and secrets are model values. The
input digest of a repeated request is left out: a repetition changes nothing,
whether it is answered or refused.

`ProjectRegistry` adds `projects` (rows), `finals`, `partials`, `quarantine`
(three directories) and `source` (the branch of the outside repository, which
moves). Commits of one history are numbers. A repository under construction is
described by its stage: directory, temporary marker, marker, bare repository,
initial commit, canonical ref. `registered` and `damaged` are history variables:
which request inserted which project, and whose repository was lost behind the
daemon's back.

`ControlPlane` runs them. `phase` is where each process is between its start
and its exit, in the order of `buildComponents` and of the stop sequence;
`todo` is the list `ReconcileProjects` works through; `socket` says whose file is
at the socket path; `calls` is what each handler, and each starting process,
is doing: the request, the row it has read and the job it does in the
repository. A step is one transaction, one Git command or one change of a file,
so that other handlers, deaths and successors come in between.

- Start: `Start` (preflight), `AcquireDataDirLock`, the migrations, `StoreOpened`,
  `QuarantineUnknown`, `Scanned`, `ReconcileCreating`, `ReconciledCreating`,
  `ReconcileActive`, `Reconciled`, `removeStaleSocket`, `ListenUnix`; `StartFails`.
- Life and end: `Degraded`, `Healthy`, `Stop`, `CloseListener`, `CloseStore`,
  `ReleaseLock`, `Exit`; `Crash`, which leaves every file where it is.
- Requests: `Call` (readiness and credential fences), `Gate` (the permission, in a
  transaction of its own), `TransactAuthority` and `TransactProject`; `Preflight`
  and `InsertProject` (`AddProject`); `ReadProject` and `UpdateProject`
  (`RepairProject`); `Abort` (any refusal, or a client that goes away).
- Jobs, of a request or of a starting process: `Initialize`, `PreparePartial`,
  `MarkPartial`, `PublishPartial`, `BuildRepository`, `PromoteRepository`,
  `VerifyRepository`, `GitFails`, `FinishJob`.

`RepairProject` reads the row and looks at the disk one after the other;
`ReadProject` does both in a step. The row cannot change in between without
failing the compare-and-swap that follows, and a repository that appears in
between is met by `Initialize`, which looks for one itself. The runtime's
reconciliation and its stop, which `RunLaunch` is about, are part of the steps
`Reconciled` and `Stop`. `AdvanceCanonical` stands for all of `GitResults`.

### TaskFsm and the refinement

`TaskFsm` is what `fsm.go` promises: insertion as queued or waiting, the
transition table, deletion from completed or cancelled, several rows per step.
`FollowsTaskFsm` is its specification under the mapping `status <- task[t].status`,
with the two transitions the code makes beyond the table allowed explicitly.
`integration` checks it on an instance, `ImplementsTaskFsm` proves it step by step.

## Runs

| run | instance | checks |
|---|---|---|
| `delivery` | conversation and the task it delegates, one agent, 2 runs, 3 messages, delivery limit 2 | `NoLostWakeup`, `MessagesReachable`, `VersionMovesWithRow` |
| `integration` | task and integration task, 2 agents, 2 runs, Git failures, project errors, pause, archive, deletion | `TypeOK`, `OwnershipAgrees`, `OneRuntimePerAgent`, `FencingTokensUnique`, `IntegrationLinked`, `IntentNeverStuck`, `FollowsTaskFsm` |
| `ledger_liveness` | task and its child for a human, 2 runs, 1 message, stop, send, acknowledge, fairness | `FinishingResolves`, `CancelledRunReleased` |
| `launch` | 2 runs of one agent, 1 fault or crash | `SingleOwner`, `OneContainer` |
| `convergence` | 1 run, 3 faults or crashes, fairness | `TypeOK`, `StartedOnce`, `WriteAhead`, `AgentReachable`, `StopConverges`, `TakenOver`, `CleanupConverges` |
| `git_results` | 2 tasks, 1 integration, 3 runs; sources, rework, cancellation, deletion | `CompletedIncluded`, `RefsKept`, `CanonicalForward`, `WorkKept` |
| `git_recovery` | 2 tasks, 1 integration, 2 runs, 1 crash; rework, discarding, messy agents; fairness | `TypeOK`, `WorkspaceKept`, `RefsExplained`, `IntentsResolve` |
| `control_plane` | nine workloads, below; fairness of the processes | `TypeOK`, `OneOwner`, `SchemaIntact`, `UpgradeGrantsOwner`, `AuthorityConsistent`, `RepositoriesMatchRows`, `OneProjectPerRequest`, `UnbindKeepsHolder`, `SealedForGood`, `NeverRebuilt`, `FailureRecovers` |

The bounds are the smallest at which every hazard can happen: a second run to
meet the remains of the first, a second message where one is being delivered while
another arrives and a third for the result of the delegated task, a conversation beside a task so that rerouting has somewhere
to go, two agents where an integrator differs from the author. In `launch` the
second run meets what the first has left, and one fault suffices to leave it at
any step; `convergence` interrupts the work of the reconciler that repairs the
first interruption, and that of its successor. In `git_results` two tasks start
from the same canonical commit, the second acceptance is stale, and the third
run is the integrator's, or the run of a task made from another's result, or a
rework. One crash in `git_recovery` falls between any two steps of whatever the
three workers were doing.

`control_plane` starts in one of nine workloads (`MCWorkloads`), so that the
states of unrelated requests add up instead of multiplying: `Upgrade` (two
processes on a database of any version from 0 to 7, with and without rows of the
retired provider, two deaths, a stop, an outage), `Registration` (two requests
for one name, a death), `Repairs` (overlapping repairs), `Loss` (a lost
repository, a restart, a repair), `Removal` (a project comes, goes and is asked
for again, a death), `Handover` (a stop that does not wait for its handler, and a
successor), `ProjectScope` (bindings in a project that comes and goes),
`Administration` (three of ten role requests, overlapping) and `Identity` (four
credential requests, overlapping). Two handlers and two processes are what an
overlap takes; two commits are what it takes to see that the source moved;
three operation ids let a project be registered and repaired twice (`MaxOps`).
What needs more of them at once, three processes say, is what the theorems are
for.

Run and message identifiers are interchangeable and declared symmetric in the safety runs;
liveness runs use no symmetry. Deadlock is not checked: when the identifiers of
an instance are used up, or the project is deleted, the ledger may stop, and so
may the controller when every run has ended and is cleaned up.

Fairness (`Fairness` in `TaskLedger`): a run that was told to stop or has said
its last word is ended by its supervisor, whose loop stops the container after
the grace period and records the terminal fact, and which the reconciler
replaces after a crash; and the Git reconciler, a polling loop over pending
actions, keeps trying every intent until a projection goes through. Nothing is
assumed of operators, of agents or of the scheduler.

Fairness in `RunLaunch`: each worker goes on with what it has begun (weakly
fair), a dead daemon is restarted, and the reconciler and the garbage collector,
which tick for as long as the daemon runs and go over every row, come to each
run that needs them in the end. The latter is strong fairness of `TakeLive` and
of `ListCleanup` by the garbage collector, because a run's turn passes while
the worker is busy with another. Faults are finite in number; nothing is
assumed of operators, agents or containers.

Fairness in `GitResults`: whoever holds the lock goes on and releases it (weak
fairness of the collector and of the request in flight); the reconciler is
strongly fair, since it competes for the lock, which waiters get in turn, and
since each of its passes goes over every pending task. Nothing is assumed of
agents, operators or of the collector's beginning anything.

Fairness in `ControlPlane`: a process goes on with what it does by itself (weak
fairness of `DaemonStep`), which includes being started again after a failure:
docs/quickstart.md:50 has the service manager do that (`Restart=on-failure`). A
process stopped in good order stays down. Nothing is assumed of clients, of
operators, of handlers or of Docker's recovery; deaths and failures of a start
are finite in number.

Four runs are expected to fail; each shows one place where a document or a
comment of the repository says something else than the code does.

| run | claim | what happens |
|---|---|---|
| `forgotten_container` | `OneContainerPerAgent`, need/runtime.md | cancel, end, delete before cleanup: the next claim does not see the old container |
| `stray_control` | `CleanupCompletes`, need/acceptance.md | a fault between the control directory and its identity file: the cleanup refuses the directory at every retry and the agent stays occupied |
| `late_cancel` | `CancelWins`, need/runtime.md | the exit is decided, the task is cancelled, the exit is recorded |
| `unrecognised` | `TakenOver`, need/acceptance.md | the adoption check rebuilds the command without the provider settings and refuses the run's own container for ever |

Four smaller disagreements are part of the model and have no run of their own.
`CompleteTask` completes a waiting task of a human and
`projectAdvanceInvariantFailure` fails a submitted one, which `fsm.go` does not
allow (`Exceptions` in `TaskFsmRefinement`). A task that failed, was retried and
then accepted keeps its `failure_reason`, against need/core.md. A completed
integration task cannot be deleted while its source exists (`Deletable`):
`releaseIntegrationSource` asks for a source that is still submitted. And
`DeleteTask` removes the deleted task's ref whoever was made from it, while
need/git.md:102 asks that later changes of a source respect the reference the
new task has copied: an open task made from a cancelled and deleted source has
lost its input and can never be launched. `RefsKept` holds with exactly this
exception.

Disagreements met in the control plane, likewise without a run:

- An interrupted migration 5 leaves a column without its record, and every later
  start refuses that database (`SchemaRefused`, store/store.go:379), where
  need/acceptance.md:186 says "migration中断不产生半schema".
  `SchemaIntact` says that this is the only such place (its part
  `HalfSchemaOnlyFromBudget`), and `FailureRecovers` excepts it (`Upgradable`).
- `UpdateRole` (core/participant_roles.go:101) replaces the capabilities of a role
  whoever holds it, so that it can take away the last participant.manage that
  the comment at core/participant_roles.go:238 and need/acceptance.md:184 protect.
  `UnbindKeepsHolder` is about every step but that one. `SealedForGood` shows that
  the loss of role.manage and role.bind is final.
- The repository of a deleted project stays where it is: the port the comment in
  core/project_delete.go:8 relies on (`ProjectGitDispose`) has no implementation.
  The next start finds a repository without a row, puts it away and refuses to
  start once.
- `fenceMutations` looks at POST and PUT, so that role.delete and role.unbind, which
  are DELETE requests, are admitted by a daemon that is not ready (`Fenced`).
- `AddProject` and `ArchiveProject` ask for no capability (`Gated`).
- `AddCredential` looks its request up and does not record it.
- A client that disconnects during a registration leaves the project in creating
  until the next start; no request can take it up (`RepairProject` wants error).
- Closing the server does not wait for handlers that outlast the shutdown
  deadline: they may touch files after the lock was released (`CanTouchFiles`).
  The workload `Handover` is about that.

Hazards without a property. A completed integration task fails the source fence
of its deletion (core/task_delete.go:134) and the cleanup of a deleted task does
not name its source (core/task_delete.go:153): no property says how long a
closed task may have to stay. The key of a child result is not unique
(core/task_messages.go:142): messages have no identity in the ledger. The first
failing reconciliation ends its pass (daemon/runtime_workers.go:156), shutdown
works under a deadline beside the workers (daemon/runtime_workers.go:578), Docker
may execute a request of a dead daemon (runtime/docker.go:89): `RunLaunch` has one
live run, no shutdown and Docker calls that end with their caller. The removal
of a workspace directory is one step in `GitResults` (gitrepo/workspace.go:303).

## Proofs

`TaskLedgerProofs` proves for every value of the constants, from
`LedgerAssumption` alone:

- `TypeCorrect`: `Spec => []TypeOK`. One lemma per helper and per action.
- `RuntimeExclusive`: `Spec => []OneRuntimePerAgent`. The property is not
  inductive by itself: a claim must know that a run on record belongs to a task
  of an agent, and a run whose launch was prepared must never fall back to
  "nothing to clean up". `RuntimeInv` adds that (`RunsWellFormed`) and the
  types. The claim is the only step that adds a holder, and the occupancy check
  excludes every other run of the agent (`ClaimNextRuntime`); all other steps
  end runs, move a cleanup on or leave the table alone (`NoNewHolder`,
  `OneRunChanged`, `RunsUnchanged`).

`ControlPlaneProofs` proves for every set of processes, handlers, requests,
projects, roles and credentials, every workload and every version of the
database found, from `AuthorityAssumption` and `ControlPlaneAssumption`:

- `StoreExclusive` (`OneOwner`: `OneStoreOwner` and `SocketServes`) and `SchemaServed`
  (`SchemaIntact`: `ServedSchema` and `HalfSchemaOnlyFromBudget`), from one
  inductive invariant, `ProcessInv`. The parts need each other and more: that a
  process past its lock is alone (`LockExclusive`, also after it has closed the
  store) is what makes a migration safe from its neighbours and a socket safe
  from a successor; which databases there can be (`SchemaShape`) and what a process
  between the two statements of a migration knows of them (`Recording`) is what
  makes the second statement complete the first. One lemma per group of actions.
- `RequestOnce` (`OneProjectPerRequest`): a registration implies an answer on
  record (`RegistrationInv`), answers are never forgotten, and the transaction
  looks for one itself. The look-up before it is not needed.
- `AuthorityKept` (`AuthorityConsistent`). `CredentialUnique`: with the shape of the
  credential rows (`CredentialInv`), every issue follows a state without another
  active one. `BindingsNameRows`: the checks of bind, role deletion and project
  deletion fit together although each looks at one table only (`BindingInv`).
- `HolderKept` (`UnbindKeepsHolder`): the checks of `LastHolder` are enough for any
  number of bindings, scopes and roles (`UnbindLeaves`), and nothing else that
  leaves the roles alone removes a global binding.

The last three rest on `NextData`: every step leaves this data alone or is one of
the listed transactions, whatever handler or process takes it.

`ControlPlaneDataProofs` goes on with the data, from the same assumptions and
`RegistryAssumption`:

- `RepositoriesAgree` (`RepositoriesMatchRows`) and the action property
  `ActiveNeverRebuilt` (`NeverRebuilt`), from `PlaneInv`: `ProcessInv`, the types,
  `Located` and `RegistryInv`. That `finishProjectAction` activates a project that
  has its repository needs to know what the job's steps on disk have left
  (`JobFacts`), although the row, the partial and the final repository may be
  touched by jobs of earlier attempts. Three facts keep these apart: an operation
  id belongs to one project (`OpsOwned`, by a function from ids to projects that
  each registration and repair extends), the process with the lock has one job
  at a time for a project whose row waits for it (`JobsApart`), and a project
  keeps its first commit as long as it has a row (`Fixed`), so that a job that was
  left behind can at worst build the same repository again. A repair decides
  before its transaction; the compare-and-swap carries what it has read
  (`RepairFacts`). All transactions on rows share one pair of lemmas (`Writes`,
  `Follows`), all steps on files another (`DiskKept`, `Continues`).
- `OwnerGranted` (`UpgradeGrantsOwner`): until the first request the owner's role is
  what the migrations made of it, and the grant of version 6 is written before
  its record (`Granted`), so a start that finds the record finds the grant.
- `SealedStays` (the action property `SealedForGood`): a database of version 7 has no
  seeding migration left (`NoGrantAfterSeven`), a registration binds in the new
  project's scope only, and the gate asks for the operator's global capabilities
  (`SealedGates`).
- `TypesKept` (`TypeOK`).

`TaskLedgerRowProofs` proves, again from `LedgerAssumption` alone, everything the
runs check of a task row, from one inductive invariant, `LedgerInv`:

- `OwnershipKept` (`OwnershipAgrees`), `GenerationsFence` (`FencingTokensUnique`),
  `LinksHold` (`IntegrationLinked`), `IntentsProjectable` (`IntentNeverStuck`),
  `VersionsCount` (the action property `VersionMovesWithRow`) and
  `ImplementsTaskFsm` (`FollowsTaskFsm`: initial states map to initial states, every
  step to a step of the table or a stutter).
- None of the invariants is inductive alone. A row says what it may by itself
  (`RowsShaped`), agrees with the run it names (`OwnersAgree`), and every run on
  record is named by its task or has been answered (`RunsAnswered`); without the
  last a claim could find a run nobody answers for. `FencingTokensUnique` and
  `IntegrationLinked` need each other's rows to stay; `AgentsPresent` and
  `BooksClosed` are what a deletion of an agent or a task relies on.
- A transaction writes the rows it has checked and passes over others, which a
  message may wake. The lemmas about `Passes` show that waking is all that
  happens to them; most writes are calm (`Calm`: they end no claim and loosen no
  link) and share one proof, the others (claims, ends of runs, projections,
  deletions) have their own.

`TaskLedgerMailProofs` adds the messages: `WakeupsKept` (`NoLostWakeup`) and
`MailReaches` (`MessagesReachable`), from `MailInv`, that is `LedgerInv` and
`MailServed`. `NoLostWakeup` speaks of pending messages; the invariant holds the
delivered ones to the same, since the run that has them may end and give them
back, and says whose run that is. A transaction is followed through its steps
(`TxServed`), because between a cancellation and the rerouting that follows it
the messages of the cancelled task are, for a moment, nowhere (`TxServedBut`).

`RunLaunchProofs` proves all six invariants of the runtime controller, for any
number of runs, faults and crashes, from `LaunchAssumption` and one inductive
invariant, `LaunchInv`: `LaunchTyped` (`TypeOK`), `OwnersApart` (`SingleOwner`),
`RowsAhead` (`WriteAhead`), `OneContainerKept` (`OneContainer`), `StartsOnce`
(`StartedOnce`), `AgentsReachable` (`AgentReachable`). That a container is created
once needs its creator to be alone with the run (`SingleOwner`), that needs the
maps `runOperations` and `monitors` to agree with what the workers do (`Owned`),
and each step of a worker needs what the earlier ones have established and no
other worker undoes (`StepsSound`, step by step in `StepFacts`). `RowsSound` says what a
row promises of its container, directory and socket when nobody is at work,
which is what a restarted daemon starts from; `OneOccupies` is what a claim
checks. The proof found an overlap in the model: two cases of `Continue` could both
apply to a container that was found running or exited, and TLC takes the first. They are disjoint
now, in the order of the code's early returns.

`GitResultsProofs` proves all the invariants and action properties of the Git
results, for any number of tasks, runs and crashes, from `GitAssumption` and
`GitInv`: `GitTyped`, `CompletedKept` (`CompletedIncluded`), `ResultsNeverLost`
(`RefsKept`), `WorkspacesHeld` (`WorkspaceKept`), `NoStrayRefs` (`RefsExplained`),
`CanonicalGrows` (`CanonicalForward`) and `NoWorkLost` (`WorkKept`). The difficulty is
what a worker has read: the row may change under it. The invariant says, for
every step of every worker, what is still true of its reading: while a capture or an
advance is pending nobody else writes the row (`Capturing`, `Advancing`); a
request's reading is compared before it is used (`Requesting`); a task that is
being collected stays closed or is deleted (`Collecting`), which rests on a result
that was let go of never changing (`Spent`). `Moves` says what any step may do to
rows and runs it is not about, so that the workers that look on are one lemma.

A proof attempt also corrected a property. `NeverRebuilt` said that a repository of
an active project is never put in place again. It is, in one way that none of
the workloads reaches: a stop gives up waiting for a handler that is about to
rename its partial repository; the successor cannot finish the registration and
marks it as failed; a repair builds the repository with an operation of its own
and the project becomes active; that repository is lost; and the handler of the
old process renames its partial into the empty place. The property now names
this exception (`LeftBehind`).

With these, every invariant and every action property of the passing runs is a
theorem. Only model-checked: the liveness properties `FinishingResolves`,
`CancelledRunReleased`, `StopConverges`, `TakenOver`, `CleanupConverges`,
`IntentsResolve` and `FailureRecovers` (fairness and ENABLED are outside the prover),
and the runs that show a violation. Nothing is proved by induction over data;
no definition the theorems use is recursive.

## Not modelled

Clock times and backoff (a row whose time has not come is one whose turn comes
later); audit events; texts; input limits. Of permissions, the capabilities that
gate the ledger's operations (`TaskLedger` takes every operation as permitted).
Of the store, the read pages and their cursors, which change nothing. Of the
agents, their configuration, its snapshots and their home directories. Of Git,
checkouts for humans, path validation and the contents of bundles. Of the
runtime, the orderly shutdown, log streams, redaction and session resumption.
Of the transport, the routes of the run socket, encodings and the clients; the
web server and the provider adapters. `PROJECT.json` lists each part with the
reason.

## Plan

Done: the ledger and its refinement (`TaskLedger`, `TaskFsm`), the runtime
controller (`RunLaunch`), the Git results (`GitResults`), the control plane
(`ControlPlane` and the modules it composes); proved: every invariant and action
property of the runs and the refinement of `TaskFsm`. To come, in this order:

1. `GitResults`: an abstract specification of the canonical branch as a history
   that only accepted results extend, each at most once, and the refinement;
   a run for the deleted source above; checkouts.
2. `RunLaunch`: several agents, so that one failing reconciliation delays the
   others; the orderly shutdown racing the workers; Docker requests in flight
   when the daemon dies. Composition with the ledger: every step of `RunLaunch`
   on the run row is a step of `TaskLedger` or a stutter.
3. Identity of messages (`child_result` and the idempotency keys); agent homes and
   configuration snapshots; the capabilities that gate the ledger's operations.
4. Pure algorithms against reference definitions: paging, redaction of streams,
   configuration fingerprints.
5. Proofs: the refinements of 1 and 2, step by step.
