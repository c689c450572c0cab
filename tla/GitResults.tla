----------------------------- MODULE GitResults -----------------------------
(***************************************************************************)
(* What becomes of an agent's work in Git: the task's private workspace,   *)
(* the capture of a submitted commit behind an immutable task ref, the     *)
(* advance of the project's canonical branch, integration tasks, and the   *)
(* garbage collection, discarding and deletion of workspaces and refs.     *)
(*                                                                         *)
(* Three workers of the daemon touch the control repository concurrently:  *)
(* the Git reconciler ("git"), the garbage collector ("gc") and a request  *)
(* of the operator or of an agent ("boss"); launches of runs are a fourth. *)
(* The project's maintenance lock excludes them from each other, but not   *)
(* from transactions of the database, and a crash of the daemon may come   *)
(* between any two steps.  A step is one transaction, one change of the    *)
(* repository or of a workspace, or one check made under the lock.         *)
(*                                                                         *)
(* A commit is the set of runs whose changes its history holds, so that A  *)
(* is an ancestor of B exactly when A \subseteq B.  A run makes at most    *)
(* one commit of its own, which keeps different commits different.  A task *)
(* ref is named by its run and never moves: its value is the head that run *)
(* submitted.                                                              *)
(*                                                                         *)
(* Abstractions.  The ledger's rules (versions, retries, messages, agents) *)
(* are those of TaskLedger: the retry budget is a free choice, and only    *)
(* one request is in flight, for which comparing rows is comparing their   *)
(* versions.  Human and conversation tasks have no workspace and are left  *)
(* out, and so is waiting, which no step here tells from queued.  Closed   *)
(* tasks are old enough for garbage collection at any time.  Quotas, the   *)
(* format of bundles and damaged repositories are left out. The project    *)
(* stays active: what its other states mean for the rows is TaskLedger's,  *)
(* and the one way results themselves could break it, an advance that does *)
(* not find its task ref, is what RefsKept excludes.                       *)
(***************************************************************************)
EXTENDS Naturals

CONSTANTS
    WorkTasks,      \* ids for work tasks
    Integrations,   \* ids for integration tasks
    MaxRuns,        \* runs in one behaviour
    Ops,            \* what operator and agents do beside the plain course
    None,           \* no task, run or worker
    MaxCrashes      \* crashes in one behaviour

Tasks == WorkTasks \cup Integrations
Runs == 1..MaxRuns
Workers == {"git", "gc", "boss"}
Commits == SUBSET Runs

ASSUME GitAssumption ==
    /\ WorkTasks \cap Integrations = {}
    /\ None \notin Tasks /\ None \notin Runs /\ None \notin Workers
    /\ MaxRuns \in Nat
    /\ Ops \subseteq {"source", "rework", "cancel", "discard", "delete", "mess"}
    /\ MaxCrashes \in Nat

VARIABLES
    task,       \* the durable task rows
    run,        \* the durable run rows
    saved,      \* the project's canonical_sha
    ws,         \* the private workspace of each task
    handoff,    \* runs whose capture handoff is ready
    refs,       \* runs whose task ref exists in the control repository
    imports,    \* runs whose import ref exists there
    canon,      \* the commit of the canonical ref
    lock,       \* the worker holding the maintenance lock
    at,         \* what each worker is doing
    dropped,    \* runs whose result the operator discarded or deleted
    crashes

rows == <<task, run, saved>>
repository == <<refs, imports, canon>>
vars == <<task, run, saved, ws, handoff, refs, imports, canon, lock, at,
          dropped, crashes>>

Open == {"queued", "running", "finishing", "submitted", "failed"}
Closed == {"completed", "cancelled"}

TaskRow == [status   : {"none", "deleted"} \cup Open \cup Closed,
            run      : Runs \cup {None},      \* current_run_id
            head     : Runs \cup {None},      \* head_run_id, naming task_ref
            base     : Commits,               \* base_sha
            source   : Runs \cup {None},      \* source_run_id, naming its ref
            released : BOOLEAN,               \* source_ref_released_at # ""
            link     : Integrations \cup {None},
            pending  : {"none", "capture", "advance"}]

NoTask == [status |-> "none", run |-> None, head |-> None, base |-> {},
           source |-> None, released |-> FALSE, link |-> None, pending |-> "none"]

\* A run's sha is the canonical commit its launch has read and then the
\* expected head of its outcome.  wrote: the agent has done its work.
RunRow == [task : Tasks \cup {None}, sha : Commits, started : BOOLEAN,
           state : {"none", "claimed", "prepared", "live", "wrote", "ended"}]

\* A workspace has a HEAD and perhaps uncommitted changes; seen is its branch
\* coordplane/canonical.
Workspaces == [there : BOOLEAN, head : Commits, clean : BOOLEAN, seen : Commits]
NoWorkspace == [there |-> FALSE, head |-> {}, clean |-> TRUE, seen |-> {}]

Steps == {"idle", "check", "helper", "refused", "import", "publish", "unimport",
          "captured", "cleanup", "advance", "advanced", "stale",
          "source", "insert", "accept", "delws", "delref", "rmws", "release", "rmref"}

\* A worker's step, the task it is about, the row it has read and the commit.
Work == [pc : Steps, task : Tasks \cup {None}, row : TaskRow, sha : Commits]
Idle == [pc |-> "idle", task |-> None, row |-> NoTask, sha |-> {}]

TypeOK ==
    /\ task \in [Tasks -> TaskRow]
    /\ run \in [Runs -> RunRow]
    /\ saved \in Commits
    /\ ws \in [Tasks -> Workspaces]
    /\ handoff \subseteq Runs
    /\ refs \subseteq Runs
    /\ imports \subseteq Runs
    /\ canon \in Commits
    /\ lock \in Workers \cup {None}
    /\ at \in [Workers -> Work]
    /\ dropped \subseteq Runs
    /\ crashes \in 0..MaxCrashes

Init ==
    /\ task = [t \in Tasks |-> NoTask]
    /\ run = [r \in Runs |-> [task |-> None, sha |-> {}, started |-> FALSE, state |-> "none"]]
    /\ saved = {}
    /\ ws = [t \in Tasks |-> NoWorkspace]
    /\ handoff = {} /\ refs = {} /\ imports = {}
    /\ canon = {}
    /\ lock = None
    /\ at = [w \in Workers |-> Idle]
    /\ dropped = {}
    /\ crashes = 0

-----------------------------------------------------------------------------
(* Rows and commits.                                                       *)

Exists(t) == task[t].status \notin {"none", "deleted"}
Live(r) == run[r].state \in {"claimed", "prepared", "live", "wrote"}
Kind(t) == IF t \in Integrations THEN "integration" ELSE "work"

\* The result a row records and the source it copied: commits of their refs.
Head(row) == run[row.head].sha
Source(row) == run[row.source].sha

\* The head a closed task's workspace must have to be removed unseen.
ExpectedHead(row) == IF row.head = None THEN row.base ELSE Head(row)

\* taskActionAvailable
ActionAvailable(row) ==
    row.status # "finishing" /\ row.pending = "none" /\ row.link = None

\* validateCapturedAncestry, which the helper also checks in the workspace.
ContainsInputs(row, head) ==
    /\ row.base \subseteq head
    /\ row.source # None => Source(row) \subseteq head

\* integrationSourceFence for integration i and the source task it names.
SourceFence(i) ==
    LET s == run[task[i].source].task IN
    /\ task[s].status = "submitted"
    /\ task[s].link = i
    /\ task[s].head = task[i].source

\* validateSourceTask
IsSource(row) == row.status \in {"submitted", "completed"} /\ row.head # None

\* Mutant: a task gets the name of the event for a status.
Requeued == {"requeued", "failed"}

\* runtimeRetryDecision: requeued within the budget, else failed.
Retried == {"queued", "failed"}

-----------------------------------------------------------------------------
(* Workers and their lock.                                                 *)

Doing(w, pc) == at[w].pc = pc
Goto(w, pc) == at' = [at EXCEPT ![w].pc = pc]
Leave(w) == at' = [at EXCEPT ![w] = Idle]
Begin(w, pc, t, sha) ==
    /\ Doing(w, "idle")
    /\ at' = [at EXCEPT ![w] = [pc |-> pc, task |-> t, row |-> task[t], sha |-> sha]]

\* A check or a change made while nobody else holds the lock.
Locked == lock = None /\ UNCHANGED lock
Acquire(w) == lock = None /\ lock' = w
Release == lock' = None
NoLock == UNCHANGED lock

-----------------------------------------------------------------------------
(* Creating a task.                                                        *)

NewTask(base, source) ==
    [NoTask EXCEPT !.status = "queued", !.base = base, !.source = source]

\* createWorkTask without a source.
CreateTask(t) ==
    /\ t \in WorkTasks
    /\ task[t] = NoTask
    /\ task' = [task EXCEPT ![t] = NewTask(canon, None)]
    /\ UNCHANGED <<run, saved, ws, handoff, repository, lock, at, dropped, crashes>>

\* createWorkTask with a source: the first transaction reads the source s,
\* then the canonical ref is resolved.  The new task takes an id at the end.
ReadSource(s) ==
    /\ "source" \in Ops
    /\ IsSource(task[s])
    /\ \E t \in WorkTasks : task[t] = NoTask
    /\ Begin("boss", "source", s, canon)
    /\ NoLock
    /\ UNCHANGED <<rows, ws, handoff, repository, dropped, crashes>>

\* Mutant: the lock is not held until the task is inserted.
UseUnlocked ==
    /\ Doing("boss", "source")
    /\ Locked
    /\ IF at["boss"].row.head \in refs THEN Goto("boss", "insert") ELSE Leave("boss")
    /\ UNCHANGED <<rows, ws, handoff, repository, dropped, crashes>>

\* UseTaskRef: the source's ref must still be there.
UseTaskRef ==
    /\ Doing("boss", "source")
    /\ IF at["boss"].row.head \in refs
       THEN Acquire("boss") /\ Goto("boss", "insert")
       ELSE Locked /\ Leave("boss")
    /\ UNCHANGED <<rows, ws, handoff, repository, dropped, crashes>>

\* The second transaction, made under the lock.
InsertSourced ==
    /\ Doing("boss", "insert")
    /\ LET s == at["boss"].task IN
       IF task[s] = at["boss"].row
       THEN \E t \in WorkTasks :
               /\ task[t] = NoTask
               /\ task' = [task EXCEPT ![t] = NewTask(at["boss"].sha, task[s].head)]
       ELSE UNCHANGED task
    /\ Release /\ Leave("boss")
    /\ UNCHANGED <<run, saved, ws, handoff, repository, dropped, crashes>>

-----------------------------------------------------------------------------
(* Runs and their workspace.                                               *)

\* ClaimNext: runs are numbered in the order of their claims.
ClaimNext(t, r) ==
    /\ run[r].state = "none"
    /\ \A x \in 1..(r - 1) : run[x].state # "none"
    /\ task[t].status = "queued" /\ task[t].run = None
    /\ ~\E x \in Runs : run[x].task = t /\ Live(x)
    /\ task' = [task EXCEPT ![t].run = r]
    /\ run' = [run EXCEPT ![r].task = t, ![r].state = "claimed"]
    /\ UNCHANGED <<saved, ws, handoff, repository, lock, at, dropped, crashes>>

\* Some run of the task reached start_issued (TaskHasStartedRun).
HasStarted(t) == \E r \in Runs : run[r].task = t /\ run[r].started

\* Materialize is for a task that never ran, and needs its inputs.
Materializable(t) ==
    /\ ~HasStarted(t)
    /\ task[t].source # None => task[t].source \in refs

\* prepareWorkspace, once the launch has read the project's canonical_sha: an
\* existing workspace is verified, a new one published.
PrepareWorkspace(r) ==
    LET t == run[r].task IN
    /\ run[r].state = "claimed"
    /\ Locked
    /\ ws[t].there \/ Materializable(t)
    /\ ws' = [ws EXCEPT ![t] = IF @.there THEN @ ELSE
                [NoWorkspace EXCEPT !.there = TRUE, !.head = task[t].base]]
    /\ run' = [run EXCEPT ![r].state = "prepared", ![r].sha = saved]
    /\ UNCHANGED <<task, saved, handoff, repository, at, dropped, crashes>>

\* The start of the container; before it, RefreshCanonical brings the
\* canonical commit into an integration's workspace if it is the one saved.
StartRun(r) ==
    LET t == run[r].task IN
    /\ run[r].state = "prepared"
    /\ task[t].status = "queued" /\ task[t].run = r
    /\ IF Kind(t) = "integration"
       THEN /\ Locked
            /\ canon = run[r].sha
            /\ ws' = [ws EXCEPT ![t].seen = canon]
       ELSE NoLock /\ UNCHANGED ws
    /\ task' = [task EXCEPT ![t].status = "running"]
    /\ run' = [run EXCEPT ![r].state = "live", ![r].started = TRUE, ![r].sha = {}]
    /\ UNCHANGED <<saved, handoff, repository, at, dropped, crashes>>

\* What the agent can leave as HEAD: what it found, a commit on top of it or
\* of a merge with its source and with the canonical branch it was given, the
\* source itself, or, having made a mess, a history of its own.
Results(t, r) ==
    LET inputs == IF task[t].source = None THEN {{}, ws[t].seen}
                  ELSE {{}, ws[t].seen, Source(task[t]), Source(task[t]) \cup ws[t].seen}
    IN  {ws[t].head \cup m \cup {r} : m \in inputs}
          \cup {m \in inputs : ws[t].head \subseteq m}
          \cup (IF "mess" \in Ops THEN {{r}} ELSE {})

AgentWorks(r) ==
    LET t == run[r].task IN
    /\ run[r].state = "live"
    /\ \E h \in Results(t, r), c \in (IF "mess" \in Ops THEN BOOLEAN ELSE {TRUE}) :
          ws' = [ws EXCEPT ![t].head = h, ![t].clean = c]
    /\ run' = [run EXCEPT ![r].state = "wrote"]
    /\ UNCHANGED <<task, saved, handoff, repository, lock, at, dropped, crashes>>

\* The outcome "submit" names a commit of the workspace, its HEAD or by
\* mistake the base; the agent may still write until its run ends.
Submit(r) ==
    LET t == run[r].task IN
    /\ run[r].state \in {"live", "wrote"}
    /\ task[t].status = "running" /\ task[t].run = r
    /\ \E h \in {ws[t].head, task[t].base} : run' = [run EXCEPT ![r].sha = h]
    /\ task' = [task EXCEPT ![t].status = "finishing", ![t].pending = "capture"]
    /\ UNCHANGED <<saved, ws, handoff, repository, lock, at, dropped, crashes>>

\* The row of a task when its run r ends: only a requested capture goes on.
AfterRun(row, r) ==
    IF row.run # r \/ row.status = "finishing" THEN {row}
    ELSE IF row.status \in Closed THEN {[row EXCEPT !.run = None]}
    ELSE {[row EXCEPT !.run = None, !.status = s] : s \in Retried}

\* RecordTerminal of a run, or of a launch that failed: a workspace missing,
\* inputs missing, the canonical ref moved, Docker in trouble.
EndRun(r) ==
    LET t == run[r].task IN
    /\ Live(r)
    /\ run' = [run EXCEPT ![r].state = "ended",
                          ![r].sha = IF run[r].state = "prepared" THEN {} ELSE @]
    /\ \E row \in AfterRun(task[t], r) : task' = [task EXCEPT ![t] = row]
    /\ UNCHANGED <<saved, ws, handoff, repository, lock, at, dropped, crashes>>

-----------------------------------------------------------------------------
(* Capture: Service.reconcileCapture and WorkspaceManager.Capture.         *)

\* The run whose submission the Git worker captures.
Captured == at["git"].row.run

TakeCapture(t) ==
    /\ task[t].pending = "capture"
    /\ run[task[t].run].state = "ended"
    /\ Begin("git", "check", t, {})
    /\ UNCHANGED <<rows, ws, handoff, repository, lock, dropped, crashes>>

\* cleanupCaptureImportRef
DropImport == imports \ {Captured}

\* A ref that exists is the result of an earlier attempt that a crash cut off.
CheckExisting ==
    /\ Doing("git", "check")
    /\ Locked
    /\ IF Captured \in refs
       THEN Goto("git", "captured") /\ imports' = DropImport
       ELSE Goto("git", "helper") /\ UNCHANGED imports
    /\ UNCHANGED <<rows, ws, handoff, refs, canon, dropped, crashes>>

\* What the capture helper checks in the workspace.
Capturable(t) ==
    LET r == task[t].run IN
    /\ ws[t].there /\ ws[t].clean
    /\ ws[t].head = run[r].sha
    /\ ContainsInputs(task[t], run[r].sha)

\* A ready handoff of an earlier attempt is used again; else the helper makes
\* one in a container and publishes it with a rename, or fails, be it only
\* for trouble with Docker.
RunHelper ==
    /\ Doing("git", "helper")
    /\ \/ /\ Captured \in handoff \/ Capturable(at["git"].task)
          /\ Goto("git", "import") /\ handoff' = handoff \cup {Captured}
       \/ /\ Captured \notin handoff
          /\ Goto("git", "refused") /\ UNCHANGED handoff
    /\ UNCHANGED <<rows, ws, repository, lock, dropped, crashes>>

\* importCapture: fetch the bundle to the import ref, ...
ImportCapture ==
    /\ Doing("git", "import")
    /\ Acquire("git")
    /\ imports' = imports \cup {Captured}
    /\ Goto("git", "publish")
    /\ UNCHANGED <<rows, ws, handoff, refs, canon, dropped, crashes>>

\* ... create the task ref, ...
PublishRef ==
    /\ Doing("git", "publish")
    /\ refs' = refs \cup {Captured}
    /\ Goto("git", "unimport")
    /\ UNCHANGED <<rows, ws, handoff, imports, canon, lock, dropped, crashes>>

\* ... and delete the import ref, releasing the lock.
DeleteImport ==
    /\ Doing("git", "unimport")
    /\ imports' = imports \ {Captured}
    /\ Release /\ Goto("git", "captured")
    /\ UNCHANGED <<rows, ws, handoff, refs, canon, dropped, crashes>>

\* sameCaptureFence
CaptureFence(t) == task[t] = at["git"].row

\* finalizeCapture: an integration's result is advanced without being asked.
FinalizeCapture ==
    LET t == at["git"].task IN
    /\ Doing("git", "captured")
    /\ IF CaptureFence(t) /\ (Kind(t) = "integration" => SourceFence(t))
       THEN /\ task' = [task EXCEPT ![t].status = "submitted", ![t].head = Captured,
                  ![t].run = None,
                  ![t].pending = IF Kind(t) = "integration" THEN "advance" ELSE "none"]
            /\ Goto("git", "cleanup")
       ELSE UNCHANGED task /\ Leave("git")
    /\ UNCHANGED <<run, saved, ws, handoff, repository, lock, dropped, crashes>>

CleanupCapture ==
    /\ Doing("git", "cleanup")
    /\ handoff' = handoff \ {Captured}
    /\ Leave("git")
    /\ UNCHANGED <<rows, ws, repository, lock, dropped, crashes>>

\* projectCaptureFailure of an error that is no invariant error.
RefuseCapture ==
    LET t == at["git"].task IN
    /\ Doing("git", "refused")
    /\ IF CaptureFence(t)
       THEN \E s \in Retried :
               task' = [task EXCEPT ![t].status = s, ![t].run = None, ![t].pending = "none"]
       ELSE UNCHANGED task
    /\ Leave("git")
    /\ UNCHANGED <<run, saved, ws, handoff, repository, lock, dropped, crashes>>

-----------------------------------------------------------------------------
(* Advance: Service.RequestAccept, reconcileAdvance, Initializer.Advance.  *)

\* acceptFacts.  A submitted integration is being advanced already.
Acceptable(row) ==
    /\ ActionAvailable(row)
    /\ row.status = "submitted" /\ row.head # None

\* Each acceptance may come to need an integration task.
SpareIntegration == \E i \in Integrations : task[i] = NoTask

\* RequestAccept, first transaction and the Git facts it asks for.
ReadAccept(t) ==
    /\ Acceptable(task[t])
    /\ SpareIntegration
    /\ task[t].head \in refs
    /\ Locked
    /\ Begin("boss", "accept", t, saved)
    /\ UNCHANGED <<rows, ws, handoff, repository, dropped, crashes>>

\* RequestAccept, second transaction.
RequestAdvance ==
    LET t == at["boss"].task IN
    /\ Doing("boss", "accept")
    /\ task' = IF task[t] = at["boss"].row /\ saved = at["boss"].sha
               THEN [task EXCEPT ![t].pending = "advance"] ELSE task
    /\ Leave("boss")
    /\ UNCHANGED <<run, saved, ws, handoff, repository, lock, dropped, crashes>>

TakeAdvance(t) ==
    /\ task[t].pending = "advance"
    /\ Begin("git", "advance", t, {})
    /\ UNCHANGED <<rows, ws, handoff, repository, lock, dropped, crashes>>

\* Mutant: the arguments of isAncestor are swapped.
IsAncestorSwapped(target) == canon \subseteq target

\* The canonical branch holds the target.
AlreadyIncluded(target) == target \subseteq canon

\* Mutant: the canonical branch is moved without looking at its history.
MoveAlways(target) == TRUE

\* The canonical branch may move to the target by fast-forward.
FastForward(target) == canon \subseteq target

\* Initializer.Advance: included already, moved, or stale.
Advance ==
    LET row == at["git"].row
        target == Head(row)
        Report(pc, sha) == at' = [at EXCEPT !["git"].pc = pc, !["git"].sha = sha]
    IN
    /\ Doing("git", "advance")
    /\ Locked
    /\ row.head \in refs
    /\ \/ /\ AlreadyIncluded(target)
          /\ Report("advanced", canon) /\ UNCHANGED canon
       \/ /\ ~AlreadyIncluded(target) /\ FastForward(target)
          /\ canon' = target
          /\ Report("advanced", target)
       \/ /\ ~AlreadyIncluded(target) /\ ~FastForward(target)
          /\ Report("stale", canon) /\ UNCHANGED canon
    /\ UNCHANGED <<rows, ws, handoff, refs, imports, dropped, crashes>>

\* Mutant: the canonical ref must still be where it was saved.
UnmovedFence(t) == task[t] = at["git"].row /\ canon = saved

\* sameAdvanceFence and the fence of the source.
AdvanceFence(t) ==
    /\ task[t] = at["git"].row
    /\ Kind(t) = "integration" => SourceFence(t)

\* Mutant: the saved canonical commit is not brought up to date.
KeepSaved == saved

\* The canonical commit that the advance has found.
SaveCanonical == at["git"].sha

\* finalizeSuccessfulAdvance also completes the source of an integration.
FinalizeAdvance ==
    LET t == at["git"].task
        done == {t} \cup (IF Kind(t) = "integration"
                          THEN {run[task[t].source].task} ELSE {})
    IN
    /\ Doing("git", "advanced")
    /\ IF AdvanceFence(t)
       THEN /\ task' = [x \in Tasks |-> IF x \in done
                          THEN [task[x] EXCEPT !.status = "completed", !.pending = "none"]
                          ELSE task[x]]
            /\ saved' = SaveCanonical
       ELSE UNCHANGED <<task, saved>>
    /\ Leave("git")
    /\ UNCHANGED <<run, ws, handoff, repository, lock, dropped, crashes>>

\* finalizeStaleAdvance: an integration is queued again, a work task gets one.
FinalizeStale ==
    LET t == at["git"].task IN
    /\ Doing("git", "stale")
    /\ IF ~AdvanceFence(t) THEN UNCHANGED <<task, saved>>
       ELSE /\ saved' = SaveCanonical
            /\ IF Kind(t) = "integration"
               THEN task' = [task EXCEPT ![t].status = "queued", ![t].run = None,
                                         ![t].pending = "none"]
               ELSE \E i \in Integrations :
                       /\ task[i] = NoTask
                       /\ task' = [task EXCEPT ![t].link = i, ![t].pending = "none",
                                     ![i] = NewTask(at["git"].sha, task[t].head)]
    /\ Leave("git")
    /\ UNCHANGED <<run, ws, handoff, repository, lock, dropped, crashes>>

-----------------------------------------------------------------------------
(* The operator's other requests.                                          *)

\* ReworkTask of a result, RetryTask of a failure: back to the queue.
Requeue(t) ==
    /\ ActionAvailable(task[t])
    /\ \/ "rework" \in Ops /\ task[t].status = "submitted"
       \/ task[t].status = "failed" /\ task[t].run = None
    /\ task' = [task EXCEPT ![t].status = "queued"]
    /\ UNCHANGED <<run, saved, ws, handoff, repository, lock, at, dropped, crashes>>

\* CancelTask.  A live run stays until it ends; an integration gives its
\* source back.
CancelTask(t) ==
    /\ "cancel" \in Ops
    /\ ActionAvailable(task[t])
    /\ task[t].status \in Open
    /\ LET row == [task[t] EXCEPT !.status = "cancelled",
                      !.run = IF @ # None /\ Live(@) THEN @ ELSE None]
           s == run[task[t].source].task
       IN  IF Kind(t) = "integration"
           THEN /\ task[s].pending = "none" /\ SourceFence(t)
                /\ task' = [task EXCEPT ![t] = row, ![s].link = None]
           ELSE task' = [task EXCEPT ![t] = row]
    /\ UNCHANGED <<run, saved, ws, handoff, repository, lock, at, dropped, crashes>>

\* DeleteTask, the transaction.  An integration must pass the fence of its
\* source unless that is gone.
DeleteTask(t) ==
    /\ "delete" \in Ops
    /\ ActionAvailable(task[t])
    /\ task[t].status \in Closed /\ task[t].run = None
    /\ ~\E r \in Runs : run[r].task = t /\ Live(r)
    /\ Kind(t) = "integration" =>
          SourceFence(t) \/ task[run[task[t].source].task].status = "deleted"
    /\ Begin("boss", "delws", t, {})
    /\ task' = [task EXCEPT ![t] = [NoTask EXCEPT !.status = "deleted"]]
    /\ dropped' = IF task[t].head = None THEN dropped ELSE dropped \cup {task[t].head}
    /\ UNCHANGED <<run, saved, ws, handoff, repository, lock, crashes>>

\* cleanupDeletedTaskResources: the workspace, unless it was changed.  The
\* request does not name the source, so that the marker of a workspace made
\* with one does not match it: that error ends the cleanup.
DeleteWorkspace ==
    LET t == at["boss"].task
        row == at["boss"].row
    IN
    /\ Doing("boss", "delws")
    /\ Locked
    /\ IF ws[t].there /\ row.source # None
       THEN UNCHANGED ws /\ Leave("boss")
       ELSE /\ ws' = [ws EXCEPT ![t] =
                 IF @.clean /\ @.head = ExpectedHead(row) THEN NoWorkspace ELSE @]
            /\ IF row.head = None THEN Leave("boss") ELSE Goto("boss", "delref")
    /\ UNCHANGED <<rows, handoff, repository, dropped, crashes>>

\* cleanupDeletedTaskResources: the task ref, whoever else names it.
DeleteRef ==
    /\ Doing("boss", "delref")
    /\ Locked
    /\ refs' = refs \ {at["boss"].row.head}
    /\ Leave("boss")
    /\ UNCHANGED <<rows, ws, handoff, imports, canon, dropped, crashes>>

-----------------------------------------------------------------------------
(* Garbage collection by "gc", and discarding by "boss".                   *)

\* An integration linked to a closed task is closed as well.
LinkClosed(t) ==
    LET i == task[t].link IN
    i # None => task[i].status \in Closed /\ task[i].pending = "none"

\* Mutant: the task need not be closed.
RestingEligible(t) ==
    /\ task[t].run = None /\ task[t].pending = "none"
    /\ ~\E r \in Runs : run[r].task = t /\ Live(r)
    /\ LinkClosed(t)

\* Store.WorkspaceEligible
WorkspaceEligible(t) ==
    /\ task[t].status \in Closed
    /\ task[t].run = None /\ task[t].pending = "none"
    /\ task[t].head = None => ~HasStarted(t)
    /\ ~\E r \in Runs : run[r].task = t /\ Live(r)
    /\ LinkClosed(t)

\* Store.TaskRefEligible
TaskRefEligible(t) ==
    /\ task[t].status \in Closed /\ task[t].head # None
    /\ task[t].pending = "none"
    /\ LinkClosed(t)
    /\ ~\E x \in Tasks :
          \/ task[x].pending # "none" /\ task[t].head \in {task[x].head, task[x].source}
          \/ task[x].source = task[t].head /\ ~task[x].released

\* validateDiscardTask, and who may ask for what.
MayCollect(w) == w = "gc" \/ (w = "boss" /\ "discard" \in Ops)

\* WorkspaceManager.Delete and Discard: the authorization, under the lock ...
AuthorizeWorkspace(w, t) ==
    /\ MayCollect(w)
    /\ WorkspaceEligible(t)
    /\ Acquire(w)
    /\ Begin(w, "rmws", t, {})
    /\ UNCHANGED <<rows, ws, handoff, repository, dropped, crashes>>

\* Mutant: commits after the result do not keep a workspace.
Committed(t, row) == ws[t].clean

\* The workspace holds nothing beside the result of its task.
Unchanged(t, row) == ws[t].head = ExpectedHead(row) /\ ws[t].clean

\* ... and the removal.  A changed workspace is only ever discarded.
RemoveWorkspace(w) ==
    LET t == at[w].task IN
    /\ Doing(w, "rmws")
    /\ IF ~ws[t].there \/ w = "boss" \/ Unchanged(t, at[w].row)
       THEN ws' = [ws EXCEPT ![t] = NoWorkspace] /\ Goto(w, "release")
       ELSE UNCHANGED ws /\ Leave(w)
    /\ Release
    /\ UNCHANGED <<rows, handoff, repository, dropped, crashes>>

\* releaseSourceReference
ReleaseSource(w) ==
    LET t == at[w].task IN
    /\ Doing(w, "release")
    /\ task' = [task EXCEPT ![t].released =
                  @ \/ (/\ task[t].source # None /\ task[t].status \in Closed
                          /\ task[t].run = None /\ task[t].pending = "none")]
    /\ Leave(w)
    /\ UNCHANGED <<run, saved, ws, handoff, repository, lock, dropped, crashes>>

\* DeleteTaskRefAndPrune: the authorization, under the lock ...
AuthorizeRef(w, t) ==
    /\ MayCollect(w)
    /\ w = "boss" => task[t].run = None
    /\ TaskRefEligible(t)
    /\ Acquire(w)
    /\ Begin(w, "rmref", t, {})
    /\ UNCHANGED <<rows, ws, handoff, repository, dropped, crashes>>

\* The canonical branch holds the result, or the operator gives it up.
Included(w, row) == Head(row) \subseteq canon \/ w = "boss"

\* ... and the removal.
RemoveRef(w) ==
    LET row == at[w].row IN
    /\ Doing(w, "rmref")
    /\ refs' = IF Included(w, row) THEN refs \ {row.head} ELSE refs
    /\ dropped' = IF w = "boss" THEN dropped \cup {row.head} ELSE dropped
    /\ Release /\ Leave(w)
    /\ UNCHANGED <<rows, ws, handoff, imports, canon, crashes>>

-----------------------------------------------------------------------------
(* Crash and restart: dockerCaptureHelper.Recover and FinalizedCaptureTasks *)
(* leave only the handoffs of captures that are still to be made.          *)

Crash ==
    /\ crashes < MaxCrashes
    /\ crashes' = crashes + 1
    /\ at' = [w \in Workers |-> Idle]
    /\ lock' = None
    /\ handoff' = {r \in handoff : \E t \in Tasks : task[t].pending = "capture" /\ task[t].run = r}
    /\ UNCHANGED <<rows, ws, repository, dropped>>

-----------------------------------------------------------------------------

GitStep ==
    \/ CheckExisting \/ RunHelper \/ ImportCapture \/ PublishRef \/ DeleteImport
    \/ FinalizeCapture \/ CleanupCapture \/ RefuseCapture
    \/ Advance \/ FinalizeAdvance \/ FinalizeStale

Collect(w) == RemoveWorkspace(w) \/ ReleaseSource(w) \/ RemoveRef(w)

BossStep ==
    \/ UseTaskRef \/ InsertSourced \/ RequestAdvance \/ DeleteWorkspace \/ DeleteRef

Request(t) ==
    \/ CreateTask(t) \/ ReadSource(t) \/ ReadAccept(t)
    \/ Requeue(t) \/ CancelTask(t) \/ DeleteTask(t)

RunStep(r) ==
    \/ \E t \in Tasks : ClaimNext(t, r)
    \/ PrepareWorkspace(r) \/ StartRun(r) \/ AgentWorks(r) \/ Submit(r) \/ EndRun(r)

Next ==
    \/ GitStep \/ BossStep \/ Crash
    \/ \E t \in Tasks : TakeCapture(t) \/ TakeAdvance(t) \/ Request(t)
    \/ \E w \in {"gc", "boss"} :
          Collect(w) \/ \E t \in Tasks : AuthorizeWorkspace(w, t) \/ AuthorizeRef(w, t)
    \/ \E r \in Runs : RunStep(r)

\* The workers' loops go on, whoever waits for the lock gets it in turn, and
\* each pass of the reconciler takes every pending task.  Agents, operator
\* and garbage collector owe nothing, but runs end.
Fairness ==
    /\ SF_vars(GitStep)
    /\ WF_vars(BossStep)
    /\ \A w \in {"gc", "boss"} : WF_vars(Collect(w))
    /\ \A t \in Tasks : SF_vars(TakeCapture(t) \/ TakeAdvance(t))

Spec == Init /\ [][Next]_vars
FairSpec == Spec /\ Fairness

-----------------------------------------------------------------------------
(* Properties.                                                             *)

\* A completed task's result is part of the canonical branch, also when an
\* integration completed it.  (Advance, validateCapturedAncestry,
\* finalizeSuccessfulAdvance)
CompletedIncluded ==
    \A t \in Tasks : task[t].status = "completed" => Head(task[t]) \subseteq canon

\* A captured result has its ref as long as its task is open, and after that
\* until the canonical branch holds it or the operator gives it up: neither
\* garbage collection nor any crash loses it.  A task made from it keeps the
\* ref until its own workspace has been collected, unless the source was
\* deleted.  (TaskRefEligible, DeleteTaskRefAndPrune, useSourceTaskRef)
RefsKept ==
    \A t \in Tasks : Exists(t) =>
        /\ task[t].head # None =>
              \/ task[t].head \in refs
              \/ /\ task[t].status \in Closed
                 /\ Head(task[t]) \subseteq canon \/ task[t].head \in dropped
        /\ task[t].source # None /\ ~task[t].released =>
              \/ task[t].source \in refs
              \/ task[run[task[t].source].task].status = "deleted"

\* An open task whose run has started keeps its workspace, without which
\* prepareWorkspace lets no further run start.  (WorkspaceEligible)
WorkspaceKept ==
    \A t \in Tasks : task[t].status \in Open /\ HasStarted(t) => ws[t].there

\* The saved canonical commit is the actual one, or an advance is pending that
\* will record it: RefreshCanonical refuses integration runs only for a while.
\* An import ref likewise belongs to a capture that is still pending.
\* (finalizeSuccessfulAdvance, finalizeStaleAdvance, importCapture,
\* cleanupCaptureImportRef)
RefsExplained ==
    /\ saved \subseteq canon
    /\ saved # canon =>
          \E t \in Tasks : task[t].pending = "advance" /\ Head(task[t]) \subseteq canon
    /\ \A r \in imports :
          \E t \in Tasks : task[t].pending = "capture" /\ task[t].run = r

\* The canonical branch never loses a change it has had.  (Advance)
CanonicalForward == [][canon \subseteq canon']_canon

\* A commit that does not vanish with a workspace.
Preserved(c) == c \subseteq canon \/ \E r \in refs \cup dropped : run[r].sha = c

\* A workspace goes only if the operator discards it, or if it has no
\* uncommitted change and its HEAD is kept elsewhere.
\* (WorkspaceManager.Delete)
WorkKept ==
    [][\A t \in Tasks :
          ws[t].there /\ ~ws'[t].there =>
              \/ at["boss"].pc = "rmws"
              \/ ws[t].clean /\ Preserved(ws[t].head)]_vars

\* Once its run has ended, whatever was submitted is captured or refused, and
\* every advance is decided, through all collections and crashes: no intent
\* stays pending for ever.  (ReconcileGit)
IntentsResolve ==
    \A t \in Tasks :
        (\/ task[t].pending = "capture" /\ run[task[t].run].state = "ended"
         \/ task[t].pending = "advance") ~> task[t].pending = "none"
=============================================================================
