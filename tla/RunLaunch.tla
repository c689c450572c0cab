----------------------------- MODULE RunLaunch -----------------------------
(***************************************************************************)
(* The life of an agent's runs outside the database: how the daemon's      *)
(* runtime controller launches a run's container, watches it, takes it     *)
(* over after a crash and removes what is left of it.                      *)
(*                                                                         *)
(* Four kinds of worker share the runs: the scheduler, which launches; the *)
(* reconciler, which takes over live runs that nobody watches; the garbage *)
(* collector and again the reconciler, which clean up ended runs; and one  *)
(* supervising goroutine per run, named here by its run.  They exclude     *)
(* each other through the maps runOperations and monitors, which a crash   *)
(* of the daemon wipes out.  What survives is the run row, the container   *)
(* and the run's control directory.                                        *)
(*                                                                         *)
(* A step is one transaction, one Docker call or one change of the file    *)
(* system.  Runs are those of one agent.  Faults of Docker, of the file    *)
(* system and crashes are bounded by MaxTrouble.  A Docker call that fails *)
(* may have had its effect; it has none after it has returned.             *)
(*                                                                         *)
(* Abstractions.  Of the task only its cancellation is kept: that is what  *)
(* ends the claim of its run.  Deadlines, stalls and failed logs stop a    *)
(* run as its operator does, and timed_out counts as interrupted.  The     *)
(* degraded flag delays the scheduler and is left out, and so is the       *)
(* orderly shutdown: here the daemon only ever crashes.                    *)
(***************************************************************************)
EXTENDS Naturals

CONSTANTS
    Runs,
    Tunings,        \* whether agents have provider settings on their command
    None,           \* no worker
    MaxTrouble      \* faults and crashes in one behaviour

Loops == {"scheduler", "reconciler", "gc"}
Workers == Loops \cup Runs

ASSUME LaunchAssumption ==
    /\ Tunings \subseteq BOOLEAN
    /\ Runs \cap (Loops \cup {None}) = {}
    /\ None \notin Loops
    /\ MaxTrouble \in Nat

VARIABLES
    run,        \* the durable run rows
    cont,       \* Docker's container of a run
    ctl,        \* the control directory of a run
    sock,       \* the run API socket is being served (controls)
    op,         \* run -> the worker holding its runOperation
    mon,        \* run -> the worker whose monitor is registered
    at,         \* what each worker is doing
    up,         \* the daemon runs
    trouble     \* faults so far

durable == <<run, cont, ctl>>
memory == <<sock, op, mon, at>>
vars == <<run, cont, ctl, sock, op, mon, at, up, trouble>>

Phases == {"intent", "created", "start_issued", "process_observed"}
Ended == {"exited", "failed", "interrupted", "cancelled"}

RunRow == [state     : {"none", "starting", "active"} \cup Ended,
           phase     : Phases,
           nonce     : BOOLEAN,                     \* launch_nonce # ""
           cid       : BOOLEAN,                     \* container_id # ""
           tuned     : BOOLEAN,                     \* launched with such settings
           cleanup   : {"not_needed", "pending", "blocked", "removed"},
           want      : {"none", "stop", "outcome"}, \* stop or outcome requested
           cancelled : BOOLEAN]                     \* its task was cancelled

Containers == {"absent", "created", "running", "exited"}

\* bare: the directory exists; marked: and its identity file; ready: and the
\* token, bootstrap, instructions, secrets and launch files.
Controls == {"absent", "bare", "marked", "ready"}

Steps == {"idle", "prepare", "mkdir", "marker", "files", "socket", "create",
          "record", "issue", "start", "verify", "activate", "inspect", "found",
          "adopt", "rebuild", "halt", "attach", "watch", "wait", "finish",
          "terminal", "listed", "retry", "stop", "remove", "close", "rmctl", "rmdir", "removed", "block"}

\* A worker's step, the run it works on and what it has read: the container's
\* status, the run's cleanup state, or the terminal state it decided on.
Work == [pc : Steps, run : Runs \cup {None},
         saw : Containers \cup Ended \cup {"none", "pending", "blocked"}]

Idle == [pc |-> "idle", run |-> None, saw |-> "none"]

TypeOK ==
    /\ run \in [Runs -> RunRow]
    /\ cont \in [Runs -> Containers]
    /\ ctl \in [Runs -> Controls]
    /\ sock \in [Runs -> BOOLEAN]
    /\ op \in [Runs -> Workers \cup {None}]
    /\ mon \in [Runs -> Workers \cup {None}]
    /\ at \in [Workers -> Work]
    /\ up \in BOOLEAN
    /\ trouble \in 0..MaxTrouble

NoRun == [state |-> "none", phase |-> "intent", nonce |-> FALSE, cid |-> FALSE,
          tuned |-> FALSE, cleanup |-> "not_needed", want |-> "none", cancelled |-> FALSE]

Live(r) == run[r].state \in {"starting", "active"}

\* Mutant: an ended run frees the agent at once.
OccupiesLive(r) == Live(r)

\* AgentRuntimeOccupancy
Occupies(r) == Live(r) \/ run[r].cleanup \in {"pending", "blocked"}

\* The task still records run r as its claim.
ClaimHolds(r) == ~run[r].cancelled

\* Mutant: a recorded outcome is not seen.
StopOnly(r) == run[r].want = "stop"

\* reconcileDurableIntent: the run is to end.
HasIntent(r) == run[r].want # "none" \/ run[r].cancelled

-----------------------------------------------------------------------------
(* Workers.                                                                *)

Fine == UNCHANGED trouble
Mishap == trouble < MaxTrouble /\ trouble' = trouble + 1

Doing(w, pc) == up /\ at[w].pc = pc
Goto(w, pc) == at' = [at EXCEPT ![w].pc = pc]
Decide(w, s) == at' = [at EXCEPT ![w].pc = "terminal", ![w].saw = s]
Keep == UNCHANGED <<op, mon>>

\* Mutant: a registered monitor does not count.
FreeOfOperations(r) == op[r] = None

\* What acquireRunOperation requires.
Free(r) == op[r] = None /\ mon[r] = None

\* Mutant: a worker that leaves keeps its monitor registered.
MonitorLeft(w, r) == mon[r]

\* unregisterMonitor: the monitor of run r when worker w leaves.
MonitorAfter(w, r) == IF r = at[w].run THEN None ELSE mon[r]

\* releaseRunOperation and unregisterMonitor, at the end of worker w's work.
Return(w) ==
    /\ at' = [at EXCEPT ![w] = Idle]
    /\ op' = [r \in Runs |-> IF op[r] = w THEN None ELSE op[r]]
    /\ mon' = [r \in Runs |-> MonitorAfter(w, r)]

\* A step of the launch fails: Docker is unavailable and the run is left for
\* the reconciler, or the run has failed.
FailLaunch(w) == Mishap /\ (Return(w) \/ (Decide(w, "failed") /\ Keep))

\* Any other fault ends the work on the run; the reconciler will be back.
GiveUp(w) == Mishap /\ Return(w)

-----------------------------------------------------------------------------
(* Launching.  launchOwned runs the steps of runtimePrepareSteps.          *)

\* claimNext: the claim and its runOperation are taken under claimMu.
Claim(r) ==
    /\ up
    /\ at["scheduler"] = Idle
    /\ run[r].state = "none"
    /\ ~\E x \in Runs : Occupies(x)
    /\ \E t \in Tunings :
          run' = [run EXCEPT ![r] = [NoRun EXCEPT !.state = "starting", !.tuned = t]]
    /\ op' = [op EXCEPT ![r] = "scheduler"]
    /\ at' = [at EXCEPT !["scheduler"] = [pc |-> "prepare", run |-> r, saw |-> "none"]]
    /\ Fine
    /\ UNCHANGED <<cont, ctl, sock, mon, up>>

\* Mutant: the cleanup state goes to the column of the phase.
PreparedSwapped(row) == [row EXCEPT !.nonce = TRUE, !.phase = "pending"]

\* The row BeginRunLaunch writes.
Prepared(row) == [row EXCEPT !.nonce = TRUE, !.cleanup = "pending"]

\* BeginRunLaunch, which is refused when the claim is gone; or the launch
\* cannot be described.
BeginLaunch(w) ==
    LET r == at[w].run IN
    /\ Doing(w, "prepare")
    /\ \/ /\ ClaimHolds(r)
          /\ run' = [run EXCEPT ![r] = Prepared(@)]
          /\ Goto(w, "mkdir") /\ Keep /\ Fine
       \/ ~ClaimHolds(r) /\ Return(w) /\ Fine /\ UNCHANGED run
       \/ FailLaunch(w) /\ UNCHANGED run
    /\ UNCHANGED <<cont, ctl, sock, up>>

\* prepareWorkspace and prepareAgentHome: the control directory is made last,
\* before the coordlink executable is looked up.
MakeDirectories(w) ==
    LET r == at[w].run IN
    /\ Doing(w, "mkdir")
    /\ \/ ctl' = [ctl EXCEPT ![r] = "bare"] /\ Goto(w, "marker") /\ Fine
       \/ /\ Mishap /\ Decide(w, "failed")
          /\ ctl' \in {ctl, [ctl EXCEPT ![r] = "bare"]}
    /\ Keep
    /\ UNCHANGED <<run, cont, sock, up>>

\* The control directory after the files of step pc are written.
Written(pc) == IF pc = "marker" THEN "marked" ELSE "ready"

\* writeRunToken writes the identity first; then the token and the other files.
WriteControl(w) ==
    LET r == at[w].run IN
    /\ up
    /\ at[w].pc \in {"marker", "files"}
    /\ \/ /\ ctl' = [ctl EXCEPT ![r] = Written(at[w].pc)]
          /\ Goto(w, IF at[w].pc = "marker" THEN "files" ELSE "socket") /\ Fine
       \/ Mishap /\ Decide(w, "failed") /\ UNCHANGED ctl
    /\ Keep
    /\ UNCHANGED <<run, cont, sock, up>>

OpenSocket(w) ==
    LET r == at[w].run IN
    /\ Doing(w, "socket")
    /\ \/ sock' = [sock EXCEPT ![r] = TRUE] /\ Goto(w, "create") /\ Fine
       \/ Mishap /\ Decide(w, "failed") /\ UNCHANGED sock
    /\ Keep
    /\ UNCHANGED <<run, cont, ctl, up>>

\* createContainer
CreateContainer(w) ==
    LET r == at[w].run
        made == [cont EXCEPT ![r] = "created"]
    IN
    /\ Doing(w, "create")
    /\ \/ cont' = made /\ Goto(w, "record") /\ Keep /\ Fine
       \/ cont' \in {cont, made} /\ FailLaunch(w)
    /\ UNCHANGED <<run, ctl, sock, up>>

\* The row RecordContainerCreated writes.
WithContainer(row) == [row EXCEPT !.cid = TRUE, !.phase = "created"]

\* RecordContainerCreated; attachStreams only inspects the container.
RecordCreated(w) ==
    LET r == at[w].run IN
    /\ Doing(w, "record")
    /\ run' = [run EXCEPT ![r] = WithContainer(@)]
    /\ \/ Goto(w, "issue") /\ Keep /\ Fine
       \/ FailLaunch(w)
    /\ UNCHANGED <<cont, ctl, sock, up>>

\* RecordRunStartIssued, before Start
IssueStart(w) ==
    LET r == at[w].run IN
    /\ Doing(w, "issue")
    /\ run' = [run EXCEPT ![r].phase = "start_issued"]
    /\ Goto(w, "start") /\ Keep /\ Fine
    /\ UNCHANGED <<cont, ctl, sock, up>>

\* DockerExecutor.Start; a missing container fails the launch and sends the
\* reconciler away.
StartContainer(w) ==
    LET r == at[w].run
        started == cont[r] = "created" /\ cont' = [cont EXCEPT ![r] = "running"]
    IN
    /\ Doing(w, "start")
    /\ \/ /\ started
          /\ Goto(w, IF w = "scheduler" THEN "verify" ELSE "attach") /\ Keep /\ Fine
       \/ /\ started \/ UNCHANGED cont
          /\ IF w = "scheduler" THEN FailLaunch(w) ELSE GiveUp(w)
       \/ /\ cont[r] = "absent"
          /\ UNCHANGED cont /\ Fine
          /\ IF w = "scheduler" THEN Decide(w, "failed") /\ Keep ELSE Return(w)
    /\ UNCHANGED <<run, ctl, sock, up>>

\* verifyLive: the monitor is registered before the container is inspected.
VerifyLive(w) ==
    LET r == at[w].run IN
    /\ Doing(w, "verify")
    /\ \/ cont[r] = "running" /\ Goto(w, "activate") /\ Fine
          /\ mon' = [mon EXCEPT ![r] = r] /\ UNCHANGED op
       \/ cont[r] = "exited" /\ Goto(w, "wait") /\ Keep /\ Fine
       \/ cont[r] = "absent" /\ Decide(w, "failed") /\ Keep /\ Fine
       \/ FailLaunch(w)
    /\ UNCHANGED <<run, cont, ctl, sock, up>>

\* The supervising goroutine of run r takes over from worker w.
Supervise(w, r) ==
    /\ at' = [at EXCEPT ![w] = Idle, ![r] = [pc |-> "watch", run |-> r, saw |-> "none"]]
    /\ op' = [op EXCEPT ![r] = None]
    /\ mon' = [mon EXCEPT ![r] = r]

\* ObserveProcessAndActivateRun, of the launcher or of adoptRunning.
Activate(w) ==
    LET r == at[w].run IN
    /\ Doing(w, "activate")
    /\ Fine
    /\ \/ /\ ClaimHolds(r)
          /\ run' = [run EXCEPT ![r].state = "active", ![r].phase = "process_observed"]
          /\ Supervise(w, r)
       \/ /\ ~ClaimHolds(r)
          /\ UNCHANGED run
          /\ IF w = "scheduler"
             THEN Decide(w, "failed") /\ mon' = [mon EXCEPT ![r] = None] /\ UNCHANGED op
             ELSE Return(w)
    /\ UNCHANGED <<cont, ctl, sock, up>>

-----------------------------------------------------------------------------
(* Watching, and the end of a run.                                         *)

\* supervise: a run that is to end has its container stopped until the wait
\* returns; if Docker becomes unavailable the run is left to the reconciler.
Watch(r) ==
    /\ Doing(r, "watch")
    /\ \/ /\ cont[r] # "running"
          /\ at' = [at EXCEPT ![r].pc = "finish", ![r].saw = cont[r]]
          /\ Keep /\ Fine /\ UNCHANGED cont
       \/ /\ cont[r] = "running" /\ HasIntent(r)
          /\ cont' = [cont EXCEPT ![r] = "exited"]
          /\ UNCHANGED <<at, op, mon>> /\ Fine
       \/ GiveUp(r) /\ UNCHANGED cont
    /\ UNCHANGED <<run, ctl, sock, up>>

\* monitor.wait outside of supervise: the container has ended, is missing, or
\* Docker does not tell.
AwaitExit(w) ==
    LET r == at[w].run IN
    /\ Doing(w, "wait")
    /\ \/ /\ cont[r] # "running"
          /\ at' = [at EXCEPT ![w].pc = "finish", ![w].saw = cont[r]] /\ Fine
       \/ at' = [at EXCEPT ![w].pc = "finish", ![w].saw = "absent"] /\ Mishap
    /\ Keep
    /\ UNCHANGED <<durable, sock, up>>

\* The terminal state of a run with a stop or a cancellation on record.
IntentTerminal(r) == IF run[r].cancelled THEN "cancelled" ELSE "interrupted"

\* The terminal state finishObservedRunContext decides on from what it reads,
\* given the container as the wait left it.
Observed(r, c) ==
    IF run[r].cancelled \/ run[r].want = "stop" THEN IntentTerminal(r)
    ELSE IF c = "absent" THEN "interrupted"
    ELSE "exited"

\* finishObservedRunContext reads the run and the task; a log that does not
\* drain ends it early.
Finish(w) ==
    /\ Doing(w, "finish")
    /\ \/ Decide(w, Observed(at[w].run, at[w].saw)) /\ Keep /\ Fine
       \/ GiveUp(w)
    /\ UNCHANGED <<run, cont, ctl, sock, up>>

\* RecordRuntimeRunTerminal, a transaction of its own, and then cleanupRun if
\* the launch was prepared.
RecordTerminal(w) ==
    LET r == at[w].run IN
    /\ Doing(w, "terminal")
    /\ run[r].state = "active" => at[w].saw # "failed"
    /\ run' = [run EXCEPT ![r].state = at[w].saw]
    /\ Fine
    /\ IF run[r].nonce THEN Goto(w, "stop") /\ Keep ELSE Return(w)
    /\ UNCHANGED <<cont, ctl, sock, up>>

-----------------------------------------------------------------------------
(* Cleanup.  cleanupRun runs the steps of runtimeCleanupSteps.             *)

\* Mutant: a blocked cleanup is not tried again.
PendingOnly == {"pending"}

\* RunsNeedingCleanup
NeedsCleanup == {"pending", "blocked"}

\* cleanupTerminalRuns reads the runs first and takes their operation later.
ListCleanup(w, r) ==
    /\ up
    /\ w \in {"reconciler", "gc"}
    /\ at[w] = Idle
    /\ run[r].state \in Ended
    /\ run[r].cleanup \in NeedsCleanup
    /\ at' = [at EXCEPT ![w] = [pc |-> "listed", run |-> r, saw |-> run[r].cleanup]]
    /\ Fine
    /\ UNCHANGED <<durable, sock, op, mon, up>>

TakeCleanup(w) ==
    LET r == at[w].run IN
    /\ Doing(w, "listed")
    /\ Fine
    /\ \/ /\ Free(r)
          /\ op' = [op EXCEPT ![r] = w]
          /\ Goto(w, IF at[w].saw = "blocked" THEN "retry" ELSE "stop")
       \/ ~Free(r) /\ at' = [at EXCEPT ![w] = Idle] /\ UNCHANGED op
    /\ UNCHANGED <<durable, sock, mon, up>>

\* RecordRunCleanup(pending), refused when the cleanup has ended meanwhile.
RetryCleanup(w) ==
    LET r == at[w].run IN
    /\ Doing(w, "retry")
    /\ Fine
    /\ IF run[r].cleanup = "removed"
       THEN Return(w) /\ UNCHANGED run
       ELSE /\ run' = [run EXCEPT ![r].cleanup = "pending"]
            /\ Goto(w, "stop") /\ Keep
    /\ UNCHANGED <<cont, ctl, sock, up>>

\* stopContainer
StopContainer(w) ==
    LET r == at[w].run
        stopped == [cont EXCEPT ![r] = IF @ = "running" THEN "exited" ELSE @]
    IN
    /\ Doing(w, "stop")
    /\ \/ cont' = stopped /\ Goto(w, "remove") /\ Fine
       \/ cont' \in {cont, stopped} /\ Goto(w, "block") /\ Mishap
    /\ Keep
    /\ UNCHANGED <<run, ctl, sock, up>>

\* removeContainer
RemoveContainer(w) ==
    LET r == at[w].run
        gone == [cont EXCEPT ![r] = "absent"]
    IN
    /\ Doing(w, "remove")
    /\ \/ cont' = gone /\ Goto(w, "close") /\ Fine
       \/ cont' \in {cont, gone} /\ Goto(w, "block") /\ Mishap
    /\ Keep
    /\ UNCHANGED <<run, ctl, sock, up>>

\* closeRunAPISocket
CloseSocket(w) ==
    LET r == at[w].run IN
    /\ Doing(w, "close")
    /\ sock' = [sock EXCEPT ![r] = FALSE]
    /\ Goto(w, "rmctl") /\ Keep /\ Fine
    /\ UNCHANGED <<durable, up>>

\* Mutant: a directory that is not the run's own is passed over.
RemoveIdentified(c) ==
    CASE c \in {"absent", "bare"} -> "removed"
      [] OTHER -> "rmdir"

\* removeRunControl: a directory is removed only if it carries the identity of
\* the run.
RemoveControl(c) ==
    CASE c = "absent" -> "removed"
      [] c = "bare" -> "block"
      [] OTHER -> "rmdir"

CheckControl(w) ==
    LET r == at[w].run IN
    /\ Doing(w, "rmctl")
    /\ Goto(w, RemoveControl(ctl[r]))
    /\ ctl' = IF RemoveControl(ctl[r]) = "rmdir" THEN [ctl EXCEPT ![r] = "bare"] ELSE ctl
    /\ Keep /\ Fine
    /\ UNCHANGED <<run, cont, sock, up>>

\* The second half of RemoveAll, whose first half removed the files.
RemoveDirectory(w) ==
    LET r == at[w].run IN
    /\ Doing(w, "rmdir")
    /\ \/ ctl' = [ctl EXCEPT ![r] = "absent"] /\ Goto(w, "removed") /\ Fine
       \/ Goto(w, "block") /\ Mishap /\ UNCHANGED ctl
    /\ Keep
    /\ UNCHANGED <<run, cont, sock, up>>

\* RecordRunCleanup(removed) and RecordRunCleanup(blocked): both start from
\* pending only, so a late writer changes nothing.
RecordCleanup(w) ==
    LET r == at[w].run
        c == IF at[w].pc = "removed" THEN "removed" ELSE "blocked"
    IN
    /\ up
    /\ at[w].pc \in {"removed", "block"}
    /\ run' = [run EXCEPT ![r].cleanup = IF @ = "pending" THEN c ELSE @]
    /\ Return(w) /\ Fine
    /\ UNCHANGED <<cont, ctl, sock, up>>

-----------------------------------------------------------------------------
(* Reconciliation of a live run that no worker owns.                       *)

\* reconcileOwnedRun; it reads the run again, so the list it came from does
\* not matter.
TakeLive(r) ==
    /\ up
    /\ at["reconciler"] = Idle
    /\ Live(r)
    /\ Free(r)
    /\ op' = [op EXCEPT ![r] = "reconciler"]
    /\ at' = [at EXCEPT !["reconciler"] =
                IF run[r].nonce THEN [pc |-> "inspect", run |-> r, saw |-> "none"]
                ELSE [pc |-> "terminal", run |-> r, saw |-> "failed"]]
    /\ Fine
    /\ UNCHANGED <<durable, sock, mon, up>>

\* How reconcileRun ends a run whose container is missing.
MissingTerminal(r) ==
    IF HasIntent(r) THEN IntentTerminal(r)
    ELSE IF run[r].phase \in {"start_issued", "process_observed"} THEN "interrupted"
    ELSE "failed"

Inspect(w) ==
    LET r == at[w].run IN
    /\ Doing(w, "inspect")
    /\ \/ cont[r] = "absent" /\ Decide(w, MissingTerminal(r)) /\ Keep /\ Fine
       \/ /\ cont[r] # "absent"
          /\ at' = [at EXCEPT ![w].pc = "found", ![w].saw = cont[r]]
          /\ Keep /\ Fine
       \/ GiveUp(w)
    /\ UNCHANGED <<durable, sock, up>>

\* A container the row does not know is the one the launch created.
RecordFound(w) ==
    LET r == at[w].run IN
    /\ Doing(w, "found")
    /\ run' = IF run[r].cid THEN run ELSE [run EXCEPT ![r] = WithContainer(@)]
    /\ Goto(w, "adopt") /\ Keep /\ Fine
    /\ UNCHANGED <<cont, ctl, sock, up>>

\* validateAdoptedContainer builds the command of the container again, without
\* the agent's provider settings.
Recognised(r) == ~run[r].tuned

\* validateAdoptedContainer and validateRunControlLineage: the container and the
\* control directory are the run's own.  Then a run that is to end is stopped.
Adopt(w) ==
    LET r == at[w].run
        s == at[w].saw
        own == Recognised(r) /\ ctl[r] = "ready"
    IN
    /\ Doing(w, "adopt")
    /\ \/ ~own /\ Return(w) /\ Fine
       \/ own /\ HasIntent(r) /\ s = "created"
          /\ Decide(w, IntentTerminal(r)) /\ Keep /\ Fine
       \/ own /\ HasIntent(r) /\ s # "created" /\ Goto(w, "halt")
          /\ mon' = [mon EXCEPT ![r] = w] /\ UNCHANGED op /\ Fine
       \/ own /\ ~HasIntent(r) /\ Goto(w, "rebuild") /\ Keep /\ Fine
       \/ GiveUp(w)
    /\ UNCHANGED <<durable, sock, up>>

\* Mutant: the socket of the dead daemon is taken for granted.
ControlKept(open) == open

\* rebuildControl serves the socket again.
ControlRebuilt(open) == TRUE

\* Mutant: the recorded phase alone decides.
ContinueByPhase(c, phase) ==
    CASE phase = "created" -> "issue"
      [] phase = "start_issued" -> "start"
      [] OTHER -> "attach"

\* Where reconcileRun goes on with a container found in status c.
Continue(c, phase) ==
    CASE c = "exited" -> "wait"
      [] c = "running" -> "attach"
      [] c = "created" /\ phase = "created" -> "issue"
      [] OTHER -> "start"

\* rebuildControl, which is refused when the token was revoked meanwhile; the
\* run then goes on from where its container was found.
Rebuild(w) ==
    LET r == at[w].run IN
    /\ Doing(w, "rebuild")
    /\ \/ /\ sock[r] \/ ~HasIntent(r)
          /\ sock' = [sock EXCEPT ![r] = ControlRebuilt(@)]
          /\ Goto(w, Continue(at[w].saw, run[r].phase)) /\ Keep /\ Fine
       \/ ~sock[r] /\ HasIntent(r) /\ Return(w) /\ Fine /\ UNCHANGED sock
       \/ GiveUp(w) /\ UNCHANGED sock
    /\ UNCHANGED <<durable, up>>

\* stopReconciledRun
Halt(w) ==
    LET r == at[w].run
        stopped == [cont EXCEPT ![r] = IF @ = "running" THEN "exited" ELSE @]
    IN
    /\ Doing(w, "halt")
    /\ \/ cont' = stopped /\ Goto(w, "wait") /\ Keep /\ Fine
       \/ cont' \in {cont, stopped} /\ GiveUp(w)
    /\ UNCHANGED <<run, ctl, sock, up>>

\* adoptRunning
Attach(w) ==
    LET r == at[w].run IN
    /\ Doing(w, "attach")
    /\ \/ /\ run[r].state = "active" /\ Supervise(w, r) /\ Fine
       \/ /\ run[r].state = "starting"
          /\ run[r].phase = "start_issued"
          /\ mon' = [mon EXCEPT ![r] = r] /\ UNCHANGED op
          /\ Goto(w, "activate") /\ Fine
       \/ GiveUp(w)
    /\ UNCHANGED <<durable, sock, up>>

-----------------------------------------------------------------------------
(* The operator, the agent, the container and the machine.                 *)

\* RequestRuntimeStop, by the operator, a deadline, a stall or a failed log.
RequestStop(r) ==
    /\ Live(r)
    /\ run[r].want = "none"
    /\ ~run[r].cancelled
    /\ run' = [run EXCEPT ![r].want = "stop"]
    /\ UNCHANGED <<cont, ctl, memory, up, trouble>>

\* CancelTask
CancelTask(r) ==
    /\ Live(r)
    /\ run[r].want # "outcome"
    /\ ~run[r].cancelled
    /\ run' = [run EXCEPT ![r].cancelled = TRUE]
    /\ UNCHANGED <<cont, ctl, memory, up, trouble>>

\* RequestOutcome, from inside the container through the socket.
RequestOutcome(r) ==
    /\ run[r].state = "active"
    /\ run[r].want = "none"
    /\ ~run[r].cancelled
    /\ cont[r] = "running"
    /\ sock[r]
    /\ run' = [run EXCEPT ![r].want = "outcome"]
    /\ UNCHANGED <<cont, ctl, memory, up, trouble>>

ContainerExits(r) ==
    /\ cont[r] = "running"
    /\ cont' = [cont EXCEPT ![r] = "exited"]
    /\ UNCHANGED <<run, ctl, memory, up, trouble>>

\* The container is gone without the daemon's doing.
ContainerLost(r) ==
    /\ cont[r] # "absent"
    /\ Mishap
    /\ cont' = [cont EXCEPT ![r] = "absent"]
    /\ UNCHANGED <<run, ctl, memory, up>>

\* The daemon dies; so do its workers, its maps and its sockets.
Crash ==
    /\ up
    /\ Mishap
    /\ up' = FALSE
    /\ sock' = [r \in Runs |-> FALSE]
    /\ op' = [r \in Runs |-> None]
    /\ mon' = [r \in Runs |-> None]
    /\ at' = [w \in Workers |-> Idle]
    /\ UNCHANGED durable

Restart ==
    /\ ~up
    /\ up' = TRUE
    /\ UNCHANGED <<durable, memory, trouble>>

-----------------------------------------------------------------------------
Init ==
    /\ run = [r \in Runs |-> NoRun]
    /\ cont = [r \in Runs |-> "absent"]
    /\ ctl = [r \in Runs |-> "absent"]
    /\ sock = [r \in Runs |-> FALSE]
    /\ op = [r \in Runs |-> None]
    /\ mon = [r \in Runs |-> None]
    /\ at = [w \in Workers |-> Idle]
    /\ up = TRUE
    /\ trouble = 0

\* The next step of a worker's work on a run.
LaunchStep(w) ==
    \/ BeginLaunch(w) \/ MakeDirectories(w) \/ WriteControl(w) \/ OpenSocket(w)
    \/ CreateContainer(w) \/ RecordCreated(w) \/ IssueStart(w)
    \/ StartContainer(w) \/ VerifyLive(w) \/ Activate(w)

ReconcileStep(w) ==
    \/ Inspect(w) \/ RecordFound(w) \/ Adopt(w) \/ Rebuild(w) \/ Halt(w) \/ Attach(w)

EndStep(w) ==
    \/ AwaitExit(w) \/ Finish(w) \/ RecordTerminal(w)
    \/ TakeCleanup(w) \/ RetryCleanup(w) \/ StopContainer(w) \/ RemoveContainer(w)
    \/ CloseSocket(w) \/ CheckControl(w) \/ RemoveDirectory(w) \/ RecordCleanup(w)

WorkerStep(w) ==
    \/ LaunchStep(w)
    \/ ReconcileStep(w)
    \/ EndStep(w)
    \/ w \in Runs /\ Watch(w)

Environment(r) ==
    \/ RequestStop(r) \/ CancelTask(r) \/ RequestOutcome(r)
    \/ ContainerExits(r) \/ ContainerLost(r)

Next ==
    \/ \E w \in Workers : WorkerStep(w)
    \/ \E r \in Runs : Claim(r) \/ TakeLive(r) \/ Environment(r)
    \/ \E w \in {"reconciler", "gc"}, r \in Runs : ListCleanup(w, r)
    \/ Crash
    \/ Restart

Spec == Init /\ [][Next]_vars

\* Every worker goes on with what it has begun, the daemon is restarted, and
\* the ticking reconciler and garbage collector come to every run in the end.
\* The number of faults is finite.
Fairness ==
    /\ \A w \in Workers : WF_vars(WorkerStep(w))
    /\ WF_vars(Restart)
    /\ \A r \in Runs : SF_vars(TakeLive(r)) /\ SF_vars(ListCleanup("gc", r))

FairSpec == Spec /\ Fairness

-----------------------------------------------------------------------------
(* Properties.                                                             *)

\* At work on a run, with its operation or its monitor in hand.
AtWork(w) == at[w].pc \notin {"idle", "listed"}

\* Two workers never work on the same run, whatever was handed over, listed
\* early or left behind: acquireRunOperation, registerMonitor and their
\* releases keep them apart, also while a launch becomes a supervisor.
SingleOwner ==
    \A v, w \in Workers :
        v # w /\ AtWork(v) /\ AtWork(w) => at[v].run # at[w].run

\* An agent never has two containers, over crashes, lost answers of Docker and
\* retried cleanups: ClaimNext waits for the cleanup of the previous run.
OneContainer ==
    \A r, s \in Runs :
        cont[r] # "absent" /\ cont[s] # "absent" => r = s

\* The row of a run never says less than the truth: a crash at any moment
\* leaves a row from which the container is found and cleaned up
\* (BeginRunLaunch), a container that may have been started is never taken for
\* one that was not (RecordRunStartIssued), and a cleanup on record as removed
\* has left no container, no control directory with the run's token and no
\* socket behind (runtimeCleanupSteps).
WriteAhead ==
    \A r \in Runs :
        /\ cont[r] # "absent" => run[r].nonce /\ run[r].cleanup \in {"pending", "blocked"}
        /\ cont[r] \in {"running", "exited"} =>
                run[r].phase \in {"start_issued", "process_observed"}
        /\ run[r].cleanup = "removed" =>
                cont[r] = "absent" /\ ctl[r] = "absent" /\ ~sock[r]

\* The CLI of a run is created and started at most once: whoever is about to
\* call Docker, the launcher or the reconciler that takes over from a crashed
\* one, the container has not run before.
StartedOnce ==
    \A w \in Workers :
        /\ at[w].pc = "create" => cont[at[w].run] = "absent"
        /\ at[w].pc \in {"issue", "start"} => cont[at[w].run] \in {"created", "absent"}

\* A live run with a container has all of its control files, so the checks of
\* an adoption do not refuse what the launch left behind; and a watched run is
\* active and its agent can reach the daemon, after a launch as after an
\* adoption (rebuildControl).
AgentReachable ==
    \A r \in Runs :
        /\ Live(r) /\ cont[r] # "absent" => ctl[r] = "ready"
        /\ at[r].pc = "watch" => run[r].state = "active" /\ sock[r]

\* A run that is to end does end.
StopConverges ==
    \A r \in Runs :
        Live(r) /\ (run[r].want # "none" \/ run[r].cancelled) ~> run[r].state \in Ended

\* The running container of a live run does not stay without a supervisor:
\* after a crash or a failure of Docker the reconciler takes it over.
TakenOver ==
    \A r \in Runs :
        Live(r) /\ cont[r] = "running" ~>
            at[r].pc = "watch" \/ cont[r] # "running" \/ ~Live(r)

\* An ended run is cleaned up and frees its agent, unless its control directory
\* was left without the run's identity.
CleanupConverges ==
    \A r \in Runs :
        run[r].state \in Ended /\ run[r].cleanup \in {"pending", "blocked"} ~>
            \/ run[r].cleanup = "removed"
            \/ run[r].cleanup = "blocked" /\ ctl[r] = "bare"

\* need/acceptance.md:306, terminal resources are finally removed.  Violated:
\* the control directory exists before its identity file does, and a directory
\* without one is never removed.
CleanupCompletes ==
    \A r \in Runs :
        run[r].state \in Ended /\ run[r].cleanup = "pending" ~>
            run[r].cleanup = "removed"

\* need/runtime.md:273, a late normal exit does not override an earlier cancel.
\* Violated: the task is read before the terminal state is recorded.
CancelWins ==
    [][\A r \in Runs : run[r].cancelled => ~(Live(r) /\ run'[r].state = "exited")]_vars

=============================================================================
