---------------------------- MODULE TaskLedger ----------------------------
(***************************************************************************)
(* The durable ledger of one CoordPlane project: the task, run and message *)
(* rows, the agents' statuses and the project's status, and every          *)
(* transaction of internal/core that changes them.                         *)
(*                                                                         *)
(* Each action is one SQLite transaction (Repository.Transact), so it is   *)
(* atomic; what is concurrent is the order in which the daemon's workers,  *)
(* the agents inside their containers and the operator issue them.  A      *)
(* handler that reads in a first transaction, asks Git, and writes in a    *)
(* second one is the action of its second transaction, which repeats every *)
(* check on the row it finds.                                              *)
(*                                                                         *)
(* A rejected request changes no row and is not an action.                 *)
(*                                                                         *)
(* Abstractions.  The columns of a row that are fixed when it is inserted  *)
(* (kind, assignee, parent) are constant functions of its identifier.      *)
(* Clock times are left out: a row whose next_run_at or next_delivery_at   *)
(* lies in the future is one whose turn comes later.  Every agent message  *)
(* is addressed to the assignee of its delivery task (agentDeliveryTask,   *)
(* notifyParentOfChild, insertGitTaskMessage), so its recipient is not     *)
(* repeated.  Acknowledged and cancelled messages, and messages to the     *)
(* operator, are read by no transaction that decides anything: they leave  *)
(* the table.  A version counts the writes to the columns modelled here; a *)
(* write to next_run_at alone is made only on a queued row, whose version  *)
(* no fence remembers.  The launch phases between the intent and the       *)
(* observed process touch the run row alone and belong to the launch       *)
(* protocol, not to this module.                                           *)
(***************************************************************************)
EXTENDS Naturals, FiniteSets

CONSTANTS
    Tasks, Runs, Msgs, Agents,  \* identifiers that rows may be inserted under
    None,                       \* the empty reference ""
    Kind,                       \* task -> its kind
    Assignee,                   \* task -> assignee_agent_id; None: a human's
    Parent,                     \* task -> parent_task_id
    MaxRuns,                    \* service.maxRuns, live runs over all agents
    MaxRetries,                 \* max_retries of every task
    MaxDeliveries,              \* max_deliveries of an agent message
    TerminalStates,             \* the terminal run states runs may end in
    Ops                         \* the optional operations of the instance

Kinds == {"conversation", "work", "integration"}

\* Operations of the operator and faults of the environment that an instance
\* may leave out, so that TLC can cover the others with more rows.
OptionalOps == {"pause", "archive", "fault", "stop", "delete", "ack", "send", "retry"}

AllTerminal == {"exited", "failed", "interrupted", "cancelled", "timed_out"}

ASSUME LedgerAssumption ==
    /\ None \notin Tasks \cup Runs \cup Msgs \cup Agents
    /\ Kind \in [Tasks -> Kinds]
    /\ Assignee \in [Tasks -> Agents \cup {None}]
    /\ Parent \in [Tasks -> Tasks \cup {None}]
    /\ \A t \in Tasks : Kind[t] # "work" => /\ Assignee[t] # None
                                            /\ Parent[t] = None
    /\ \A t \in Tasks : Parent[t] # t
    /\ MaxRuns \in Nat
    /\ MaxRetries \in Nat
    /\ MaxDeliveries \in Nat
    /\ TerminalStates \subseteq AllTerminal
    /\ Ops \subseteq OptionalOps

VARIABLES
    task,       \* the tasks table
    run,        \* the runs table
    msg,        \* the unresolved agent messages
    agent,      \* agent -> status
    project     \* the project's status

vars == <<task, run, msg, agent, project>>

-----------------------------------------------------------------------------
(* Rows.                                                                   *)

Closed == {"completed", "cancelled"}

TaskStatuses == {"queued", "running", "finishing", "waiting", "submitted",
                 "failed"} \cup Closed

TaskRow == [status   : {"none", "deleted"} \cup TaskStatuses,
            version  : Nat,
            gen      : Nat,                       \* generation
            run      : Runs \cup {None},          \* current_run_id
            retry    : Nat,                       \* retry_count
            failure  : BOOLEAN,                   \* failure_reason # ""
            head     : Runs \cup {None},          \* head_run_id: the captured result
            pending  : {"none", "capture", "advance"},
            pendVer  : Nat,                       \* pending_action_version
            pendRun  : Runs \cup {None},          \* pending_action_run_id
            accepted : Agents \cup {None},        \* accepted_integration_agent_id
            link     : Tasks \cup {None},         \* integration_task_id
            source   : Tasks \cup {None},         \* source_task_id
            srcHead  : Runs \cup {None},          \* source_run_id
            srcVer   : Nat]                       \* source_accept_version

RunRow == [state    : {"none", "deleted", "starting", "active"} \cup AllTerminal,
           task     : Tasks \cup {None},
           gen      : Nat,
           prepared : BOOLEAN,                    \* launch_nonce # ""
           cleanup  : {"not_needed", "pending", "blocked", "removed"},
           outcome  : {"none", "wait", "fail", "submit"},   \* requested_outcome
           revoked  : BOOLEAN,                    \* token_revoked_at # ""
           stop     : BOOLEAN]                    \* stop_requested_at # ""

MsgRow == [state : {"none", "pending", "delivered"},
           task  : Tasks \cup {None},
           run   : Runs \cup {None},              \* delivered_run_id
           count : Nat,                           \* delivery_count
           wake  : BOOLEAN]

NewTask(status, version) ==
    [status |-> status, version |-> version, gen |-> 0, run |-> None,
     retry |-> 0, failure |-> FALSE, head |-> None, pending |-> "none",
     pendVer |-> 0, pendRun |-> None, accepted |-> None, link |-> None,
     source |-> None, srcHead |-> None, srcVer |-> 0]

NoRun == [state |-> "none", task |-> None, gen |-> 0, prepared |-> FALSE,
          cleanup |-> "not_needed", outcome |-> "none",
          revoked |-> FALSE, stop |-> FALSE]

NoMsg == [state |-> "none", task |-> None, run |-> None, count |-> 0,
          wake |-> FALSE]

NewMsg(t, wake) == [NoMsg EXCEPT !.state = "pending", !.task = t, !.wake = wake]

ProjectStatuses == {"creating", "active", "error", "archived", "deleted"}

TypeOK ==
    /\ task \in [Tasks -> TaskRow]
    /\ run \in [Runs -> RunRow]
    /\ msg \in [Msgs -> MsgRow]
    /\ agent \in [Agents -> {"active", "paused", "archived"}]
    /\ project \in ProjectStatuses

-----------------------------------------------------------------------------
(* Reading the tables.                                                     *)

Exists(row) == row.status \in TaskStatuses
IsOpen(row) == row.status \in TaskStatuses \ Closed
Live(row) == row.state \in {"starting", "active"}
Terminal(row) == row.state \in AllTerminal

\* taskAcceptsDelivery
Accepts(row) == row.status \in {"queued", "running", "finishing", "waiting"}

\* Mutant: the lock of a linked source is forgotten.
ActionAvailableUnlinked(row) ==
    /\ row.status # "finishing"
    /\ row.pending = "none"

\* taskActionAvailable
ActionAvailable(row) ==
    /\ row.status # "finishing"
    /\ row.pending = "none"
    /\ row.link = None

\* max_deliveries = 0 is no limit.
Exhausted(row) == MaxDeliveries > 0 /\ row.count >= MaxDeliveries

\* Mutant: a message that was handed out before does not count.
PendingWakeFresh(ms, t) ==
    \E m \in Msgs : /\ ms[m].state = "pending"
                    /\ ms[m].task = t
                    /\ ms[m].wake
                    /\ ms[m].count = 0

\* PendingWakeAt: an eligible wake message waits for task t.
PendingWake(ms, t) ==
    \E m \in Msgs : /\ ms[m].state = "pending"
                    /\ ms[m].task = t
                    /\ ms[m].wake
                    /\ ~Exhausted(ms[m])

\* The open conversation of an agent: none or one, by the unique index
\* tasks_one_open_conversation.
Conversation(tk, a) ==
    {c \in Tasks : /\ Kind[c] = "conversation"
                   /\ Assignee[c] = a
                   /\ IsOpen(tk[c])}

\* Mutant: a run that has ended does not count.
OccupiesLive(r, a) ==
    /\ Live(run[r])
    /\ Assignee[run[r].task] = a

\* AgentRuntimeOccupancy: a run of agent a is live or not yet cleaned up.
Occupies(r, a) ==
    /\ run[r].state \notin {"none", "deleted"}
    /\ Assignee[run[r].task] = a
    /\ Live(run[r]) \/ run[r].cleanup \in {"pending", "blocked"}

\* authenticateRun: the token of run r acts for a running task.
Authentic(r) ==
    /\ run[r].state = "active"
    /\ ~run[r].revoked
    /\ task[run[r].task].run = r
    /\ task[run[r].task].gen = run[r].gen
    /\ task[run[r].task].status = "running"

\* integrationSourceFence: the source row is the one integration task i was
\* linked to.
SourceFence(tk, i) ==
    LET s == tk[i].source IN
    /\ s # None
    /\ tk[s].status = "submitted"
    /\ tk[s].version = tk[i].srcVer
    /\ tk[s].link = i
    /\ tk[s].head = tk[i].srcHead
    /\ tk[s].accepted = Assignee[i]

-----------------------------------------------------------------------------
(* Transactions.  A transaction that writes tasks and messages in several  *)
(* steps builds the tables it commits, tx.task and tx.msg; tx.project is   *)
(* the project's status as its later steps read it.                        *)

Begin == [task |-> task, msg |-> msg, project |-> project]

Commit(tx) == task' = tx.task /\ msg' = tx.msg

WithTask(tx, t, row) == [tx EXCEPT !.task[t] = row]

FreeMsgs(tx) == {m \in Msgs : tx.msg[m].state = "none"}

\* Mutant: a message touches the row it cannot wake.
WokenTouches(row) ==
    [row EXCEPT !.status = IF @ = "waiting" THEN "queued" ELSE @,
                !.version = @ + 1]

\* Mutant: the wake does not count as a write.
WokenSilently(row) ==
    [row EXCEPT !.status = IF @ = "waiting" THEN "queued" ELSE @]

\* waiting -> queued, as wakeDeliveryTask and its siblings write it.
Woken(row) ==
    IF row.status = "waiting"
    THEN [row EXCEPT !.status = "queued", !.version = @ + 1]
    ELSE row

\* clearTaskAction
Cleared(row) == [row EXCEPT !.pending = "none", !.pendVer = 0, !.pendRun = None]

\* acknowledgeAgentMessages: the messages of A are resolved.
Acknowledged(tx, A) ==
    [tx EXCEPT !.msg = [m \in Msgs |-> IF m \in A THEN NoMsg ELSE tx.msg[m]]]

\* The messages the agent of run r may acknowledge.
Inbox(r) ==
    {m \in Msgs : /\ msg[m].state # "none"
                  /\ Assignee[msg[m].task] = Assignee[run[r].task]}

\* The acknowledgements a task operation may carry: none when the operator
\* issues it, some of its inbox when an authenticated run does.
BundledAcks ==
    {{}} \cup UNION {SUBSET Inbox(r) : r \in {x \in Runs : Authentic(x)}}

\* Mutant: only the messages of the run's own task come back.
RedeliveredOwn(tx, r) ==
    [tx EXCEPT !.msg = [m \in Msgs |->
        IF /\ tx.msg[m].state = "delivered"
           /\ tx.msg[m].run = r
           /\ tx.msg[m].task = run[r].task
        THEN [tx.msg[m] EXCEPT !.state = "pending", !.run = None]
        ELSE tx.msg[m]]]

\* redeliverRunMessages: what run r was handed and did not acknowledge is
\* pending again.
Redelivered(tx, r) ==
    [tx EXCEPT !.msg = [m \in Msgs |->
        IF tx.msg[m].state = "delivered" /\ tx.msg[m].run = r
        THEN [tx.msg[m] EXCEPT !.state = "pending", !.run = None]
        ELSE tx.msg[m]]]

\* Where disposeUnresolvedMessages sends the messages of task t.
RerouteTargets(tx, t) ==
    {c \in Conversation(tx.task, Assignee[t]) :
        /\ c # t
        /\ Accepts(tx.task[c])
        /\ tx.project = "active"
        /\ agent[Assignee[t]] # "archived"}

\* disposeUnresolvedMessages: task t takes no more deliveries; its messages
\* move to the agent's conversation, which a wake message queues, or are
\* cancelled.
Disposed(tx, t) ==
    LET to == RerouteTargets(tx, t)
        left == {m \in Msgs : tx.msg[m].state # "none" /\ tx.msg[m].task = t}
        wakes == \E m \in left : tx.msg[m].wake /\ ~Exhausted(tx.msg[m])
        tasks == [c \in Tasks |-> IF c \in to /\ wakes
                                  THEN Woken(tx.task[c]) ELSE tx.task[c]]
        msgs == [m \in Msgs |->
                   IF m \notin left THEN tx.msg[m]
                   ELSE IF to = {} THEN NoMsg
                   ELSE [tx.msg[m] EXCEPT !.state = "pending",
                                          !.task = CHOOSE c \in to : TRUE,
                                          !.run = None]]
    IN [tx EXCEPT !.task = tasks, !.msg = msgs]

\* notifyParentOfChild addresses the parent's agent; otherwise the operator.
NotifiesAgent(tx, t) ==
    LET p == Parent[t] IN
    /\ p # None
    /\ tx.project = "active"
    /\ Accepts(tx.task[p])
    /\ Assignee[p] # None
    /\ agent[Assignee[p]] # "archived"

\* notifyParentOfChild, writing the child_result message into slot m.
Notified(tx, t, m) ==
    IF NotifiesAgent(tx, t)
    THEN [tx EXCEPT !.task = [tx.task EXCEPT ![Parent[t]] = Woken(@)],
                    !.msg = [tx.msg EXCEPT ![m] = NewMsg(Parent[t], TRUE)]]
    ELSE tx

\* Slots for that message; Msgs bounds the table.
Slots(tx, t) == IF NotifiesAgent(tx, t) THEN FreeMsgs(tx) ELSE {None}

\* The tail of every transaction that ends task t's deliveries.
Settle(tx, t) ==
    LET done == Disposed(tx, t) IN
    \E m \in Slots(done, t) : Commit(Notified(done, t, m))

-----------------------------------------------------------------------------
(* Scheduling and the launch of a run.                                     *)

\* Mutant: a claim reuses the generation of the row.
SameGeneration(row) == row.gen

\* The generation of the next claim.
NextGeneration(row) == row.gen + 1

\* ClaimNext inserts run r for the runnable task t.
ClaimNext(t, r) ==
    /\ run[r].state = "none"
    /\ task[t].status = "queued"
    /\ task[t].run = None
    /\ project = "active"
    /\ Assignee[t] # None
    /\ agent[Assignee[t]] = "active"
    /\ ~\E x \in Runs : Occupies(x, Assignee[t])
    /\ Cardinality({x \in Runs : Live(run[x])}) < MaxRuns
    /\ task' = [task EXCEPT ![t].gen = NextGeneration(task[t]), ![t].run = r,
                            ![t].version = @ + 1]
    /\ run' = [run EXCEPT ![r] = [NoRun EXCEPT !.state = "starting", !.task = t,
                                               !.gen = NextGeneration(task[t])]]
    /\ UNCHANGED <<msg, agent, project>>

\* Mutant: the task may have been cancelled since.
ClaimUnfenced(r) == task[run[r].task].run = r

\* Run r is the claim its queued task still records.
ClaimHolds(r) ==
    /\ task[run[r].task].status = "queued"
    /\ task[run[r].task].run = r
    /\ task[run[r].task].gen = run[r].gen

BeginRunLaunch(r) ==
    /\ run[r].state = "starting"
    /\ ~run[r].prepared
    /\ ClaimHolds(r)
    /\ run' = [run EXCEPT ![r].prepared = TRUE, ![r].cleanup = "pending"]
    /\ UNCHANGED <<task, msg, agent, project>>

ObserveProcessAndActivateRun(r) ==
    /\ run[r].state = "starting"
    /\ run[r].prepared
    /\ ClaimHolds(r)
    /\ run' = [run EXCEPT ![r].state = "active"]
    /\ task' = [task EXCEPT ![run[r].task].status = "running",
                            ![run[r].task].version = @ + 1]
    /\ UNCHANGED <<msg, agent, project>>

\* The messages RecordMessagesDelivered may hand to run r.
Deliverable(r) ==
    {m \in Msgs :
        /\ msg[m].state = "pending"
        /\ ~Exhausted(msg[m])
        /\ Assignee[msg[m].task] = Assignee[run[r].task]
        /\ msg[m].task = run[r].task \/ Kind[msg[m].task] = "conversation"
        /\ Accepts(task[msg[m].task])}

RecordMessagesDelivered(r) ==
    /\ Live(run[r])
    /\ task[run[r].task].run = r
    /\ task[run[r].task].gen = run[r].gen
    /\ \E D \in SUBSET Deliverable(r) \ {{}} :
          msg' = [m \in Msgs |->
                    IF m \in D
                    THEN [msg[m] EXCEPT !.state = "delivered", !.run = r,
                                        !.count = @ + 1]
                    ELSE msg[m]]
    /\ UNCHANGED <<task, run, agent, project>>

-----------------------------------------------------------------------------
(* Outcome, stop, terminal and cleanup of a run.                           *)

\* RequestOutcome: the run's last word.  Its token dies with it, and a
\* submit leaves a capture intent fenced by the version it writes.
RequestOutcome(r, o) ==
    LET t == run[r].task
        row == [task[t] EXCEPT !.status = "finishing", !.version = @ + 1]
        capture == [row EXCEPT !.pending = "capture", !.pendRun = r,
                               !.pendVer = row.version]
    IN
    /\ Authentic(r)
    /\ o = "submit" => Kind[t] # "conversation"
    /\ task[t].pending = "none"
    /\ run' = [run EXCEPT ![r].outcome = o, ![r].revoked = TRUE]
    /\ \E A \in SUBSET Inbox(r) :
          Commit(WithTask(Acknowledged(Begin, A), t,
                          IF o = "submit" THEN capture ELSE row))
    /\ UNCHANGED <<agent, project>>

AcknowledgeAgentMessages(r) ==
    /\ Authentic(r)
    /\ \E A \in SUBSET Inbox(r) \ {{}} : Commit(Acknowledged(Begin, A))
    /\ UNCHANGED <<run, agent, project>>

\* Mutant: the token is revoked but nobody is asked to stop the process.
RevokedOnly(row) == [row EXCEPT !.revoked = TRUE]

\* stop_requested_at and token_revoked_at are written together.
StopRequested(row) == [row EXCEPT !.stop = TRUE, !.revoked = TRUE]

\* requestRunStop, by the operator or by the daemon.
RequestRunStop(r) ==
    /\ Live(run[r])
    /\ ~run[r].stop
    /\ run' = [run EXCEPT ![r] = StopRequested(@)]
    /\ UNCHANGED <<task, msg, agent, project>>

\* runtimeRetryDecision
RetryDecision(row) ==
    IF row.retry < MaxRetries
    THEN [row EXCEPT !.status = "queued", !.retry = @ + 1]
    ELSE [row EXCEPT !.status = "failed"]

\* projectRuntimeFailure: a timeout or an interruption is a resume point and
\* spends no retry.
RuntimeFailure(row, s) ==
    LET decided == IF s \in {"timed_out", "interrupted"}
                   THEN [row EXCEPT !.status = "queued"]
                   ELSE RetryDecision(row)
    IN [decided EXCEPT !.run = None, !.failure = TRUE, !.version = @ + 1]

\* projectTerminalTask for the run r that ended in state s and still owns
\* task t; tx holds the messages already redelivered.
ProjectTerminalTask(tx, t, r, s) ==
    LET row == tx.task[t]
        left == [row EXCEPT !.run = None, !.version = @ + 1]
        ended == RuntimeFailure(row, s)
    IN
    \/ /\ run[r].outcome = "wait"
       /\ row.status = "finishing"
       /\ Commit(WithTask(tx, t, [left EXCEPT !.status =
                 IF PendingWake(tx.msg, t) THEN "queued" ELSE "waiting"]))
    \/ /\ run[r].outcome = "fail"
       /\ row.status = "finishing"
       /\ Settle(WithTask(tx, t, Cleared([left EXCEPT !.status = "failed",
                                                      !.failure = TRUE])), t)
    \/ /\ run[r].outcome = "submit"
       /\ row.status = "finishing"
       /\ row.pending = "capture"
       /\ row.pendRun = r
       /\ Commit(tx)
    \/ /\ run[r].outcome = "none"
       /\ row.status \in {"queued", "running"}
       /\ IF ended.status = "failed"
          THEN Settle(WithTask(tx, t, ended), t)
          ELSE Commit(WithTask(tx, t, ended))

\* RecordRuntimeRunTerminal: run r ended in state s.
RecordRuntimeRunTerminal(r, s) ==
    LET t == run[r].task
        tx == Redelivered(Begin, r)
    IN
    /\ Live(run[r])
    /\ ~run[r].prepared => s = "failed"              \* runtimeTerminalFence
    /\ run[r].state = "active" => s # "failed"       \* ValidateRunTransition
    /\ run' = [run EXCEPT ![r].state = s, ![r].revoked = TRUE]
    /\ \/ /\ \/ task[t].run # r
             \/ task[t].status # "cancelled" /\ task[t].gen # run[r].gen
          /\ Commit(tx)
       \/ /\ task[t].run = r
          /\ task[t].status = "cancelled"
          /\ Commit(WithTask(tx, t, [task[t] EXCEPT !.run = None,
                                                    !.version = @ + 1]))
       \/ /\ task[t].run = r
          /\ task[t].status # "cancelled"
          /\ task[t].gen = run[r].gen
          /\ ProjectTerminalTask(tx, t, r, s)
    /\ UNCHANGED <<agent, project>>

\* RecordRunCleanup, with validCleanupTransition.
RecordRunCleanup(r, c) ==
    /\ run[r].state \notin {"none", "deleted"}
    /\ run[r].prepared
    /\ <<run[r].cleanup, c>> \in {<<"not_needed", "pending">>,
                                  <<"pending", "blocked">>,
                                  <<"blocked", "pending">>,
                                  <<"pending", "removed">>}
    /\ c = "removed" => Terminal(run[r])
    /\ run' = [run EXCEPT ![r].cleanup = c]
    /\ UNCHANGED <<task, msg, agent, project>>

-----------------------------------------------------------------------------
(* Operations on tasks, by the operator or by an authenticated run.        *)

\* createWorkTask: a child task is created by a run of its parent.  Human
\* assignees have no run, so their task starts out waiting.
CreateWorkTask(t, A) ==
    /\ task[t].status = "none"
    /\ Kind[t] = "work"
    /\ project = "active"
    /\ IF Parent[t] = None
       THEN A = {}
       ELSE \E r \in Runs : /\ Authentic(r)
                            /\ run[r].task = Parent[t]
                            /\ A \subseteq Inbox(r)
    /\ Assignee[t] # None => agent[Assignee[t]] # "archived"
    /\ Commit(WithTask(Acknowledged(Begin, A), t,
          NewTask(IF Assignee[t] = None THEN "waiting" ELSE "queued", 1)))
    /\ UNCHANGED <<run, agent, project>>

\* WakeTask also makes the exhausted messages of the task deliverable again.
WakeTask(t, A) ==
    LET tx == Acknowledged(Begin, A)
        reset == [m \in Msgs |->
                    IF /\ tx.msg[m].state = "pending"
                       /\ tx.msg[m].task = t
                       /\ Exhausted(tx.msg[m])
                    THEN [tx.msg[m] EXCEPT !.count = 0] ELSE tx.msg[m]]
    IN
    /\ ActionAvailable(task[t])
    /\ Assignee[t] # None
    /\ task[t].status = "waiting"
    /\ Commit([task |-> [task EXCEPT ![t] = Woken(@)], msg |-> reset])
    /\ UNCHANGED <<run, agent, project>>

RetryTask(t, A) ==
    /\ ActionAvailable(task[t])
    /\ task[t].status = "failed"
    /\ Commit(WithTask(Acknowledged(Begin, A), t,
          Cleared([task[t] EXCEPT !.status = "queued", !.run = None,
                                  !.gen = @ + 1, !.failure = FALSE,
                                  !.version = @ + 1])))
    /\ UNCHANGED <<run, agent, project>>

\* Mutant: the link is swapped into the integrator's column.
ReleasedSwapped(row) ==
    [row EXCEPT !.link = None, !.accepted = row.link, !.version = @ + 1]

\* Mutant: the link stays.
ReleasedLinked(row) == [row EXCEPT !.accepted = None, !.version = @ + 1]

\* The source of a cancelled or deleted integration task can be accepted anew.
Released(row) == [row EXCEPT !.link = None, !.accepted = None, !.version = @ + 1]

\* What cancelling or deleting task t does to its source, if it integrates one.
ReleaseSource(tk, t) ==
    IF Kind[t] = "integration" /\ tk[t].source # None
    THEN [tk EXCEPT ![tk[t].source] = Released(@)]
    ELSE tk

SourceReleasable(tk, t) ==
    Kind[t] = "integration" /\ tk[t].source # None =>
        /\ tk[tk[t].source].pending = "none"
        /\ SourceFence(tk, t)

\* CancelTask: a live run is asked to stop and keeps its claim on the
\* cancelled row until it ends; the new generation ends its authority.
CancelTask(t, A) ==
    LET r == task[t].run
        keep == r # None /\ Live(run[r])
        tx == Acknowledged(Begin, A)
        row == [task[t] EXCEPT !.status = "cancelled", !.gen = @ + 1,
                               !.run = IF keep THEN r ELSE None,
                               !.version = @ + 1]
    IN
    /\ ActionAvailable(task[t])
    /\ task[t].status \in {"queued", "running", "waiting", "submitted", "failed"}
    /\ SourceReleasable(task, t)
    /\ run' = IF keep THEN [run EXCEPT ![r] = StopRequested(@)] ELSE run
    /\ Settle([tx EXCEPT !.task = [ReleaseSource(task, t) EXCEPT ![t] = row]], t)
    /\ UNCHANGED <<agent, project>>

ReworkTask(t, A) ==
    /\ Kind[t] # "conversation"
    /\ ActionAvailable(task[t])
    /\ task[t].status = "submitted"
    /\ Commit(WithTask(Acknowledged(Begin, A), t,
          Cleared([task[t] EXCEPT !.status = "queued", !.accepted = None,
                                  !.version = @ + 1])))
    /\ UNCHANGED <<run, agent, project>>

\* CompleteTask: a human confirms the task assigned to them.
CompleteTask(t) ==
    LET tx == WithTask(Begin, t, [task[t] EXCEPT !.status = "completed",
                                                 !.head = None,
                                                 !.version = @ + 1])
    IN
    /\ task[t].run = None
    /\ Assignee[t] = None
    /\ task[t].status = "waiting"
    /\ task[t].pending = "none"
    /\ \E m \in Slots(tx, t) : Commit(Notified(tx, t, m))
    /\ UNCHANGED <<run, agent, project>>

\* CloseConversation cancels what the conversation had not yet answered.
CloseConversation(c) ==
    /\ Kind[c] = "conversation"
    /\ ActionAvailable(task[c])
    /\ task[c].status = "waiting"
    /\ task' = [task EXCEPT ![c].status = "completed", ![c].version = @ + 1]
    /\ msg' = [m \in Msgs |-> IF msg[m].task = c THEN NoMsg ELSE msg[m]]
    /\ UNCHANGED <<run, agent, project>>

\* What DeleteTask requires of the row.
Deletable(t) ==
    /\ ActionAvailable(task[t])
    /\ task[t].status \in Closed
    /\ task[t].run = None
    /\ \/ task[t].source # None /\ ~Exists(task[task[t].source])
       \/ SourceReleasable(task, t)
    /\ ~\E r \in Runs : run[r].task = t /\ Live(run[r])

\* DeleteTask removes the task, its runs and its messages.  A deleted run
\* keeps the fields that tell whose container may have outlived it.
DeleteTask(t, A) ==
    LET tk == IF task[t].source # None /\ ~Exists(task[task[t].source])
              THEN task ELSE ReleaseSource(task, t)
    IN
    /\ Deletable(t)
    /\ task' = [tk EXCEPT ![t] = NewTask("deleted", 0)]
    /\ run' = [r \in Runs |-> IF run[r].task = t
                              THEN [run[r] EXCEPT !.state = "deleted"]
                              ELSE run[r]]
    /\ msg' = [m \in Msgs |-> IF m \in A \/ msg[m].task = t
                              THEN NoMsg ELSE msg[m]]
    /\ UNCHANGED <<agent, project>>

-----------------------------------------------------------------------------
(* Messages to agents.                                                     *)

\* SendBossMessage, Chat and SendAgentMessage to a task of the recipient
\* that accepts deliveries: the task named, or the open conversation.
SendToTask(t, wake, A, m) ==
    LET tx == Acknowledged(Begin, A) IN
    /\ Assignee[t] # None
    /\ agent[Assignee[t]] # "archived"
    /\ project = "active"
    /\ Accepts(task[t])
    /\ m \in FreeMsgs(tx)
    /\ Commit([task |-> IF wake THEN [task EXCEPT ![t] = Woken(@)] ELSE task,
               msg |-> [tx.msg EXCEPT ![m] = NewMsg(t, wake)]])
    /\ UNCHANGED <<run, agent, project>>

\* The same when the recipient has no open conversation: c is inserted.
SendToNewConversation(c, wake, A, m) ==
    LET tx == Acknowledged(Begin, A) IN
    /\ task[c].status = "none"
    /\ Kind[c] = "conversation"
    /\ agent[Assignee[c]] # "archived"
    /\ project = "active"
    /\ Conversation(task, Assignee[c]) = {}
    /\ m \in FreeMsgs(tx)
    /\ Commit([task |-> [task EXCEPT ![c] =
                           NewTask(IF wake THEN "queued" ELSE "waiting", 1)],
               msg |-> [tx.msg EXCEPT ![m] = NewMsg(c, wake)]])
    /\ UNCHANGED <<run, agent, project>>

RetryMessage(m) ==
    /\ msg[m].state = "pending"
    /\ Accepts(task[msg[m].task])
    /\ msg' = [msg EXCEPT ![m].count = 0]
    /\ task' = IF msg[m].wake
               THEN [task EXCEPT ![msg[m].task] = Woken(@)] ELSE task
    /\ UNCHANGED <<run, agent, project>>

-----------------------------------------------------------------------------
(* Accepting a result, and the projection of what Git did.                 *)

\* RequestAccept with integrator a: an advance intent fenced by the version
\* it writes.
RequestAccept(t, a, A) ==
    /\ Kind[t] # "conversation"
    /\ ActionAvailable(task[t])
    /\ task[t].status = "submitted"
    /\ task[t].head # None
    /\ project = "active"
    /\ agent[a] = "active"
    /\ Commit(WithTask(Acknowledged(Begin, A), t,
          [task[t] EXCEPT !.accepted = a, !.pending = "advance",
                          !.pendRun = task[t].head, !.version = @ + 1,
                          !.pendVer = task[t].version + 1]))
    /\ UNCHANGED <<run, agent, project>>

\* sameCaptureFence
CaptureFence(t) ==
    LET r == task[t].pendRun IN
    /\ task[t].status = "finishing"
    /\ task[t].pending = "capture"
    /\ task[t].version = task[t].pendVer
    /\ r # None
    /\ task[t].run = r
    /\ task[t].gen = run[r].gen
    /\ Terminal(run[r])
    /\ run[r].outcome = "submit"

\* finalizeCapture: the result is submitted; that of an integration task is
\* accepted by the system in the same transaction.
FinalizeCapture(t) ==
    LET row == Cleared([task[t] EXCEPT !.status = "submitted", !.run = None,
                                       !.head = task[t].pendRun,
                                       !.version = @ + 1])
        accept == [row EXCEPT !.accepted = Assignee[t], !.pending = "advance",
                              !.pendRun = row.head, !.pendVer = row.version]
    IN
    /\ CaptureFence(t)
    /\ project = "active"
    /\ IF Kind[t] = "integration"
       THEN /\ SourceFence(task, t)
            /\ Commit(Disposed(WithTask(Begin, t, accept), t))
       ELSE Settle(WithTask(Begin, t, row), t)
    /\ UNCHANGED <<run, agent, project>>

\* An invariant error puts an active project in error, before the messages of
\* the failed task are disposed of.
Broken(tx) ==
    [tx EXCEPT !.project = IF tx.project = "active" THEN "error" ELSE tx.project]

\* projectCaptureFailure: an invariant error fails the task and the project,
\* any other error spends a retry.
ProjectCaptureFailure(t, invariant) ==
    LET row == Cleared([task[t] EXCEPT !.run = None, !.failure = TRUE,
                                       !.version = @ + 1])
        next == IF invariant THEN [row EXCEPT !.status = "failed"]
                ELSE RetryDecision(row)
        tx == WithTask(IF invariant THEN Broken(Begin) ELSE Begin, t, next)
    IN
    /\ CaptureFence(t)
    /\ project' = tx.project
    /\ IF next.status = "failed" THEN Settle(tx, t) ELSE Commit(tx)
    /\ UNCHANGED <<run, agent>>

\* sameAdvanceFence
AdvanceFence(t) ==
    /\ task[t].status = "submitted"
    /\ task[t].pending = "advance"
    /\ task[t].version = task[t].pendVer

Completed(row) == [row EXCEPT !.status = "completed", !.version = @ + 1]

\* finalizeSuccessfulAdvance: canonical contains the result.  An integration
\* task completes its source as well.
FinalizeSuccessfulAdvance(t) ==
    LET s == task[t].source
        row == Cleared(Completed(task[t]))
        src == Disposed(WithTask(Begin, s, Completed(task[s])), s)
    IN
    /\ AdvanceFence(t)
    /\ project = "active"
    /\ IF Kind[t] = "integration"
       THEN /\ SourceFence(task, t)
            /\ \E m \in Slots(src, s) :
                  Commit(Disposed(WithTask(Notified(src, s, m), t, row), t))
       ELSE Settle(WithTask(Begin, t, row), t)
    /\ UNCHANGED <<run, agent, project>>

\* finalizeStaleAdvance for an integration task: it is queued again, with a
\* message that says so.
RequeueStaleIntegration(t, m) ==
    /\ AdvanceFence(t)
    /\ project = "active"
    /\ Kind[t] = "integration"
    /\ SourceFence(task, t)
    /\ m \in FreeMsgs(Begin)
    /\ task' = [task EXCEPT ![t] =
                  Cleared([task[t] EXCEPT !.status = "queued", !.run = None,
                                          !.version = @ + 1])]
    /\ msg' = [msg EXCEPT ![m] = NewMsg(t, TRUE)]
    /\ UNCHANGED <<run, agent, project>>

\* finalizeStaleAdvance otherwise: integration task i is created for the
\* accepted integrator and linked to the source by the version it writes.
CreateIntegration(t, i, m) ==
    LET row == Cleared([task[t] EXCEPT !.link = i, !.version = @ + 1]) IN
    /\ AdvanceFence(t)
    /\ project = "active"
    /\ Kind[t] # "integration"
    /\ agent[task[t].accepted] # "archived"
    /\ task[i].status = "none"
    /\ Kind[i] = "integration"
    /\ Assignee[i] = task[t].accepted
    /\ m \in FreeMsgs(Begin)
    /\ task' = [task EXCEPT ![t] = row,
                            ![i] = [NewTask("queued", 1) EXCEPT
                                      !.source = t, !.srcHead = task[t].head,
                                      !.srcVer = row.version]]
    /\ msg' = [msg EXCEPT ![m] = NewMsg(i, TRUE)]
    /\ UNCHANGED <<run, agent, project>>

ProjectAdvanceInvariantFailure(t) ==
    /\ AdvanceFence(t)
    /\ project' = Broken(Begin).project
    /\ Settle(WithTask(Broken(Begin), t, Cleared([task[t] EXCEPT
                 !.status = "failed", !.failure = TRUE, !.version = @ + 1])), t)
    /\ UNCHANGED <<run, agent>>

-----------------------------------------------------------------------------
(* Agents and the project.                                                 *)

\* SetAgentStatus
PauseOrResumeAgent(a) ==
    /\ agent[a] \in {"active", "paused"}
    /\ agent' = [agent EXCEPT ![a] = IF @ = "active" THEN "paused" ELSE "active"]
    /\ UNCHANGED <<task, run, msg, project>>

\* AgentBlockers: what keeps agent a from being archived.
AgentBlockers(a) ==
    \/ \E r \in Runs : Live(run[r]) /\ Assignee[run[r].task] = a
    \/ \E t \in Tasks : IsOpen(task[t]) /\ a \in {Assignee[t], task[t].accepted}
    \/ \E m \in Msgs : msg[m].state # "none" /\ Assignee[msg[m].task] = a

ArchiveAgent(a) ==
    /\ agent[a] # "archived"
    /\ ~AgentBlockers(a)
    /\ agent' = [agent EXCEPT ![a] = "archived"]
    /\ UNCHANGED <<task, run, msg, project>>

\* finishProjectAction: the project's Git repository is ready, or is not.
FinishProjectAction(ok) ==
    /\ project = "creating"
    /\ project' = IF ok THEN "active" ELSE "error"
    /\ UNCHANGED <<task, run, msg, agent>>

\* finishActiveVerification, when the repository does not verify.
FailActiveVerification ==
    /\ project = "active"
    /\ project' = "error"
    /\ UNCHANGED <<task, run, msg, agent>>

RepairProject ==
    /\ project = "error"
    /\ project' = "creating"
    /\ UNCHANGED <<task, run, msg, agent>>

\* ArchiveProject, with ProjectBlockers.
ArchiveProject ==
    /\ project \in {"active", "error"}
    /\ ~\E r \in Runs : Live(run[r])
    /\ ~\E t \in Tasks : IsOpen(task[t]) \/ task[t].pending # "none"
    /\ ~\E m \in Msgs : msg[m].state # "none"
    /\ project' = "archived"
    /\ UNCHANGED <<task, run, msg, agent>>

\* DeleteProject: only the agents outlive the project.
DeleteProject ==
    /\ project = "archived"
    /\ project' = "deleted"
    /\ task' = [t \in Tasks |-> IF Exists(task[t]) THEN NewTask("deleted", 0)
                                 ELSE task[t]]
    /\ run' = [r \in Runs |-> IF run[r].state = "none" THEN run[r]
                              ELSE [run[r] EXCEPT !.state = "deleted"]]
    /\ msg' = [m \in Msgs |-> NoMsg]
    /\ UNCHANGED agent

-----------------------------------------------------------------------------
Init ==
    /\ task = [t \in Tasks |-> NewTask("none", 0)]
    /\ run = [r \in Runs |-> NoRun]
    /\ msg = [m \in Msgs |-> NoMsg]
    /\ agent = [a \in Agents |-> "active"]
    /\ project = "creating"

RunStep(r) ==
    \/ BeginRunLaunch(r)
    \/ ObserveProcessAndActivateRun(r)
    \/ RecordMessagesDelivered(r)
    \/ \E o \in {"wait", "fail", "submit"} : RequestOutcome(r, o)
    \/ "ack" \in Ops /\ AcknowledgeAgentMessages(r)
    \/ "stop" \in Ops /\ RequestRunStop(r)
    \/ \E s \in TerminalStates : RecordRuntimeRunTerminal(r, s)
    \/ \E c \in {"pending", "blocked", "removed"} : RecordRunCleanup(r, c)

TaskStep(t) ==
    \/ \E r \in Runs : ClaimNext(t, r)
    \/ \E A \in BundledAcks :
          \/ CreateWorkTask(t, A)
          \/ WakeTask(t, A)
          \/ RetryTask(t, A)
          \/ CancelTask(t, A)
          \/ ReworkTask(t, A)
          \/ "delete" \in Ops /\ DeleteTask(t, A)
          \/ \E a \in Agents : RequestAccept(t, a, A)
          \/ /\ "send" \in Ops
             /\ \E wake \in BOOLEAN, m \in Msgs : \/ SendToTask(t, wake, A, m)
                                               \/ SendToNewConversation(t, wake, A, m)
    \/ CompleteTask(t)
    \/ CloseConversation(t)

GitStep(t) ==
    \/ FinalizeCapture(t)
    \/ \E invariant \in BOOLEAN : ProjectCaptureFailure(t, invariant)
    \/ FinalizeSuccessfulAdvance(t)
    \/ \E m \in Msgs : RequeueStaleIntegration(t, m)
    \/ \E i \in Tasks, m \in Msgs : CreateIntegration(t, i, m)
    \/ ProjectAdvanceInvariantFailure(t)

AdminStep ==
    \/ "retry" \in Ops /\ \E m \in Msgs : RetryMessage(m)
    \/ "pause" \in Ops /\ \E a \in Agents : PauseOrResumeAgent(a)
    \/ /\ "archive" \in Ops
       /\ ArchiveProject \/ DeleteProject \/ \E a \in Agents : ArchiveAgent(a)
    \/ FinishProjectAction(TRUE)
    \/ "fault" \in Ops /\ (FinishProjectAction(FALSE) \/ FailActiveVerification)
    \/ RepairProject

Next ==
    \/ \E r \in Runs : RunStep(r)
    \/ \E t \in Tasks : TaskStep(t) \/ GitStep(t)
    \/ AdminStep

Spec == Init /\ [][Next]_vars

\* Once a run has been told to stop or has said its last word the supervisor
\* ends its container and records the end; the reconciler keeps polling the
\* durable Git intents until one of their projections goes through.
Fairness ==
    /\ \A r \in Runs :
         WF_vars(/\ run[r].stop \/ run[r].outcome # "none"
                 /\ \E s \in TerminalStates : RecordRuntimeRunTerminal(r, s))
    /\ \A t \in Tasks : WF_vars(GitStep(t))

FairSpec == Spec /\ Fairness

-----------------------------------------------------------------------------
(* Safety.                                                                 *)

\* Task rows and run rows never disagree about who is executing what.  Every
\* live run is the current run of its task, with the task's generation unless
\* the task was cancelled under it, so its end will be projected on the task;
\* a current run is live, or has ended with a submit the reconciler has still
\* to capture; and a task is running exactly while an active run without an
\* outcome owns it.  (ClaimNext, ObserveProcessAndActivateRun, CancelTask,
\* RecordRuntimeRunTerminal against each other.)
OwnershipAgrees ==
    /\ \A r \in Runs : Live(run[r]) =>
          LET row == task[run[r].task] IN
          /\ row.run = r
          /\ row.status = "cancelled" \/ row.gen = run[r].gen
    /\ \A t \in Tasks : task[t].run # None =>
          LET owner == run[task[t].run] IN
          /\ owner.task = t
          /\ Live(owner) \/ (Terminal(owner) /\ task[t].pending = "capture")
          /\ task[t].status = "queued" => owner.state = "starting"
          /\ task[t].status = "running" =>
                owner.state = "active" /\ owner.outcome = "none"
          /\ task[t].status = "finishing" => owner.revoked /\ owner.outcome # "none"
    /\ \A t \in Tasks :
          /\ task[t].status \in {"running", "finishing"} => task[t].run # None
          /\ task[t].run # None =>
                task[t].status \in {"queued", "running", "finishing", "cancelled"}

\* No intent is ever stuck.  When the run that submitted has ended, the capture
\* fence of its task still holds, whatever messages, cancellations or agent
\* operations came in between.  The fence finalizeSuccessfulAdvance and
\* finalizeStaleAdvance check holds for as long as an advance is pending, the
\* integrator that was promised can still be given the integration task, and
\* the source of an integration is still the row it was linked to.
IntentNeverStuck ==
    \A t \in Tasks :
        /\ task[t].status = "finishing" /\ Terminal(run[task[t].run]) => CaptureFence(t)
        /\ task[t].pending = "advance" =>
              /\ AdvanceFence(t)
              /\ task[t].accepted # None
              /\ agent[task[t].accepted] # "archived"
              /\ Kind[t] = "integration" => SourceFence(task, t)

\* A stale result and the integration task made for it stay tied together: an
\* open integration task always passes integrationSourceFence, and a submitted
\* task that is locked by a link has an open integration task working for it.
IntegrationLinked ==
    \A t \in Tasks :
        /\ Kind[t] = "integration" /\ IsOpen(task[t]) => SourceFence(task, t)
        /\ IsOpen(task[t]) /\ task[t].link # None =>
              /\ task[task[t].link].source = t
              /\ IsOpen(task[task[t].link])

\* No wakeup is lost: a wake message that can still be delivered never waits
\* on a task that nothing will run.  It must survive redelivery at the end of
\* a run, rerouting off a closed task and a wait outcome racing its arrival.
NoLostWakeup ==
    \A m \in Msgs :
        /\ msg[m].state = "pending"
        /\ msg[m].wake
        /\ ~Exhausted(msg[m])
        => task[msg[m].task].status \in {"queued", "running", "finishing"}

\* An unresolved message can always reach its agent: its task accepts
\* deliveries, and if it was handed to a run, that run is still live and
\* belongs to the agent it is addressed to.  A message held by a dead run
\* would never be delivered again.
MessagesReachable ==
    \A m \in Msgs : msg[m].state # "none" =>
        /\ Accepts(task[msg[m].task])
        /\ msg[m].state = "delivered" =>
              /\ msg[m].run # None
              /\ Live(run[msg[m].run])
              /\ Assignee[run[msg[m].run].task] = Assignee[msg[m].task]

\* The container of run r may exist.  The row outlives the run in this model,
\* so that a container whose row was deleted can still be talked about.
MayHoldContainer(r) ==
    /\ run[r].state # "none"
    /\ Live(run[r]) \/ run[r].cleanup \in {"pending", "blocked"}

\* At most one run on record of an agent can hold a container, counting the
\* runs that have ended but whose container has not been removed: a retry, a
\* wakeup or another task of the agent never starts next to them.
OneRuntimePerAgent ==
    \A r, x \in Runs :
        /\ MayHoldContainer(r) /\ run[r].state # "deleted"
        /\ MayHoldContainer(x) /\ run[x].state # "deleted"
        /\ Assignee[run[r].task] = Assignee[run[x].task]
        => r = x

\* The part of the runs table that OneRuntimePerAgent rests on: a run on record
\* belongs to a task of an agent, and once its launch was prepared its cleanup
\* state never says that there is nothing to clean up.
RunsWellFormed ==
    \A r \in Runs :
        /\ run[r].state = "none" => run[r].task = None
        /\ run[r].state # "none" =>
              /\ run[r].task # None
              /\ Assignee[run[r].task] # None
              /\ run[r].prepared => run[r].cleanup # "not_needed"

\* The inductive invariant of the runtime.
RuntimeInv == TypeOK /\ RunsWellFormed /\ OneRuntimePerAgent

\* A generation names one run of its task for ever, whatever sequence of
\* claims, cancellations and retries the task goes through, and no run is
\* ahead of its task: it is the fencing token that authenticateRun,
\* runtimeTerminalFence and sameCaptureFence compare.
FencingTokensUnique ==
    \A r \in Runs : run[r].state \notin {"none", "deleted"} =>
        /\ run[r].gen <= task[run[r].task].gen
        /\ \A x \in Runs : /\ run[x].state \notin {"none", "deleted"}
                           /\ run[x].task = run[r].task
                           /\ run[x].gen = run[r].gen
                           => x = r

-----------------------------------------------------------------------------
(* Action and liveness properties.                                         *)

\* No change of a task row goes unseen by whoever remembers its version: every
\* transaction that changes a row moves its version forward, also on the rows
\* it touches in passing (a woken parent, a released source, a conversation
\* that inherits messages).  The Git fences rest on it.
VersionMovesWithRow ==
    [][\A t \in Tasks : Exists(task[t]) /\ Exists(task'[t]) /\ task'[t] # task[t]
                           => task'[t].version > task[t].version]_vars

\* A task whose run has said its last word leaves finishing: to waiting, the
\* queue, failed or submitted.
FinishingResolves ==
    \A t \in Tasks : task[t].status = "finishing" ~> task[t].status # "finishing"

\* The run under a cancelled task ends and lets go of the row, so that the
\* agent is free and the task can be deleted.
CancelledRunReleased ==
    \A t \in Tasks : task[t].status = "cancelled" /\ task[t].run # None
                       ~> task[t].run = None

-----------------------------------------------------------------------------
(* What the documents say, where the code differs.                         *)

\* need/runtime.md, section 13.1: while an old container may be running the
\* next run of its participant is forbidden.
OneContainerPerAgent ==
    \A r, x \in Runs :
        /\ MayHoldContainer(r)
        /\ MayHoldContainer(x)
        /\ Assignee[run[r].task] = Assignee[run[x].task]
        => r = x

=============================================================================
