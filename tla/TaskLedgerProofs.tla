------------------------ MODULE TaskLedgerProofs ------------------------
(***************************************************************************)
(* Theorems about TaskLedger, for every set of tasks, runs, messages and   *)
(* agents and every bound, and their proofs.                               *)
(*                                                                         *)
(* Rows are large records and most writes bump a counter.  A row's type is *)
(* therefore proved in two steps: first for an arbitrary natural number in *)
(* place of the counter, then for the counter.                             *)
(***************************************************************************)
EXTENDS TaskLedger, TLAPS

TxSet == [task : [Tasks -> TaskRow], msg : [Msgs -> MsgRow],
          project : ProjectStatuses]

-----------------------------------------------------------------------------
(* Rows.                                                                   *)

\* A row inserted or left behind by a deletion has the type of a row.
LEMMA NewTaskType ==
    ASSUME NEW s \in {"none", "deleted"} \cup TaskStatuses, NEW v \in Nat
    PROVE  NewTask(s, v) \in TaskRow
BY DEF NewTask, TaskRow

\* The counters of a row can be incremented.
LEMMA Counters ==
    ASSUME NEW row \in TaskRow
    PROVE  row.version + 1 \in Nat /\ row.gen + 1 \in Nat /\ row.retry + 1 \in Nat
<1>1. row.version \in Nat /\ row.gen \in Nat /\ row.retry \in Nat
  BY DEF TaskRow
<1> QED BY <1>1

\* A status change with its version bump keeps the type.
LEMMA StampedType ==
    ASSUME NEW row \in TaskRow, NEW s \in TaskStatuses
    PROVE  [row EXCEPT !.status = s, !.version = @ + 1] \in TaskRow
<1>1. \A v \in Nat : [row EXCEPT !.status = s, !.version = v] \in TaskRow
  BY DEF TaskRow
<1> QED BY <1>1, Counters

\* The row helpers keep the type.
LEMMA WokenType == ASSUME NEW row \in TaskRow PROVE Woken(row) \in TaskRow
BY StampedType DEF Woken, TaskStatuses

\* Dropping the task action (clearTaskAction) keeps the row's type.
LEMMA ClearedType == ASSUME NEW row \in TaskRow PROVE Cleared(row) \in TaskRow
BY DEF Cleared, TaskRow

\* Unlinking an integration source (releaseIntegrationSource) keeps the
\* row's type.
LEMMA ReleasedType == ASSUME NEW row \in TaskRow PROVE Released(row) \in TaskRow
<1>1. \A v \in Nat :
        [row EXCEPT !.link = None, !.accepted = None, !.version = v] \in TaskRow
  BY DEF TaskRow
<1> QED BY <1>1, Counters DEF Released

\* The successful end of an advance keeps the row's type.
LEMMA CompletedType == ASSUME NEW row \in TaskRow PROVE Completed(row) \in TaskRow
BY StampedType DEF Completed, TaskStatuses, Closed

\* A retry or its exhaustion (runtimeRetryDecision) keeps the row's type.
LEMMA RetryDecisionType ==
    ASSUME NEW row \in TaskRow PROVE RetryDecision(row) \in TaskRow
<1>1. \A v \in Nat : [row EXCEPT !.status = "queued", !.retry = v] \in TaskRow
  BY DEF TaskRow, TaskStatuses
<1>2. [row EXCEPT !.status = "failed"] \in TaskRow
  BY DEF TaskRow, TaskStatuses
<1> QED BY <1>1, <1>2, Counters DEF RetryDecision

\* The task half of a runtime failure (projectRuntimeFailure) keeps the row's
\* type.
LEMMA RuntimeFailureType ==
    ASSUME NEW row \in TaskRow, NEW s PROVE RuntimeFailure(row, s) \in TaskRow
<1> DEFINE decided == IF s \in {"timed_out", "interrupted"}
                      THEN [row EXCEPT !.status = "queued"]
                      ELSE RetryDecision(row)
<1>1. [row EXCEPT !.status = "queued"] \in TaskRow
  BY DEF TaskRow, TaskStatuses
<1>2. decided \in TaskRow
  BY <1>1, RetryDecisionType
<1>3. RuntimeFailure(row, s) =
        [decided EXCEPT !.run = None, !.failure = TRUE, !.version = @ + 1]
  BY DEF RuntimeFailure
<1> HIDE DEF decided
<1>4. \A v \in Nat :
        [decided EXCEPT !.run = None, !.failure = TRUE, !.version = v] \in TaskRow
  BY <1>2 DEF TaskRow
<1> QED BY <1>2, <1>3, <1>4, Counters

\* Message rows are well typed.
LEMMA NewMsgType ==
    /\ NoMsg \in MsgRow
    /\ \A t \in Tasks, w \in BOOLEAN : NewMsg(t, w) \in MsgRow
BY DEF NewMsg, NoMsg, MsgRow

-----------------------------------------------------------------------------
(* Transactions.                                                           *)

\* The tables a transaction builds have the types of the tables.
LEMMA BeginType == TypeOK => Begin \in TxSet
BY DEF TypeOK, Begin, TxSet

\* A project that breaks inside a transaction is in error.
LEMMA BrokenType ==
    ASSUME NEW tx \in TxSet
    PROVE  Broken(tx) \in TxSet
BY DEF Broken, TxSet, ProjectStatuses

\* Committing well-typed tables gives well-typed tables.
LEMMA CommitType ==
    ASSUME NEW tx \in TxSet, Commit(tx)
    PROVE task' \in [Tasks -> TaskRow] /\ msg' \in [Msgs -> MsgRow]
BY DEF Commit, TxSet

\* Writing one well-typed task row keeps the tables well typed.
LEMMA WithTaskType ==
    ASSUME NEW tx \in TxSet, NEW t \in Tasks, NEW row \in TaskRow
    PROVE  WithTask(tx, t, row) \in TxSet
BY DEF WithTask, TxSet

\* Acknowledging messages keeps the tables well typed.
LEMMA AcknowledgedType ==
    ASSUME NEW tx \in TxSet, NEW A
    PROVE  Acknowledged(tx, A) \in TxSet
BY NewMsgType DEF Acknowledged, TxSet

\* redeliverRunMessages keeps the tables well typed.
LEMMA RedeliveredType ==
    ASSUME NEW tx \in TxSet, NEW r
    PROVE  Redelivered(tx, r) \in TxSet
<1> DEFINE row(m) == IF tx.msg[m].state = "delivered" /\ tx.msg[m].run = r
                     THEN [tx.msg[m] EXCEPT !.state = "pending", !.run = None]
                     ELSE tx.msg[m]
<1>1. \A m \in Msgs : row(m) \in MsgRow
  BY DEF TxSet, MsgRow
<1> HIDE DEF row
<1>2. [m \in Msgs |-> row(m)] \in [Msgs -> MsgRow]
  BY <1>1
<1>3. Redelivered(tx, r) = [tx EXCEPT !.msg = [m \in Msgs |-> row(m)]]
  BY DEF Redelivered, row
<1> QED BY <1>2, <1>3 DEF TxSet

\* disposeUnresolvedMessages, rerouting and failing messages, keeps the
\* tables well typed.
LEMMA DisposedType ==
    ASSUME NEW tx \in TxSet, NEW t \in Tasks
    PROVE  Disposed(tx, t) \in TxSet
<1> DEFINE to == RerouteTargets(tx, t)
           left == {m \in Msgs : tx.msg[m].state # "none" /\ tx.msg[m].task = t}
           wakes == \E m \in left : tx.msg[m].wake /\ ~Exhausted(tx.msg[m])
           dest == CHOOSE c \in to : TRUE
           tk == [c \in Tasks |-> IF c \in to /\ wakes
                                  THEN Woken(tx.task[c]) ELSE tx.task[c]]
           ms == [m \in Msgs |->
                   IF m \notin left THEN tx.msg[m]
                   ELSE IF to = {} THEN NoMsg
                   ELSE [tx.msg[m] EXCEPT !.state = "pending",
                                          !.task = dest,
                                          !.run = None]]
<1>1. Disposed(tx, t) = [tx EXCEPT !.task = tk, !.msg = ms]
  BY DEF Disposed
<1>2. to \subseteq Tasks
  BY DEF RerouteTargets, Conversation
<1>3. to # {} => dest \in Tasks
  BY <1>2
<1>4. tk \in [Tasks -> TaskRow]
  <2> HIDE DEF wakes, to
  <2> QED BY WokenType DEF TxSet
<1>5. ms \in [Msgs -> MsgRow]
  <2> HIDE DEF left, to, dest
  <2> QED BY <1>3, NewMsgType DEF TxSet, MsgRow
<1> QED
  <2> HIDE DEF tk, ms
  <2> QED BY <1>1, <1>4, <1>5 DEF TxSet

\* notifyParentOfChild, which may wake the parent, keeps the tables well
\* typed.
LEMMA NotifiedType ==
    ASSUME NEW tx \in TxSet, NEW t \in Tasks, NEW m \in Slots(tx, t)
    PROVE  Notified(tx, t, m) \in TxSet
<1>1. CASE ~NotifiesAgent(tx, t)
  BY <1>1 DEF Notified
<1>2. CASE NotifiesAgent(tx, t)
  <2>1. Parent[t] \in Tasks /\ m \in Msgs
    BY <1>2, LedgerAssumption DEF NotifiesAgent, Slots, FreeMsgs
  <2>2. Woken(tx.task[Parent[t]]) \in TaskRow
    BY <2>1, WokenType DEF TxSet
  <2> QED BY <1>2, <2>1, <2>2, NewMsgType DEF Notified, TxSet
<1> QED BY <1>1, <1>2

\* Whatever the tail of a transaction does to the parent and to the
\* conversation, the tables it commits are well typed.
LEMMA SettleType ==
    ASSUME NEW tx \in TxSet, NEW t \in Tasks, Settle(tx, t)
    PROVE  task' \in [Tasks -> TaskRow] /\ msg' \in [Msgs -> MsgRow]
BY DisposedType, NotifiedType, CommitType DEF Settle

-----------------------------------------------------------------------------
(* Type correctness, action by action.                                     *)

\* The two tables a task transaction does not touch.
Others == <<run, agent, project>>

\* TypeOK of the next state, when only the tasks and messages change.
LEMMA TypeFromTables ==
    ASSUME TypeOK, UNCHANGED Others,
           task' \in [Tasks -> TaskRow], msg' \in [Msgs -> MsgRow]
    PROVE  TypeOK'
BY DEF TypeOK, Others

\* What the rows of a typed state look like.
LEMMA RowTypes ==
    ASSUME TypeOK
    PROVE  /\ \A t \in Tasks : task[t] \in TaskRow
           /\ \A r \in Runs : run[r] \in RunRow
           /\ \A m \in Msgs : msg[m] \in MsgRow
BY DEF TypeOK

\* A run on record belongs to a task.
LEMMA RunTask ==
    ASSUME TypeOK, RunsWellFormed, NEW r \in Runs, run[r].state # "none"
    PROVE  run[r].task \in Tasks
<1>1. run[r].task \in Tasks \cup {None}
  BY RowTypes DEF RunRow
<1> QED BY <1>1 DEF RunsWellFormed

\* Scheduling and launching keep the types.
LEMMA ClaimNextType ==
    ASSUME TypeOK, NEW t \in Tasks, NEW r \in Runs, ClaimNext(t, r)
    PROVE  TypeOK'
<1> DEFINE row == [task[t] EXCEPT !.gen = @ + 1, !.run = r, !.version = @ + 1]
<1>1. task[t] \in TaskRow
  BY RowTypes
<1>2. task[t].version + 1 \in Nat /\ task[t].gen + 1 \in Nat
  BY <1>1, Counters
<1>3. \A v, g \in Nat : [task[t] EXCEPT !.gen = g, !.run = r, !.version = v] \in TaskRow
  BY <1>1 DEF TaskRow
<1>4. row \in TaskRow
  BY <1>2, <1>3
<1>5. task' \in [Tasks -> TaskRow]
  <2>1. task' = [task EXCEPT ![t] = row]
    BY DEF ClaimNext, TypeOK, NextGeneration
  <2> HIDE DEF row
  <2> QED BY <1>4, <2>1 DEF TypeOK
<1>6. \A g \in Nat : [NoRun EXCEPT !.state = "starting", !.task = t, !.gen = g] \in RunRow
  BY DEF NoRun, RunRow, AllTerminal
<1>7. run' \in [Runs -> RunRow]
  BY <1>2, <1>6 DEF ClaimNext, TypeOK, NextGeneration
<1> QED BY <1>5, <1>7 DEF ClaimNext, TypeOK

\* The launch intent is a well-typed run row.
LEMMA BeginRunLaunchType ==
    ASSUME TypeOK, NEW r \in Runs, BeginRunLaunch(r)
    PROVE  TypeOK'
<1>1. [run[r] EXCEPT !.prepared = TRUE, !.cleanup = "pending"] \in RunRow
  BY RowTypes DEF RunRow
<1> QED BY <1>1 DEF BeginRunLaunch, TypeOK

\* Activating a run writes a well-typed run and task.
LEMMA ActivateType ==
    ASSUME TypeOK, RunsWellFormed, NEW r \in Runs, ObserveProcessAndActivateRun(r)
    PROVE  TypeOK'
<1> DEFINE t == run[r].task
<1>1. t \in Tasks
  BY RunTask DEF ObserveProcessAndActivateRun
<1> HIDE DEF t
<1>2. [task[t] EXCEPT !.status = "running", !.version = @ + 1] \in TaskRow
  BY <1>1, RowTypes, StampedType DEF TaskStatuses
<1>3. task' = [task EXCEPT ![t] =
                 [task[t] EXCEPT !.status = "running", !.version = @ + 1]]
  BY <1>1 DEF ObserveProcessAndActivateRun, TypeOK, t
<1>4. [run[r] EXCEPT !.state = "active"] \in RunRow
  BY RowTypes DEF RunRow
<1> QED BY <1>1, <1>2, <1>3, <1>4 DEF ObserveProcessAndActivateRun, TypeOK

\* Recording a delivery writes well-typed messages.
LEMMA DeliveredType ==
    ASSUME TypeOK, NEW r \in Runs, RecordMessagesDelivered(r)
    PROVE  TypeOK'
<1>1. PICK D : msg' = [m \in Msgs |->
                 IF m \in D THEN [msg[m] EXCEPT !.state = "delivered", !.run = r,
                                                !.count = @ + 1]
                 ELSE msg[m]]
  BY DEF RecordMessagesDelivered
<1>2. ASSUME NEW m \in Msgs
      PROVE  [msg[m] EXCEPT !.state = "delivered", !.run = r, !.count = @ + 1] \in MsgRow
  <2>1. \A v \in Nat :
          [msg[m] EXCEPT !.state = "delivered", !.run = r, !.count = v] \in MsgRow
    BY RowTypes DEF MsgRow
  <2>2. msg[m].count \in Nat
    BY RowTypes DEF MsgRow
  <2>3. msg[m].count + 1 \in Nat
    BY <2>2
  <2> QED BY <2>1, <2>3
<1>3. msg' \in [Msgs -> MsgRow]
  BY <1>1, <1>2, RowTypes
<1> QED BY <1>3 DEF RecordMessagesDelivered, TypeOK

\* An outcome claim writes well-typed runs and messages.
LEMMA RequestOutcomeType ==
    ASSUME TypeOK, RunsWellFormed, NEW r \in Runs, NEW o \in {"wait", "fail", "submit"},
           RequestOutcome(r, o)
    PROVE  TypeOK'
<1> DEFINE t == run[r].task
           row == [task[t] EXCEPT !.status = "finishing", !.version = @ + 1]
           capture == [row EXCEPT !.pending = "capture", !.pendRun = r,
                                  !.pendVer = row.version]
<1>1. t \in Tasks
  BY RunTask DEF RequestOutcome, Authentic
<1>2. row \in TaskRow
  BY <1>1, RowTypes, StampedType DEF TaskStatuses
<1>3. capture \in TaskRow
  <2> HIDE DEF row
  <2>1. row.version \in Nat
    BY <1>2 DEF TaskRow
  <2> QED BY <1>2, <2>1 DEF TaskRow
<1>4. PICK A : Commit(WithTask(Acknowledged(Begin, A), t,
                               IF o = "submit" THEN capture ELSE row))
  BY DEF RequestOutcome
<1> HIDE DEF t, row, capture
<1>5. task' \in [Tasks -> TaskRow] /\ msg' \in [Msgs -> MsgRow]
  BY <1>1, <1>2, <1>3, <1>4, BeginType, AcknowledgedType, WithTaskType, CommitType
<1>6. [run[r] EXCEPT !.outcome = o, !.revoked = TRUE] \in RunRow
  BY RowTypes DEF RunRow
<1> QED BY <1>5, <1>6 DEF RequestOutcome, TypeOK

\* The agent's acknowledgement writes well-typed messages.
LEMMA AcknowledgeType ==
    ASSUME TypeOK, NEW r \in Runs, AcknowledgeAgentMessages(r)
    PROVE  TypeOK'
BY BeginType, AcknowledgedType, CommitType, TypeFromTables
   DEF AcknowledgeAgentMessages, Others

\* A stop intent keeps the run row's type.
LEMMA StopRequestedType ==
    ASSUME NEW row \in RunRow
    PROVE  StopRequested(row) \in RunRow
BY DEF StopRequested, RunRow

\* The operator's stop writes a well-typed run.
LEMMA RequestRunStopType ==
    ASSUME TypeOK, NEW r \in Runs, RequestRunStop(r)
    PROVE  TypeOK'
<1>1. StopRequested(run[r]) \in RunRow
  BY RowTypes, StopRequestedType
<1> QED BY <1>1 DEF RequestRunStop, TypeOK

\* The tables projectTerminalTask commits have their types.
LEMMA ProjectTerminalTaskType ==
    ASSUME NEW tx \in TxSet, NEW t \in Tasks, NEW r \in Runs, NEW s,
           ProjectTerminalTask(tx, t, r, s)
    PROVE  task' \in [Tasks -> TaskRow] /\ msg' \in [Msgs -> MsgRow]
<1> DEFINE row == tx.task[t]
           left == [row EXCEPT !.run = None, !.version = @ + 1]
           wait == [left EXCEPT !.status =
                      IF PendingWake(tx.msg, t) THEN "queued" ELSE "waiting"]
           fail == Cleared([left EXCEPT !.status = "failed", !.failure = TRUE])
           ended == RuntimeFailure(row, s)
<1>1. row \in TaskRow
  BY DEF TxSet
<1>2. left \in TaskRow
  <2>1. \A v \in Nat : [row EXCEPT !.run = None, !.version = v] \in TaskRow
    BY <1>1 DEF TaskRow
  <2>2. row.version + 1 \in Nat
    BY <1>1, Counters
  <2> QED BY <2>1, <2>2
<1>3. wait \in TaskRow
  <2> HIDE DEF left
  <2> QED BY <1>2 DEF TaskRow, TaskStatuses
<1>4. fail \in TaskRow
  <2> HIDE DEF left
  <2>1. [left EXCEPT !.status = "failed", !.failure = TRUE] \in TaskRow
    BY <1>2 DEF TaskRow, TaskStatuses
  <2> QED BY <2>1, ClearedType
<1>5. ended \in TaskRow
  BY <1>1, RuntimeFailureType
<1>6. \/ Commit(WithTask(tx, t, wait))
      \/ Settle(WithTask(tx, t, fail), t)
      \/ Commit(tx)
      \/ Settle(WithTask(tx, t, ended), t)
      \/ Commit(WithTask(tx, t, ended))
  BY DEF ProjectTerminalTask
<1> HIDE DEF wait, fail, ended
<1> QED BY <1>3, <1>4, <1>5, <1>6, WithTaskType, CommitType, SettleType

\* The terminal fact of a run writes well-typed runs, tasks and messages.
LEMMA TerminalType ==
    ASSUME TypeOK, RunsWellFormed, NEW r \in Runs, NEW s \in TerminalStates,
           RecordRuntimeRunTerminal(r, s)
    PROVE  TypeOK'
<1> DEFINE t == run[r].task
           tx == Redelivered(Begin, r)
           freed == [task[t] EXCEPT !.run = None, !.version = @ + 1]
<1>1. t \in Tasks
  BY RunTask DEF RecordRuntimeRunTerminal, Live
<1>2. tx \in TxSet
  BY BeginType, RedeliveredType
<1>3. freed \in TaskRow
  <2>1. task[t] \in TaskRow
    BY <1>1, RowTypes
  <2>2. task[t].version + 1 \in Nat
    BY <2>1, Counters
  <2>3. \A v \in Nat : [task[t] EXCEPT !.run = None, !.version = v] \in TaskRow
    BY <2>1 DEF TaskRow
  <2> QED BY <2>2, <2>3
<1>4. \/ Commit(tx)
      \/ Commit(WithTask(tx, t, freed))
      \/ ProjectTerminalTask(tx, t, r, s)
  BY DEF RecordRuntimeRunTerminal
<1>5. [run[r] EXCEPT !.state = s, !.revoked = TRUE] \in RunRow
  BY RowTypes, LedgerAssumption DEF RunRow
<1>6. run' \in [Runs -> RunRow]
  BY <1>5 DEF RecordRuntimeRunTerminal, TypeOK
<1>7. task' \in [Tasks -> TaskRow] /\ msg' \in [Msgs -> MsgRow]
  <2> HIDE DEF t, tx, freed
  <2> QED BY <1>1, <1>2, <1>3, <1>4, WithTaskType, CommitType, ProjectTerminalTaskType
<1> QED BY <1>6, <1>7 DEF RecordRuntimeRunTerminal, TypeOK

\* A cleanup fact writes a well-typed run.
LEMMA CleanupType ==
    ASSUME TypeOK, NEW r \in Runs, NEW c \in {"pending", "blocked", "removed"},
           RecordRunCleanup(r, c)
    PROVE  TypeOK'
<1>1. [run[r] EXCEPT !.cleanup = c] \in RunRow
  BY RowTypes DEF RunRow
<1> QED BY <1>1 DEF RecordRunCleanup, TypeOK

\* An operation that acknowledges messages and writes one task row.
LEMMA OneRowType ==
    ASSUME TypeOK, NEW t \in Tasks, NEW row \in TaskRow, NEW A,
           Commit(WithTask(Acknowledged(Begin, A), t, row)), UNCHANGED Others
    PROVE  TypeOK'
BY BeginType, AcknowledgedType, WithTaskType, CommitType, TypeFromTables

\* Operations on tasks keep the types.
LEMMA CreateWorkTaskType ==
    ASSUME TypeOK, NEW t \in Tasks, NEW A, CreateWorkTask(t, A)
    PROVE  TypeOK'
<1> DEFINE row == NewTask(IF Assignee[t] = None THEN "waiting" ELSE "queued", 1)
<1>1. row \in TaskRow
  BY NewTaskType DEF TaskStatuses
<1>2. Commit(WithTask(Acknowledged(Begin, A), t, row)) /\ UNCHANGED Others
  BY DEF CreateWorkTask, Others
<1> HIDE DEF row
<1> QED BY <1>1, <1>2, OneRowType

\* Waking a task keeps the types.
LEMMA WakeTaskType ==
    ASSUME TypeOK, NEW t \in Tasks, NEW A, WakeTask(t, A)
    PROVE  TypeOK'
<1> DEFINE tx == Acknowledged(Begin, A)
           reset == [m \in Msgs |->
                       IF /\ tx.msg[m].state = "pending"
                          /\ tx.msg[m].task = t
                          /\ Exhausted(tx.msg[m])
                       THEN [tx.msg[m] EXCEPT !.count = 0] ELSE tx.msg[m]]
<1>1. tx \in TxSet
  BY BeginType, AcknowledgedType
<1>2. reset \in [Msgs -> MsgRow]
  <2> HIDE DEF tx
  <2> QED BY <1>1 DEF TxSet, MsgRow
<1>3. Commit([task |-> [task EXCEPT ![t] = Woken(task[t])], msg |-> reset])
  BY DEF WakeTask
<1>4. Woken(task[t]) \in TaskRow
  BY RowTypes, WokenType
<1> HIDE DEF reset
<1>5. task' \in [Tasks -> TaskRow] /\ msg' \in [Msgs -> MsgRow]
  BY <1>2, <1>3, <1>4 DEF Commit, TypeOK
<1> QED BY <1>5, TypeFromTables DEF WakeTask, Others

\* Retrying a task keeps the types.
LEMMA RetryTaskType ==
    ASSUME TypeOK, NEW t \in Tasks, NEW A, RetryTask(t, A)
    PROVE  TypeOK'
<1> DEFINE row == [task[t] EXCEPT !.status = "queued", !.run = None,
                                  !.gen = @ + 1, !.failure = FALSE,
                                  !.version = @ + 1]
<1>1. row \in TaskRow
  <2>1. task[t] \in TaskRow
    BY RowTypes
  <2>2. task[t].gen + 1 \in Nat /\ task[t].version + 1 \in Nat
    BY <2>1, Counters
  <2>3. \A g, v \in Nat : [task[t] EXCEPT !.status = "queued", !.run = None,
                             !.gen = g, !.failure = FALSE, !.version = v] \in TaskRow
    BY <2>1 DEF TaskRow, TaskStatuses
  <2> QED BY <2>2, <2>3
<1>2. Commit(WithTask(Acknowledged(Begin, A), t, Cleared(row))) /\ UNCHANGED Others
  BY DEF RetryTask, Others
<1> HIDE DEF row
<1> QED BY <1>1, <1>2, ClearedType, OneRowType

\* Sending a task back for rework keeps the types.
LEMMA ReworkTaskType ==
    ASSUME TypeOK, NEW t \in Tasks, NEW A, ReworkTask(t, A)
    PROVE  TypeOK'
<1> DEFINE row == [task[t] EXCEPT !.status = "queued", !.accepted = None,
                                  !.version = @ + 1]
<1>1. row \in TaskRow
  <2>1. task[t] \in TaskRow
    BY RowTypes
  <2>2. task[t].version + 1 \in Nat
    BY <2>1, Counters
  <2>3. \A v \in Nat : [task[t] EXCEPT !.status = "queued", !.accepted = None,
                                       !.version = v] \in TaskRow
    BY <2>1 DEF TaskRow, TaskStatuses
  <2> QED BY <2>2, <2>3
<1>2. Commit(WithTask(Acknowledged(Begin, A), t, Cleared(row))) /\ UNCHANGED Others
  BY DEF ReworkTask, Others
<1> HIDE DEF row
<1> QED BY <1>1, <1>2, ClearedType, OneRowType

\* Requesting acceptance keeps the types.
LEMMA RequestAcceptType ==
    ASSUME TypeOK, NEW t \in Tasks, NEW a \in Agents, NEW A, RequestAccept(t, a, A)
    PROVE  TypeOK'
<1> DEFINE row == [task[t] EXCEPT !.accepted = a, !.pending = "advance",
                                  !.pendRun = task[t].head, !.version = @ + 1,
                                  !.pendVer = task[t].version + 1]
<1>1. row \in TaskRow
  <2>1. task[t] \in TaskRow
    BY RowTypes
  <2>2. task[t].version + 1 \in Nat
    BY <2>1, Counters
  <2>3. \A v \in Nat : [task[t] EXCEPT !.accepted = a, !.pending = "advance",
                          !.pendRun = task[t].head, !.version = v,
                          !.pendVer = v] \in TaskRow
    BY <2>1 DEF TaskRow
  <2> QED BY <2>2, <2>3
<1>2. Commit(WithTask(Acknowledged(Begin, A), t, row)) /\ UNCHANGED Others
  BY DEF RequestAccept, Others
<1> HIDE DEF row
<1> QED BY <1>1, <1>2, OneRowType

\* Releasing the source of an integration task keeps the types.
LEMMA ReleaseSourceType ==
    ASSUME TypeOK, NEW t \in Tasks
    PROVE  ReleaseSource(task, t) \in [Tasks -> TaskRow]
<1>1. CASE Kind[t] = "integration" /\ task[t].source # None
  <2>1. task[t].source \in Tasks
    BY <1>1, RowTypes DEF TaskRow
  <2>2. Released(task[task[t].source]) \in TaskRow
    BY <2>1, RowTypes, ReleasedType
  <2> QED BY <1>1, <2>1, <2>2 DEF ReleaseSource, TypeOK
<1>2. CASE ~(Kind[t] = "integration" /\ task[t].source # None)
  BY <1>2 DEF ReleaseSource, TypeOK
<1> QED BY <1>1, <1>2

\* Cancelling a task, its live run's stop and its source's release included,
\* keeps the types.
LEMMA CancelTaskType ==
    ASSUME TypeOK, NEW t \in Tasks, NEW A, CancelTask(t, A)
    PROVE  TypeOK'
<1> DEFINE r == task[t].run
           keep == r # None /\ Live(run[r])
           tx == Acknowledged(Begin, A)
           row == [task[t] EXCEPT !.status = "cancelled", !.gen = @ + 1,
                                  !.run = IF keep THEN r ELSE None,
                                  !.version = @ + 1]
           tk == [ReleaseSource(task, t) EXCEPT ![t] = row]
<1>1. task[t] \in TaskRow /\ r \in Runs \cup {None}
  BY RowTypes DEF TaskRow
<1>2. row \in TaskRow
  <2>1. task[t].gen + 1 \in Nat /\ task[t].version + 1 \in Nat
    BY <1>1, Counters
  <2>2. \A g, v \in Nat, x \in Runs \cup {None} :
          [task[t] EXCEPT !.status = "cancelled", !.gen = g, !.run = x,
                          !.version = v] \in TaskRow
    BY <1>1 DEF TaskRow, TaskStatuses, Closed
  <2>3. (IF keep THEN r ELSE None) \in Runs \cup {None}
    BY <1>1
  <2> HIDE DEF keep
  <2> QED BY <2>1, <2>2, <2>3
<1>3. tk \in [Tasks -> TaskRow]
  <2> HIDE DEF row
  <2> QED BY <1>2, ReleaseSourceType
<1>4. tx \in TxSet
  BY BeginType, AcknowledgedType
<1>5. [tx EXCEPT !.task = tk] \in TxSet
  <2> HIDE DEF tk, tx
  <2> QED BY <1>3, <1>4 DEF TxSet
<1>6. Settle([tx EXCEPT !.task = tk], t)
  BY DEF CancelTask
<1>7. task' \in [Tasks -> TaskRow] /\ msg' \in [Msgs -> MsgRow]
  <2> HIDE DEF tk, tx
  <2> QED BY <1>5, <1>6, SettleType
<1>8. run' \in [Runs -> RunRow]
  <2>1. CASE keep
    <3>1. StopRequested(run[r]) \in RunRow
      BY <1>1, <2>1, RowTypes, StopRequestedType
    <3> QED BY <1>1, <2>1, <3>1 DEF CancelTask, TypeOK
  <2>2. CASE ~keep
    BY <2>2 DEF CancelTask, TypeOK
  <2> QED BY <2>1, <2>2
<1> QED BY <1>7, <1>8 DEF CancelTask, TypeOK

\* The operator's completion keeps the types.
LEMMA CompleteTaskType ==
    ASSUME TypeOK, NEW t \in Tasks, CompleteTask(t)
    PROVE  TypeOK'
<1> DEFINE row == [task[t] EXCEPT !.status = "completed", !.head = None,
                                  !.version = @ + 1]
           tx == WithTask(Begin, t, row)
<1>1. row \in TaskRow
  <2>1. task[t] \in TaskRow
    BY RowTypes
  <2>2. task[t].version + 1 \in Nat
    BY <2>1, Counters
  <2>3. \A v \in Nat : [task[t] EXCEPT !.status = "completed", !.head = None,
                                       !.version = v] \in TaskRow
    BY <2>1 DEF TaskRow, TaskStatuses, Closed
  <2> QED BY <2>2, <2>3
<1>2. tx \in TxSet
  <2> HIDE DEF row
  <2> QED BY <1>1, BeginType, WithTaskType
<1>3. \E m \in Slots(tx, t) : Commit(Notified(tx, t, m))
  BY DEF CompleteTask
<1> HIDE DEF tx
<1>4. task' \in [Tasks -> TaskRow] /\ msg' \in [Msgs -> MsgRow]
  BY <1>2, <1>3, NotifiedType, CommitType
<1> QED BY <1>4, TypeFromTables DEF CompleteTask, Others

\* Closing a conversation keeps the types.
LEMMA CloseConversationType ==
    ASSUME TypeOK, NEW c \in Tasks, CloseConversation(c)
    PROVE  TypeOK'
<1> DEFINE row == [task[c] EXCEPT !.status = "completed", !.version = @ + 1]
<1>1. row \in TaskRow
  BY RowTypes, StampedType DEF TaskStatuses, Closed
<1>2. task' = [task EXCEPT ![c] = row]
  BY DEF CloseConversation, TypeOK
<1> HIDE DEF row
<1>3. task' \in [Tasks -> TaskRow]
  BY <1>1, <1>2 DEF TypeOK
<1>4. msg' \in [Msgs -> MsgRow]
  BY RowTypes, NewMsgType DEF CloseConversation
<1> QED BY <1>3, <1>4, TypeFromTables DEF CloseConversation, Others

\* Deleting a task with its runs and messages keeps the types.
LEMMA DeleteTaskType ==
    ASSUME TypeOK, NEW t \in Tasks, NEW A, DeleteTask(t, A)
    PROVE  TypeOK'
<1>1. PICK tk : /\ tk \in {task, ReleaseSource(task, t)}
                /\ task' = [tk EXCEPT ![t] = NewTask("deleted", 0)]
  BY DEF DeleteTask
<1>2. tk \in [Tasks -> TaskRow]
  BY <1>1, ReleaseSourceType DEF TypeOK
<1>3. task' \in [Tasks -> TaskRow]
  BY <1>1, <1>2, NewTaskType
<1>4. \A r \in Runs : [run[r] EXCEPT !.state = "deleted"] \in RunRow
  BY RowTypes DEF RunRow
<1>5. run' \in [Runs -> RunRow]
  BY <1>4, RowTypes DEF DeleteTask
<1>6. msg' \in [Msgs -> MsgRow]
  BY RowTypes, NewMsgType DEF DeleteTask
<1> QED BY <1>3, <1>5, <1>6 DEF DeleteTask, TypeOK

\* Messages keep the types.
LEMMA SendToTaskType ==
    ASSUME TypeOK, NEW t \in Tasks, NEW wake \in BOOLEAN, NEW A, NEW m \in Msgs,
           SendToTask(t, wake, A, m)
    PROVE  TypeOK'
<1> DEFINE tx == Acknowledged(Begin, A)
<1>1. tx \in TxSet
  BY BeginType, AcknowledgedType
<1>2. Commit([task |-> IF wake THEN [task EXCEPT ![t] = Woken(task[t])] ELSE task,
              msg |-> [tx.msg EXCEPT ![m] = NewMsg(t, wake)]])
  BY DEF SendToTask
<1>3. Woken(task[t]) \in TaskRow
  BY RowTypes, WokenType
<1> HIDE DEF tx
<1>4. task' \in [Tasks -> TaskRow]
  BY <1>2, <1>3 DEF Commit, TypeOK
<1>5. msg' \in [Msgs -> MsgRow]
  BY <1>1, <1>2, NewMsgType DEF Commit, TxSet
<1> QED BY <1>4, <1>5, TypeFromTables DEF SendToTask, Others

\* A message that opens a conversation keeps the types.
LEMMA SendToNewConversationType ==
    ASSUME TypeOK, NEW c \in Tasks, NEW wake \in BOOLEAN, NEW A, NEW m \in Msgs,
           SendToNewConversation(c, wake, A, m)
    PROVE  TypeOK'
<1> DEFINE tx == Acknowledged(Begin, A)
           row == NewTask(IF wake THEN "queued" ELSE "waiting", 1)
<1>1. tx \in TxSet
  BY BeginType, AcknowledgedType
<1>2. row \in TaskRow
  BY NewTaskType DEF TaskStatuses
<1>3. Commit([task |-> [task EXCEPT ![c] = row],
              msg |-> [tx.msg EXCEPT ![m] = NewMsg(c, wake)]])
  BY DEF SendToNewConversation
<1> HIDE DEF tx, row
<1>4. task' \in [Tasks -> TaskRow]
  BY <1>2, <1>3 DEF Commit, TypeOK
<1>5. msg' \in [Msgs -> MsgRow]
  BY <1>1, <1>3, NewMsgType DEF Commit, TxSet
<1> QED BY <1>4, <1>5, TypeFromTables DEF SendToNewConversation, Others

\* Retrying a failed message keeps the types.
LEMMA RetryMessageType ==
    ASSUME TypeOK, NEW m \in Msgs, RetryMessage(m)
    PROVE  TypeOK'
<1>1. [msg[m] EXCEPT !.count = 0] \in MsgRow
  BY RowTypes DEF MsgRow
<1>2. msg' \in [Msgs -> MsgRow]
  BY <1>1 DEF RetryMessage, TypeOK
<1>3. task' \in [Tasks -> TaskRow]
  <2> DEFINE t == msg[m].task
  <2>1. task' \in {task, [task EXCEPT ![t] = Woken(task[t])]}
    BY DEF RetryMessage
  <2>2. t \in Tasks => Woken(task[t]) \in TaskRow
    BY RowTypes, WokenType
  <2> HIDE DEF t
  <2> QED BY <2>1, <2>2 DEF TypeOK
<1> QED BY <1>2, <1>3, TypeFromTables DEF RetryMessage, Others

\* The projections of Git keep the types.
LEMMA FinalizeCaptureType ==
    ASSUME TypeOK, NEW t \in Tasks, FinalizeCapture(t)
    PROVE  TypeOK'
<1> DEFINE captured == [task[t] EXCEPT !.status = "submitted", !.run = None,
                                       !.head = task[t].pendRun,
                                       !.version = @ + 1]
           row == Cleared(captured)
           accept == [row EXCEPT !.accepted = Assignee[t], !.pending = "advance",
                                 !.pendRun = row.head, !.pendVer = row.version]
<1>1. captured \in TaskRow
  <2>1. task[t] \in TaskRow
    BY RowTypes
  <2>2. task[t].version + 1 \in Nat
    BY <2>1, Counters
  <2>3. \A v \in Nat : [task[t] EXCEPT !.status = "submitted", !.run = None,
                          !.head = task[t].pendRun, !.version = v] \in TaskRow
    BY <2>1 DEF TaskRow, TaskStatuses
  <2> QED BY <2>2, <2>3
<1>2. row \in TaskRow
  <2> HIDE DEF captured
  <2> QED BY <1>1, ClearedType
<1>3. accept \in TaskRow
  <2> HIDE DEF row
  <2>1. Assignee[t] \in Agents \cup {None}
    BY LedgerAssumption
  <2> QED BY <1>2, <2>1 DEF TaskRow
<1>4. \/ Commit(Disposed(WithTask(Begin, t, accept), t))
      \/ Settle(WithTask(Begin, t, row), t)
  BY DEF FinalizeCapture
<1> HIDE DEF row, accept
<1>5. task' \in [Tasks -> TaskRow] /\ msg' \in [Msgs -> MsgRow]
  BY <1>2, <1>3, <1>4, BeginType, WithTaskType, DisposedType, CommitType, SettleType
<1> QED BY <1>5, TypeFromTables DEF FinalizeCapture, Others

\* A failed capture, which may break the project, keeps the types.
LEMMA ProjectCaptureFailureType ==
    ASSUME TypeOK, NEW t \in Tasks, NEW invariant \in BOOLEAN,
           ProjectCaptureFailure(t, invariant)
    PROVE  TypeOK'
<1> DEFINE freed == [task[t] EXCEPT !.run = None, !.failure = TRUE,
                                    !.version = @ + 1]
           row == Cleared(freed)
           next == IF invariant THEN [row EXCEPT !.status = "failed"]
                   ELSE RetryDecision(row)
<1>1. freed \in TaskRow
  <2>1. task[t] \in TaskRow
    BY RowTypes
  <2>2. task[t].version + 1 \in Nat
    BY <2>1, Counters
  <2>3. \A v \in Nat : [task[t] EXCEPT !.run = None, !.failure = TRUE,
                                       !.version = v] \in TaskRow
    BY <2>1 DEF TaskRow
  <2> QED BY <2>2, <2>3
<1>2. row \in TaskRow
  <2> HIDE DEF freed
  <2> QED BY <1>1, ClearedType
<1>3. next \in TaskRow
  <2> HIDE DEF row
  <2>1. [row EXCEPT !.status = "failed"] \in TaskRow
    BY <1>2 DEF TaskRow, TaskStatuses
  <2> QED BY <1>2, <2>1, RetryDecisionType
<1> DEFINE base == IF invariant THEN Broken(Begin) ELSE Begin
           tx == WithTask(base, t, next)
<1>4. /\ project' = tx.project
      /\ Settle(tx, t) \/ Commit(tx)
      /\ UNCHANGED <<run, agent>>
  BY DEF ProjectCaptureFailure
<1>5. tx \in TxSet
  <2> HIDE DEF next
  <2> QED BY <1>3, BeginType, BrokenType, WithTaskType
<1> HIDE DEF tx
<1>6. task' \in [Tasks -> TaskRow] /\ msg' \in [Msgs -> MsgRow]
  BY <1>4, <1>5, CommitType, SettleType
<1> QED BY <1>4, <1>5, <1>6 DEF TxSet, TypeOK

\* A successful advance, its source completed too, keeps the types.
LEMMA FinalizeSuccessfulAdvanceType ==
    ASSUME TypeOK, NEW t \in Tasks, FinalizeSuccessfulAdvance(t)
    PROVE  TypeOK'
<1> DEFINE s == task[t].source
           row == Cleared(Completed(task[t]))
           src == Disposed(WithTask(Begin, s, Completed(task[s])), s)
<1>1. row \in TaskRow
  BY RowTypes, CompletedType, ClearedType
<1>2. CASE Kind[t] = "integration"
  <2>1. s \in Tasks
    BY <1>2, RowTypes DEF FinalizeSuccessfulAdvance, SourceFence, TaskRow
  <2>2. Completed(task[s]) \in TaskRow
    BY <2>1, RowTypes, CompletedType
  <2>3. src \in TxSet
    <3> HIDE DEF s
    <3> QED BY <2>1, <2>2, BeginType, WithTaskType, DisposedType
  <2>4. \E m \in Slots(src, s) :
          Commit(Disposed(WithTask(Notified(src, s, m), t, row), t))
    BY <1>2 DEF FinalizeSuccessfulAdvance
  <2> HIDE DEF s, src, row
  <2> QED BY <1>1, <2>1, <2>3, <2>4, NotifiedType, WithTaskType, DisposedType,
             CommitType, TypeFromTables DEF FinalizeSuccessfulAdvance, Others
<1>3. CASE Kind[t] # "integration"
  <2>1. Settle(WithTask(Begin, t, row), t)
    BY <1>3 DEF FinalizeSuccessfulAdvance
  <2> HIDE DEF row
  <2> QED BY <1>1, <2>1, BeginType, WithTaskType, SettleType, TypeFromTables
          DEF FinalizeSuccessfulAdvance, Others
<1> QED BY <1>2, <1>3

\* Requeueing a stale integration task keeps the types.
LEMMA RequeueStaleIntegrationType ==
    ASSUME TypeOK, NEW t \in Tasks, NEW m \in Msgs, RequeueStaleIntegration(t, m)
    PROVE  TypeOK'
<1> DEFINE requeued == [task[t] EXCEPT !.status = "queued", !.run = None,
                                       !.version = @ + 1]
<1>1. requeued \in TaskRow
  <2>1. task[t] \in TaskRow
    BY RowTypes
  <2>2. task[t].version + 1 \in Nat
    BY <2>1, Counters
  <2>3. \A v \in Nat : [task[t] EXCEPT !.status = "queued", !.run = None,
                                       !.version = v] \in TaskRow
    BY <2>1 DEF TaskRow, TaskStatuses
  <2> QED BY <2>2, <2>3
<1>2. task' = [task EXCEPT ![t] = Cleared(requeued)]
  BY DEF RequeueStaleIntegration
<1> HIDE DEF requeued
<1>3. task' \in [Tasks -> TaskRow]
  BY <1>1, <1>2, ClearedType DEF TypeOK
<1>4. msg' \in [Msgs -> MsgRow]
  BY NewMsgType DEF RequeueStaleIntegration, TypeOK
<1> QED BY <1>3, <1>4, TypeFromTables DEF RequeueStaleIntegration, Others

\* Creating an integration task for a stale source keeps the types.
LEMMA CreateIntegrationType ==
    ASSUME TypeOK, NEW t \in Tasks, NEW i \in Tasks, NEW m \in Msgs,
           CreateIntegration(t, i, m)
    PROVE  TypeOK'
<1> DEFINE linked == [task[t] EXCEPT !.link = i, !.version = @ + 1]
           row == Cleared(linked)
           fresh == [NewTask("queued", 1) EXCEPT !.source = t,
                                                 !.srcHead = task[t].head,
                                                 !.srcVer = row.version]
<1>1. task[t] \in TaskRow
  BY RowTypes
<1>2. linked \in TaskRow
  <2>1. task[t].version + 1 \in Nat
    BY <1>1, Counters
  <2>2. \A v \in Nat : [task[t] EXCEPT !.link = i, !.version = v] \in TaskRow
    BY <1>1 DEF TaskRow
  <2> QED BY <2>1, <2>2
<1>3. row \in TaskRow
  <2> HIDE DEF linked
  <2> QED BY <1>2, ClearedType
<1>4. fresh \in TaskRow
  <2> HIDE DEF row
  <2>1. NewTask("queued", 1) \in TaskRow
    BY NewTaskType DEF TaskStatuses
  <2>2. row.version \in Nat /\ task[t].head \in Runs \cup {None}
    BY <1>1, <1>3 DEF TaskRow
  <2> QED BY <2>1, <2>2 DEF TaskRow
<1>5. task' = [task EXCEPT ![t] = row, ![i] = fresh]
  BY DEF CreateIntegration
<1> HIDE DEF row, fresh
<1>6. task' \in [Tasks -> TaskRow]
  BY <1>3, <1>4, <1>5 DEF TypeOK
<1>7. msg' \in [Msgs -> MsgRow]
  BY NewMsgType DEF CreateIntegration, TypeOK
<1> QED BY <1>6, <1>7, TypeFromTables DEF CreateIntegration, Others

\* An advance that meets a broken repository keeps the types.
LEMMA ProjectAdvanceInvariantFailureType ==
    ASSUME TypeOK, NEW t \in Tasks, ProjectAdvanceInvariantFailure(t)
    PROVE  TypeOK'
<1> DEFINE failed == [task[t] EXCEPT !.status = "failed", !.failure = TRUE,
                                     !.version = @ + 1]
<1>1. failed \in TaskRow
  <2>1. task[t] \in TaskRow
    BY RowTypes
  <2>2. task[t].version + 1 \in Nat
    BY <2>1, Counters
  <2>3. \A v \in Nat : [task[t] EXCEPT !.status = "failed", !.failure = TRUE,
                                       !.version = v] \in TaskRow
    BY <2>1 DEF TaskRow, TaskStatuses
  <2> QED BY <2>2, <2>3
<1>2. Settle(WithTask(Broken(Begin), t, Cleared(failed)), t)
  BY DEF ProjectAdvanceInvariantFailure
<1>3. task' \in [Tasks -> TaskRow] /\ msg' \in [Msgs -> MsgRow]
  <2> HIDE DEF failed
  <2> QED BY <1>1, <1>2, ClearedType, BeginType, BrokenType, WithTaskType, SettleType
<1>4. project' \in ProjectStatuses
  BY BeginType, BrokenType DEF ProjectAdvanceInvariantFailure, TxSet
<1> QED BY <1>3, <1>4 DEF ProjectAdvanceInvariantFailure, TypeOK

\* Deleting the project keeps the types.
LEMMA DeleteProjectType ==
    ASSUME TypeOK, DeleteProject
    PROVE  TypeOK'
<1>1. task' \in [Tasks -> TaskRow]
  BY RowTypes, NewTaskType DEF DeleteProject
<1>2. \A r \in Runs : [run[r] EXCEPT !.state = "deleted"] \in RunRow
  BY RowTypes DEF RunRow
<1>3. run' \in [Runs -> RunRow]
  BY <1>2, RowTypes DEF DeleteProject
<1>4. msg' \in [Msgs -> MsgRow]
  BY NewMsgType DEF DeleteProject
<1> QED BY <1>1, <1>3, <1>4 DEF DeleteProject, TypeOK, ProjectStatuses

\* Agent and project operations keep the types.
LEMMA AdminStepType ==
    ASSUME TypeOK, AdminStep
    PROVE  TypeOK'
<1>1. CASE \E m \in Msgs : RetryMessage(m)
  BY <1>1, RetryMessageType
<1>2. CASE \E a \in Agents : PauseOrResumeAgent(a)
  BY <1>2 DEF PauseOrResumeAgent, TypeOK
<1>3. CASE \E a \in Agents : ArchiveAgent(a)
  BY <1>3 DEF ArchiveAgent, TypeOK
<1>4. CASE DeleteProject
  BY <1>4, DeleteProjectType
<1>5. CASE \/ FinishProjectAction(TRUE) \/ FinishProjectAction(FALSE)
           \/ FailActiveVerification \/ RepairProject \/ ArchiveProject
  BY <1>5 DEF FinishProjectAction, FailActiveVerification, RepairProject,
              ArchiveProject, TypeOK, ProjectStatuses
<1> QED BY <1>1, <1>2, <1>3, <1>4, <1>5 DEF AdminStep

\* Every step keeps the types.
LEMMA StepType ==
    ASSUME TypeOK, RunsWellFormed, [Next]_vars
    PROVE  TypeOK'
<1>1. CASE \E r \in Runs : RunStep(r)
  BY <1>1, BeginRunLaunchType, ActivateType, DeliveredType, RequestOutcomeType,
     AcknowledgeType, RequestRunStopType, TerminalType, CleanupType DEF RunStep
<1>2. CASE \E t \in Tasks : TaskStep(t)
  BY <1>2, ClaimNextType, CreateWorkTaskType, WakeTaskType, RetryTaskType,
     CancelTaskType, ReworkTaskType, DeleteTaskType, RequestAcceptType,
     SendToTaskType, SendToNewConversationType, CompleteTaskType,
     CloseConversationType DEF TaskStep
<1>3. CASE \E t \in Tasks : GitStep(t)
  BY <1>3, FinalizeCaptureType, ProjectCaptureFailureType,
     FinalizeSuccessfulAdvanceType, RequeueStaleIntegrationType,
     CreateIntegrationType, ProjectAdvanceInvariantFailureType DEF GitStep
<1>4. CASE AdminStep
  BY <1>4, AdminStepType
<1>5. CASE UNCHANGED vars
  BY <1>5 DEF TypeOK, vars
<1> QED BY <1>1, <1>2, <1>3, <1>4, <1>5 DEF Next

-----------------------------------------------------------------------------
(* One runtime per agent.                                                  *)

\* A run that no step gives a container keeps the invariant: what may hold a
\* container afterwards held one before, and belongs to the same task.
LEMMA NoNewHolder ==
    ASSUME TypeOK, OneRuntimePerAgent,
           \A r \in Runs : MayHoldContainer(r)' /\ run'[r].state # "deleted" =>
              /\ MayHoldContainer(r) /\ run[r].state # "deleted"
              /\ run'[r].task = run[r].task
    PROVE  OneRuntimePerAgent'
<1> SUFFICES ASSUME NEW r \in Runs, NEW x \in Runs,
                    MayHoldContainer(r)', run'[r].state # "deleted",
                    MayHoldContainer(x)', run'[x].state # "deleted",
                    Assignee[run'[r].task] = Assignee[run'[x].task]
             PROVE  r = x
  BY DEF OneRuntimePerAgent
<1>1. /\ MayHoldContainer(r) /\ run[r].state # "deleted" /\ run'[r].task = run[r].task
      /\ MayHoldContainer(x) /\ run[x].state # "deleted" /\ run'[x].task = run[x].task
  OBVIOUS
<1> QED BY <1>1 DEF OneRuntimePerAgent

\* A step that leaves the runs table alone keeps both run invariants.
LEMMA RunsUnchanged ==
    ASSUME RunsWellFormed, OneRuntimePerAgent, UNCHANGED run
    PROVE  RunsWellFormed' /\ OneRuntimePerAgent'
BY DEF RunsWellFormed, OneRuntimePerAgent, MayHoldContainer, Live

\* A step that changes the row of one run, never its task, only ends it or
\* moves its cleanup on, keeps both.
LEMMA OneRunChanged ==
    ASSUME RuntimeInv, NEW r \in Runs, NEW row \in RunRow,
           run[r].state # "none",
           run' = [run EXCEPT ![r] = row],
           row.state # "none", row.task = run[r].task,
           row.prepared => row.cleanup # "not_needed",
           /\ Live(row) \/ row.cleanup \in {"pending", "blocked"}
           /\ row.state # "deleted"
           => MayHoldContainer(r) /\ run[r].state # "deleted"
    PROVE  RunsWellFormed' /\ OneRuntimePerAgent'
<1>1. run \in [Runs -> RunRow]
  BY DEF RuntimeInv, TypeOK
<1>2. run'[r] = row /\ \A x \in Runs : x # r => run'[x] = run[x]
  BY <1>1
<1>3. RunsWellFormed'
  <2> SUFFICES ASSUME NEW x \in Runs
               PROVE  /\ run'[x].state = "none" => run'[x].task = None
                      /\ run'[x].state # "none" =>
                            /\ run'[x].task # None
                            /\ Assignee[run'[x].task] # None
                            /\ run'[x].prepared => run'[x].cleanup # "not_needed"
    BY DEF RunsWellFormed
  <2>1. CASE x = r
    BY <1>2, <2>1 DEF RuntimeInv, RunsWellFormed
  <2>2. CASE x # r
    BY <1>2, <2>2 DEF RuntimeInv, RunsWellFormed
  <2> QED BY <2>1, <2>2
<1>4. OneRuntimePerAgent'
  <2>1. ASSUME NEW x \in Runs, MayHoldContainer(x)', run'[x].state # "deleted"
        PROVE  /\ MayHoldContainer(x) /\ run[x].state # "deleted"
               /\ run'[x].task = run[x].task
    <3>1. CASE x = r
      BY <1>2, <2>1, <3>1 DEF MayHoldContainer, Live
    <3>2. CASE x # r
      BY <1>2, <2>1, <3>2 DEF MayHoldContainer, Live
    <3> QED BY <3>1, <3>2
  <2> QED BY <2>1, NoNewHolder DEF RuntimeInv
<1> QED BY <1>3, <1>4

\* A claim gives an agent a runtime only when none of its runs on record holds
\* one: this is where AgentRuntimeOccupancy is needed.
LEMMA ClaimNextRuntime ==
    ASSUME RuntimeInv, NEW t \in Tasks, NEW r \in Runs, ClaimNext(t, r)
    PROVE  RunsWellFormed' /\ OneRuntimePerAgent'
<1> DEFINE row == [NoRun EXCEPT !.state = "starting", !.task = t,
                                !.gen = NextGeneration(task[t])]
<1>1. run \in [Runs -> RunRow]
  BY DEF RuntimeInv, TypeOK
<1>2. run'[r] = row /\ \A x \in Runs : x # r => run'[x] = run[x]
  BY <1>1 DEF ClaimNext
<1>3. row.task = t /\ row.state = "starting" /\ ~row.prepared
  BY DEF NoRun
<1>4. t # None /\ Assignee[t] # None
  BY LedgerAssumption DEF ClaimNext
<1> HIDE DEF row
<1>5. RunsWellFormed'
  <2> SUFFICES ASSUME NEW x \in Runs
               PROVE  /\ run'[x].state = "none" => run'[x].task = None
                      /\ run'[x].state # "none" =>
                            /\ run'[x].task # None
                            /\ Assignee[run'[x].task] # None
                            /\ run'[x].prepared => run'[x].cleanup # "not_needed"
    BY DEF RunsWellFormed
  <2>1. CASE x = r
    BY <1>2, <1>3, <1>4, <2>1
  <2>2. CASE x # r
    BY <1>2, <2>2 DEF RuntimeInv, RunsWellFormed
  <2> QED BY <2>1, <2>2
<1>6. ASSUME NEW x \in Runs, x # r, MayHoldContainer(x)', run'[x].state # "deleted"
      PROVE  /\ MayHoldContainer(x) /\ run[x].state # "deleted"
             /\ run'[x].task = run[x].task
             /\ Assignee[run[x].task] # Assignee[t]
  <2>1. run'[x] = run[x]
    BY <1>2, <1>6
  <2>2. MayHoldContainer(x) /\ run[x].state # "deleted"
    BY <1>6, <2>1 DEF MayHoldContainer, Live
  <2>3. ~Occupies(x, Assignee[t])
    BY DEF ClaimNext
  <2> QED BY <2>1, <2>2, <2>3 DEF Occupies, MayHoldContainer
<1>7. OneRuntimePerAgent'
  <2> SUFFICES ASSUME NEW x \in Runs, NEW y \in Runs,
                      MayHoldContainer(x)', run'[x].state # "deleted",
                      MayHoldContainer(y)', run'[y].state # "deleted",
                      Assignee[run'[x].task] = Assignee[run'[y].task]
               PROVE  x = y
    BY DEF OneRuntimePerAgent
  <2>1. CASE x = r /\ y # r
    BY <1>2, <1>3, <1>6, <2>1
  <2>2. CASE x # r /\ y = r
    BY <1>2, <1>3, <1>6, <2>2
  <2>3. CASE x # r /\ y # r
    BY <1>6, <2>3 DEF RuntimeInv, OneRuntimePerAgent
  <2> QED BY <2>1, <2>2, <2>3
<1> QED BY <1>5, <1>7

\* The steps of a run keep both run invariants: a launch is prepared for a run
\* that is live already, and a cleanup state only moves on.
LEMMA RunStepRuntime ==
    ASSUME RuntimeInv, NEW r \in Runs, RunStep(r)
    PROVE  RunsWellFormed' /\ OneRuntimePerAgent'
<1>1. run \in [Runs -> RunRow] /\ run[r] \in RunRow
  BY DEF RuntimeInv, TypeOK
<1>2. CASE BeginRunLaunch(r)
  <2> DEFINE row == [run[r] EXCEPT !.prepared = TRUE, !.cleanup = "pending"]
  <2>1. /\ row \in RunRow /\ row.task = run[r].task /\ row.cleanup = "pending"
        /\ row.state = run[r].state
    BY <1>1 DEF RunRow
  <2>2. run' = [run EXCEPT ![r] = row]
    BY <1>1, <1>2 DEF BeginRunLaunch
  <2>3. run[r].state = "starting"
    BY <1>2 DEF BeginRunLaunch
  <2> HIDE DEF row
  <2> QED BY <2>1, <2>2, <2>3, OneRunChanged DEF MayHoldContainer, Live
<1>3. CASE ObserveProcessAndActivateRun(r)
  <2> DEFINE row == [run[r] EXCEPT !.state = "active"]
  <2>1. /\ row \in RunRow /\ row.task = run[r].task /\ row.state = "active"
        /\ row.cleanup = run[r].cleanup /\ row.prepared = run[r].prepared
    BY <1>1 DEF RunRow
  <2>2. run' = [run EXCEPT ![r] = row]
    BY <1>1, <1>3 DEF ObserveProcessAndActivateRun
  <2>3. run[r].state = "starting"
    BY <1>3 DEF ObserveProcessAndActivateRun
  <2> HIDE DEF row
  <2> QED BY <2>1, <2>2, <2>3, OneRunChanged
          DEF MayHoldContainer, Live, RuntimeInv, RunsWellFormed
<1>4. CASE \E o \in {"wait", "fail", "submit"} : RequestOutcome(r, o)
  <2>1. PICK o \in {"wait", "fail", "submit"} : RequestOutcome(r, o)
    BY <1>4
  <2> DEFINE row == [run[r] EXCEPT !.outcome = o, !.revoked = TRUE]
  <2>2. /\ row \in RunRow /\ row.task = run[r].task /\ row.state = run[r].state
        /\ row.cleanup = run[r].cleanup /\ row.prepared = run[r].prepared
    BY <1>1 DEF RunRow
  <2>3. run' = [run EXCEPT ![r] = row]
    BY <1>1, <2>1 DEF RequestOutcome
  <2>4. run[r].state = "active"
    BY <2>1 DEF RequestOutcome, Authentic
  <2> HIDE DEF row
  <2> QED BY <2>2, <2>3, <2>4, OneRunChanged
          DEF MayHoldContainer, Live, RuntimeInv, RunsWellFormed
<1>5. CASE RequestRunStop(r)
  <2> DEFINE row == StopRequested(run[r])
  <2>1. /\ row \in RunRow /\ row.task = run[r].task /\ row.state = run[r].state
        /\ row.cleanup = run[r].cleanup /\ row.prepared = run[r].prepared
    BY <1>1 DEF StopRequested, RunRow
  <2>2. run' = [run EXCEPT ![r] = row]
    BY <1>5 DEF RequestRunStop
  <2>3. Live(run[r]) /\ run[r].state # "none" /\ run[r].state # "deleted"
    BY <1>5 DEF RequestRunStop, Live
  <2> HIDE DEF row
  <2> QED BY <2>1, <2>2, <2>3, OneRunChanged
          DEF MayHoldContainer, RuntimeInv, RunsWellFormed
<1>6. CASE \E s \in TerminalStates : RecordRuntimeRunTerminal(r, s)
  <2>1. PICK s \in TerminalStates : RecordRuntimeRunTerminal(r, s)
    BY <1>6
  <2> DEFINE row == [run[r] EXCEPT !.state = s, !.revoked = TRUE]
  <2>2. /\ row \in RunRow /\ row.task = run[r].task /\ row.state # "none"
        /\ row.cleanup = run[r].cleanup /\ row.prepared = run[r].prepared
    BY <1>1, LedgerAssumption DEF RunRow, AllTerminal
  <2>3. run' = [run EXCEPT ![r] = row]
    BY <1>1, <2>1 DEF RecordRuntimeRunTerminal
  <2>4. Live(run[r]) /\ run[r].state # "none" /\ run[r].state # "deleted"
    BY <2>1 DEF RecordRuntimeRunTerminal, Live
  <2> HIDE DEF row
  <2> QED BY <2>2, <2>3, <2>4, OneRunChanged
          DEF MayHoldContainer, RuntimeInv, RunsWellFormed
<1>7. CASE \E c \in {"pending", "blocked", "removed"} : RecordRunCleanup(r, c)
  <2>1. PICK c \in {"pending", "blocked", "removed"} : RecordRunCleanup(r, c)
    BY <1>7
  <2> DEFINE row == [run[r] EXCEPT !.cleanup = c]
  <2>2. /\ row \in RunRow /\ row.task = run[r].task /\ row.state = run[r].state
        /\ row.cleanup = c
    BY <1>1 DEF RunRow
  <2>3. run' = [run EXCEPT ![r] = row]
    BY <1>1, <2>1 DEF RecordRunCleanup
  <2>4. run[r].state \notin {"none", "deleted"} /\ run[r].prepared
    BY <2>1 DEF RecordRunCleanup
  <2>5. run[r].cleanup # "not_needed"
    BY <2>4 DEF RuntimeInv, RunsWellFormed
  <2>6. run[r].cleanup \in {"pending", "blocked"}
    BY <2>1, <2>5 DEF RecordRunCleanup
  <2> HIDE DEF row
  <2> QED BY <2>2, <2>3, <2>4, <2>6, OneRunChanged DEF MayHoldContainer
<1>8. CASE RecordMessagesDelivered(r) \/ AcknowledgeAgentMessages(r)
  BY <1>8, RunsUnchanged
     DEF RecordMessagesDelivered, AcknowledgeAgentMessages, RuntimeInv
<1> QED BY <1>2, <1>3, <1>4, <1>5, <1>6, <1>7, <1>8 DEF RunStep

\* Cancelling a task leaves its live run where it is.
LEMMA CancelTaskRuntime ==
    ASSUME RuntimeInv, NEW t \in Tasks, NEW A, CancelTask(t, A)
    PROVE  RunsWellFormed' /\ OneRuntimePerAgent'
<1> DEFINE r == task[t].run
<1>1. CASE r # None /\ Live(run[r])
  <2> DEFINE row == StopRequested(run[r])
  <2>1. r \in Runs
    BY <1>1, RowTypes DEF RuntimeInv, TaskRow
  <2>2. run[r] \in RunRow
    BY <2>1 DEF RuntimeInv, TypeOK
  <2>3. /\ row \in RunRow /\ row.task = run[r].task /\ row.state = run[r].state
        /\ row.cleanup = run[r].cleanup /\ row.prepared = run[r].prepared
    BY <2>2 DEF StopRequested, RunRow
  <2>4. run' = [run EXCEPT ![r] = row]
    BY <1>1 DEF CancelTask
  <2>5. Live(run[r]) /\ run[r].state # "none" /\ run[r].state # "deleted"
    BY <1>1 DEF Live
  <2> HIDE DEF row, r
  <2> QED BY <2>1, <2>3, <2>4, <2>5, OneRunChanged
          DEF MayHoldContainer, RuntimeInv, RunsWellFormed
<1>2. CASE ~(r # None /\ Live(run[r]))
  BY <1>2, RunsUnchanged DEF CancelTask, RuntimeInv
<1> QED BY <1>1, <1>2

\* A deletion takes runs off the record and gives none a container.
LEMMA DeletionRuntime ==
    ASSUME RuntimeInv, NEW D \in SUBSET Runs,
           run' = [r \in Runs |-> IF r \in D THEN [run[r] EXCEPT !.state = "deleted"]
                                  ELSE run[r]],
           \A r \in D : run[r].state # "none"
    PROVE  RunsWellFormed' /\ OneRuntimePerAgent'
<1>1. \A r \in Runs : run[r] \in RunRow
  BY DEF RuntimeInv, TypeOK
<1>2. \A r \in Runs : /\ run'[r].task = run[r].task
                      /\ run'[r].cleanup = run[r].cleanup
                      /\ run'[r].prepared = run[r].prepared
                      /\ run'[r].state = IF r \in D THEN "deleted" ELSE run[r].state
  BY <1>1 DEF RunRow
<1>3. RunsWellFormed'
  BY <1>2 DEF RuntimeInv, RunsWellFormed
<1>4. ASSUME NEW r \in Runs, MayHoldContainer(r)', run'[r].state # "deleted"
      PROVE  /\ MayHoldContainer(r) /\ run[r].state # "deleted"
             /\ run'[r].task = run[r].task
  BY <1>2, <1>4 DEF MayHoldContainer, Live
<1> QED BY <1>3, <1>4, NoNewHolder DEF RuntimeInv

\* The steps of a task keep both run invariants.
LEMMA TaskStepRuntime ==
    ASSUME RuntimeInv, NEW t \in Tasks, TaskStep(t)
    PROVE  RunsWellFormed' /\ OneRuntimePerAgent'
<1>1. CASE \E r \in Runs : ClaimNext(t, r)
  BY <1>1, ClaimNextRuntime
<1>2. CASE \E A : CancelTask(t, A)
  BY <1>2, CancelTaskRuntime
<1>3. CASE \E A : DeleteTask(t, A)
  <2> DEFINE D == {r \in Runs : run[r].task = t}
  <2>1. \A r \in D : run[r].state # "none"
    BY LedgerAssumption DEF RuntimeInv, RunsWellFormed
  <2>2. run' = [r \in Runs |-> IF r \in D THEN [run[r] EXCEPT !.state = "deleted"]
                               ELSE run[r]]
    BY <1>3 DEF DeleteTask
  <2> HIDE DEF D
  <2>3. D \in SUBSET Runs
    BY DEF D
  <2> QED BY <2>1, <2>2, <2>3, DeletionRuntime
<1>4. CASE \/ \E A : \/ CreateWorkTask(t, A) \/ WakeTask(t, A) \/ RetryTask(t, A)
                     \/ ReworkTask(t, A)
                     \/ \E a \in Agents : RequestAccept(t, a, A)
                     \/ \E wake \in BOOLEAN, m \in Msgs :
                           \/ SendToTask(t, wake, A, m)
                           \/ SendToNewConversation(t, wake, A, m)
           \/ CompleteTask(t) \/ CloseConversation(t)
  BY <1>4, RunsUnchanged
     DEF CreateWorkTask, WakeTask, RetryTask, ReworkTask, RequestAccept, SendToTask,
         SendToNewConversation, CompleteTask, CloseConversation, RuntimeInv
<1> QED BY <1>1, <1>2, <1>3, <1>4 DEF TaskStep

\* Deleting the project takes every run off the record.
LEMMA DeleteProjectRuntime ==
    ASSUME RuntimeInv, DeleteProject
    PROVE  RunsWellFormed' /\ OneRuntimePerAgent'
<1> DEFINE D == {r \in Runs : run[r].state # "none"}
<1>1. run' = [r \in Runs |-> IF r \in D THEN [run[r] EXCEPT !.state = "deleted"]
                             ELSE run[r]]
  BY DEF DeleteProject
<1>2. D \in SUBSET Runs /\ \A r \in D : run[r].state # "none"
  OBVIOUS
<1> HIDE DEF D
<1> QED BY <1>1, <1>2, DeletionRuntime

\* RuntimeInv holds initially.
LEMMA RuntimeInit == Init => RuntimeInv
<1> SUFFICES ASSUME Init PROVE RuntimeInv
  OBVIOUS
<1>1. NoRun \in RunRow
  BY DEF NoRun, RunRow
<1>2. TypeOK
  BY <1>1, NewTaskType, NewMsgType DEF Init, TypeOK, ProjectStatuses
<1>3. \A r \in Runs : run[r].state = "none" /\ run[r].task = None
  BY DEF Init, NoRun
<1> QED BY <1>2, <1>3
        DEF RuntimeInv, RunsWellFormed, OneRuntimePerAgent, MayHoldContainer

\* RuntimeInv is inductive.
LEMMA RuntimeStep == RuntimeInv /\ [Next]_vars => RuntimeInv'
<1> SUFFICES ASSUME RuntimeInv, [Next]_vars PROVE RuntimeInv'
  OBVIOUS
<1>1. TypeOK'
  BY StepType DEF RuntimeInv
<1>2. RunsWellFormed' /\ OneRuntimePerAgent'
  <2>1. CASE \E r \in Runs : RunStep(r)
    BY <2>1, RunStepRuntime
  <2>2. CASE \E t \in Tasks : TaskStep(t)
    BY <2>2, TaskStepRuntime
  <2>3. CASE \E t \in Tasks : GitStep(t)
    BY <2>3, RunsUnchanged
       DEF GitStep, FinalizeCapture, ProjectCaptureFailure, FinalizeSuccessfulAdvance,
           RequeueStaleIntegration, CreateIntegration, ProjectAdvanceInvariantFailure,
           RuntimeInv
  <2>4. CASE AdminStep /\ ~DeleteProject
    BY <2>4, RunsUnchanged
       DEF AdminStep, RetryMessage, PauseOrResumeAgent, ArchiveAgent, ArchiveProject,
           FinishProjectAction, FailActiveVerification, RepairProject, RuntimeInv
  <2>5. CASE DeleteProject
    BY <2>5, DeleteProjectRuntime
  <2>6. CASE UNCHANGED vars
    BY <2>6, RunsUnchanged DEF vars, RuntimeInv
  <2> QED BY <2>1, <2>2, <2>3, <2>4, <2>5, <2>6 DEF Next
<1> QED BY <1>1, <1>2 DEF RuntimeInv

\* The tables keep their types whatever the workers, the agents and the
\* operator do: no reference column ever holds anything but an identifier of
\* its table or "".
THEOREM TypeCorrect == Spec => []TypeOK
<1>1. RuntimeInv => TypeOK
  BY DEF RuntimeInv
<1> QED BY <1>1, RuntimeInit, RuntimeStep, PTL DEF Spec

\* For any number of tasks, runs and agents, no agent ever has two runs on
\* record that may hold a container: ClaimNext's occupancy check is enough,
\* because no other transaction gives a run a container back.
THEOREM RuntimeExclusive == Spec => []OneRuntimePerAgent
<1>1. RuntimeInv => OneRuntimePerAgent
  BY DEF RuntimeInv
<1> QED BY <1>1, RuntimeInit, RuntimeStep, PTL DEF Spec

=============================================================================
