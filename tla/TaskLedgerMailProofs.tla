------------------------ MODULE TaskLedgerMailProofs ------------------------
(***************************************************************************)
(* Proofs about the messages of TaskLedger: an unresolved message is always *)
(* on a task that takes deliveries, in the hands of a live run if it was   *)
(* delivered, and never on a task that waits while it could wake it.       *)
(*                                                                         *)
(* The first part follows a transaction through its steps; the second      *)
(* shows that every transaction ends with its messages in place.           *)
(***************************************************************************)
EXTENDS TaskLedgerRowProofs

-----------------------------------------------------------------------------
(* The inductive invariant.                                                *)

\* What the tasks tk and the runs rn owe to an unresolved message.  Messages
\* in the hands of a run are held to the same as pending ones: the run may end
\* and give them back.
Served(tk, rn, row) ==
    row.state # "none" =>
        /\ row.task \in Tasks
        /\ Assignee[row.task] # None
        /\ Accepts(tk[row.task])
        /\ row.wake /\ ~Exhausted(row) => tk[row.task].status # "waiting"
        /\ row.state = "delivered" =>
              /\ row.run \in Runs
              /\ Live(rn[row.run])
              /\ Assignee[rn[row.run].task] = Assignee[row.task]

MailServed == \A m \in Msgs : Served(task, run, msg[m])

\* A transaction with its messages in place.
TxServed(tx, rn) == \A m \in Msgs : Served(tx.task, rn, tx.msg[m])

\* The same but for the messages of task t.
TxServedBut(tx, rn, t) ==
    \A m \in Msgs : tx.msg[m].task # t => Served(tx.task, rn, tx.msg[m])

\* A write that row's messages do not notice.
CarriesOn(old, new) ==
    Accepts(old) => /\ Accepts(new)
                    /\ old.status # "waiting" => new.status # "waiting"

-----------------------------------------------------------------------------
(* The steps of a transaction.                                             *)

\* A woken row still takes its messages.
LEMMA WokenCarriesOn ==
    ASSUME NEW row \in TaskRow
    PROVE  CarriesOn(row, Woken(row)) /\ CarriesOn(row, row)
BY WokenRow DEF CarriesOn, Accepts

\* Messages in place stay in place under writes they do not notice.
LEMMA CarriedOn ==
    ASSUME NEW tk, NEW tk2, NEW rn, NEW row, Served(tk, rn, row),
           \A c \in Tasks : CarriesOn(tk[c], tk2[c])
    PROVE  Served(tk2, rn, row)
BY DEF Served, CarriesOn

\* Acknowledging takes messages away.
LEMMA AcknowledgedServed ==
    ASSUME NEW tx \in TxSet, NEW rn, NEW A, TxServed(tx, rn)
    PROVE  TxServed(Acknowledged(tx, A), rn)
<1> DEFINE ms == [m \in Msgs |-> IF m \in A THEN NoMsg ELSE tx.msg[m]]
<1>1. Acknowledged(tx, A) = [tx EXCEPT !.msg = ms]
  BY DEF Acknowledged
<1>2. \A m \in Msgs : ms[m] = NoMsg \/ ms[m] = tx.msg[m]
  OBVIOUS
<1> HIDE DEF ms
<1>3. Acknowledged(tx, A).task = tx.task /\ Acknowledged(tx, A).msg = ms
  BY <1>1 DEF TxSet
<1>4. \A tk : Served(tk, rn, NoMsg)
  BY DEF Served, NoMsg
<1> QED BY <1>2, <1>3, <1>4 DEF TxServed

\* A write that its messages do not notice leaves all in place.
LEMMA WithTaskServed ==
    ASSUME NEW tx \in TxSet, NEW rn, NEW t \in Tasks, NEW row,
           TxServed(tx, rn), CarriesOn(tx.task[t], row)
    PROVE  TxServed(WithTask(tx, t, row), rn)
<1> DEFINE tk == [tx.task EXCEPT ![t] = row]
<1>1. WithTask(tx, t, row).task = tk /\ WithTask(tx, t, row).msg = tx.msg
  BY DEF WithTask, TxSet
<1>2. tx.task \in [Tasks -> TaskRow]
  BY DEF TxSet
<1>3. \A c \in Tasks : CarriesOn(tx.task[c], tk[c])
  BY <1>2, WokenCarriesOn
<1> HIDE DEF tk
<1>4. \A m \in Msgs : Served(tk, rn, tx.msg[m])
  BY <1>3, CarriedOn DEF TxServed
<1> QED BY <1>1, <1>4 DEF TxServed

\* Any other write leaves the messages of other tasks in place.
LEMMA WithTaskServedBut ==
    ASSUME NEW tx \in TxSet, NEW rn, NEW t \in Tasks, NEW row, TxServed(tx, rn)
    PROVE  TxServedBut(WithTask(tx, t, row), rn, t)
<1> DEFINE tk == [tx.task EXCEPT ![t] = row]
<1>1. WithTask(tx, t, row).task = tk /\ WithTask(tx, t, row).msg = tx.msg
  BY DEF WithTask, TxSet
<1>2. tx.task \in [Tasks -> TaskRow]
  BY DEF TxSet
<1>3. \A c \in Tasks : c # t => tk[c] = tx.task[c]
  BY <1>2
<1> HIDE DEF tk
<1>4. \A m \in Msgs : tx.msg[m].task # t => Served(tk, rn, tx.msg[m])
  BY <1>3 DEF TxServed, Served
<1> QED BY <1>1, <1>4 DEF TxServedBut

\* disposeUnresolvedMessages puts the messages of t in place again: in the
\* agent's conversation, which is woken if one of them can wake it, or away.
LEMMA DisposedServed ==
    ASSUME NEW tx \in TxSet, NEW rn, NEW t \in Tasks, TxServedBut(tx, rn, t)
    PROVE  TxServed(Disposed(tx, t), rn)
<1> DEFINE to == RerouteTargets(tx, t)
           left == {m \in Msgs : tx.msg[m].state # "none" /\ tx.msg[m].task = t}
           wakes == \E m \in left : tx.msg[m].wake /\ ~Exhausted(tx.msg[m])
           dest == CHOOSE c \in to : TRUE
           tk == [c \in Tasks |-> IF c \in to /\ wakes
                                  THEN Woken(tx.task[c]) ELSE tx.task[c]]
           ms == [m \in Msgs |->
                   IF m \notin left THEN tx.msg[m]
                   ELSE IF to = {} THEN NoMsg
                   ELSE [tx.msg[m] EXCEPT !.state = "pending",
                                          !.task = dest,
                                          !.run = None]]
<1> USE LedgerAssumption
<1>1. Disposed(tx, t).task = tk /\ Disposed(tx, t).msg = ms
  BY DEF Disposed, TxSet
<1>2. \A c \in Tasks : tx.task[c] \in TaskRow
  BY DEF TxSet
<1>3. \A c \in to : c \in Tasks /\ Assignee[c] # None /\ Accepts(tx.task[c])
  BY DEF RerouteTargets, Conversation
<1>4. to # {} => dest \in to
  OBVIOUS
<1>5. \A c \in Tasks : CarriesOn(tx.task[c], tk[c])
  <2> HIDE DEF to, wakes
  <2> QED BY <1>2, WokenCarriesOn
<1>6. ASSUME NEW m \in Msgs, m \notin left PROVE Served(tk, rn, ms[m])
  <2>1. ms[m] = tx.msg[m]
    BY <1>6
  <2>2. Served(tx.task, rn, tx.msg[m])
    BY <1>6 DEF TxServedBut, Served
  <2> HIDE DEF tk, ms
  <2> QED BY <1>5, <2>1, <2>2, CarriedOn
<1>7. ASSUME NEW m \in Msgs, m \in left, to = {} PROVE Served(tk, rn, ms[m])
  <2>1. ms[m] = NoMsg
    BY <1>7
  <2> HIDE DEF tk, ms
  <2> QED BY <2>1 DEF Served, NoMsg
<1>8. ASSUME NEW m \in Msgs, m \in left, to # {} PROVE Served(tk, rn, ms[m])
  <2>1. tx.msg[m] \in MsgRow
    BY DEF TxSet
  <2>2. /\ ms[m] = [tx.msg[m] EXCEPT !.state = "pending", !.task = dest, !.run = None]
    BY <1>8
  <2>3. /\ ms[m].state = "pending" /\ ms[m].task = dest
        /\ ms[m].wake = tx.msg[m].wake /\ ms[m].count = tx.msg[m].count
    <3> HIDE DEF ms, dest
    <3> QED BY <2>1, <2>2 DEF MsgRow
  <2>4. ms[m].wake /\ ~Exhausted(ms[m]) => wakes
    <3> HIDE DEF ms
    <3> QED BY <1>8, <2>3 DEF Exhausted
  <2>5. dest \in to /\ dest \in Tasks /\ Assignee[dest] # None /\ Accepts(tx.task[dest])
    BY <1>3, <1>4, <1>8
  <2>6. wakes => tk[dest] = Woken(tx.task[dest])
    BY <2>5
  <2>7. Woken(tx.task[dest]).status # "waiting"
    BY <1>2, <2>5, WokenRow
  <2>8. Accepts(tk[dest])
    BY <1>5, <2>5 DEF CarriesOn
  <2> HIDE DEF tk, ms, dest, wakes
  <2> QED BY <2>3, <2>4, <2>5, <2>6, <2>7, <2>8 DEF Served
<1> HIDE DEF tk, ms, left, to
<1> QED BY <1>1, <1>6, <1>7, <1>8 DEF TxServed

\* notifyParentOfChild wakes the parent for the message it leaves it.
LEMMA NotifiedServed ==
    ASSUME NEW tx \in TxSet, NEW rn, NEW t \in Tasks, NEW m \in Slots(tx, t),
           TxServed(tx, rn)
    PROVE  TxServed(Notified(tx, t, m), rn)
<1>1. CASE ~NotifiesAgent(tx, t)
  BY <1>1 DEF Notified
<1>2. CASE NotifiesAgent(tx, t)
  <2> DEFINE p == Parent[t]
             tk == [tx.task EXCEPT ![p] = Woken(tx.task[p])]
             ms == [tx.msg EXCEPT ![m] = NewMsg(p, TRUE)]
  <2>1. p \in Tasks /\ Assignee[p] # None /\ Accepts(tx.task[p]) /\ m \in Msgs
    BY <1>2, LedgerAssumption DEF NotifiesAgent, Slots, FreeMsgs
  <2>2. Notified(tx, t, m).task = tk /\ Notified(tx, t, m).msg = ms
    BY <1>2 DEF Notified, TxSet
  <2>3. tx.task \in [Tasks -> TaskRow] /\ tx.msg \in [Msgs -> MsgRow]
    BY DEF TxSet
  <2>4. \A c \in Tasks : CarriesOn(tx.task[c], tk[c])
    BY <2>1, <2>3, WokenCarriesOn
  <2>5. tk[p] = Woken(tx.task[p])
    BY <2>1, <2>3
  <2>6. tk[p].status # "waiting" /\ Accepts(tk[p])
    BY <2>1, <2>3, <2>4, <2>5, WokenRow DEF CarriesOn
  <2>7. \A x \in Msgs : ms[x] = IF x = m THEN NewMsg(p, TRUE) ELSE tx.msg[x]
    BY <2>1, <2>3
  <2> HIDE DEF tk, ms, p
  <2>8. Served(tk, rn, NewMsg(p, TRUE))
    BY <2>1, <2>6 DEF Served, NewMsg, NoMsg
  <2>9. \A x \in Msgs : Served(tk, rn, tx.msg[x])
    BY <2>4, CarriedOn DEF TxServed
  <2> QED BY <2>2, <2>7, <2>8, <2>9 DEF TxServed
<1> QED BY <1>1, <1>2

\* The tail of a transaction leaves every message in place.
LEMMA SettleServed ==
    ASSUME NEW tx \in TxSet, NEW rn, NEW t \in Tasks, TxServedBut(tx, rn, t),
           Settle(tx, t)
    PROVE  \A m \in Msgs : Served(task', rn, msg'[m])
<1> DEFINE done == Disposed(tx, t)
<1>1. done \in TxSet /\ TxServed(done, rn)
  BY DisposedType, DisposedServed
<1>2. PICK m \in Slots(done, t) : Commit(Notified(done, t, m))
  BY DEF Settle
<1> HIDE DEF done
<1>3. TxServed(Notified(done, t, m), rn)
  BY <1>1, NotifiedServed
<1> QED BY <1>2, <1>3 DEF Commit, TxServed

\* Committing does.
LEMMA CommitServed ==
    ASSUME NEW tx, NEW rn, TxServed(tx, rn), Commit(tx)
    PROVE  \A m \in Msgs : Served(task', rn, msg'[m])
BY DEF Commit, TxServed

\* A run that stays live stays good for the messages it holds.
LEMMA HoldersKept ==
    ASSUME \A x \in Runs : Live(run[x]) => Live(run'[x]) /\ run'[x].task = run[x].task,
           \A m \in Msgs : Served(task', run, msg'[m])
    PROVE  MailServed'
<1> SUFFICES ASSUME NEW m \in Msgs PROVE Served(task', run', msg'[m])
  BY DEF MailServed, Served, Accepts, Exhausted, Live
<1> QED BY DEF Served

-----------------------------------------------------------------------------
(* The transactions.                                                       *)

MailInv == LedgerInv /\ MailServed

\* A transaction begins with every message in place.
LEMMA BeginServed ==
    ASSUME MailInv
    PROVE  /\ Begin \in TxSet /\ Begin.task = task /\ Begin.msg = msg
           /\ TxServed(Begin, run)
BY RefTypes, BeginType DEF MailInv, Begin, TxServed, MailServed

\* So does one that has acknowledged messages.
LEMMA AckServed ==
    ASSUME MailInv, NEW A
    PROVE  /\ Acknowledged(Begin, A) \in TxSet /\ Acknowledged(Begin, A).task = task
           /\ TxServed(Acknowledged(Begin, A), run)
BY RefTypes, BeginServed, AcknowledgedRows, AcknowledgedServed DEF MailInv

\* Transactions that write one row, whose messages do not notice.
LEMMA OneRowMail ==
    ASSUME MailInv, NEW A, NEW t \in Tasks, NEW row, CarriesOn(task[t], row),
           Commit(WithTask(Acknowledged(Begin, A), t, row)), run' = run
    PROVE  MailServed'
<1> DEFINE tx == Acknowledged(Begin, A)
<1>1. tx \in TxSet /\ tx.task = task /\ TxServed(tx, run)
  BY AckServed
<1> HIDE DEF tx
<1>2. TxServed(WithTask(tx, t, row), run)
  BY <1>1, WithTaskServed
<1>3. Commit(WithTask(tx, t, row))
  BY DEF tx
<1>4. \A m \in Msgs : Served(task', run, msg'[m])
  <2> HIDE DEF WithTask
  <2> QED BY <1>2, <1>3, CommitServed
<1> QED BY <1>4, HoldersKept

\* A row that takes no deliveries has no messages to lose.
LEMMA UnacceptedCarriesOn ==
    ASSUME NEW old, NEW new, old.status \notin {"queued", "running", "finishing", "waiting"}
    PROVE  CarriesOn(old, new)
BY DEF CarriesOn, Accepts

\* CreateWorkTask, RetryTask, ReworkTask and RequestAccept write rows without
\* messages.
LEMMA QuietRowsMail ==
    ASSUME MailInv, NEW t \in Tasks, NEW A,
           \/ CreateWorkTask(t, A) \/ RetryTask(t, A) \/ ReworkTask(t, A)
           \/ \E a \in Agents : RequestAccept(t, a, A)
    PROVE  MailServed'
<1>1. task[t].status \notin {"queued", "running", "finishing", "waiting"} /\ run' = run
  BY DEF CreateWorkTask, RetryTask, ReworkTask, RequestAccept
<1>2. \E row : Commit(WithTask(Acknowledged(Begin, A), t, row))
  BY DEF CreateWorkTask, RetryTask, ReworkTask, RequestAccept
<1> QED BY <1>1, <1>2, UnacceptedCarriesOn, OneRowMail

\* Transactions that end the deliveries of t and settle.
LEMMA SettledMail ==
    ASSUME MailInv, NEW tx \in TxSet, NEW t \in Tasks, NEW row \in TaskRow,
           TxServed(tx, run), run' = run, Settle(WithTask(tx, t, row), t)
    PROVE  MailServed'
<1>1. WithTask(tx, t, row) \in TxSet
  BY WithTaskType
<1>2. TxServedBut(WithTask(tx, t, row), run, t)
  BY WithTaskServedBut
<1>3. \A m \in Msgs : Served(task', run, msg'[m])
  BY <1>1, <1>2, SettleServed
<1> QED BY <1>3, HoldersKept

\* A claim, an activation and an outcome carry the messages of the task on.
LEMMA ClaimMail ==
    ASSUME MailInv, NEW t \in Tasks, NEW r \in Runs, ClaimNext(t, r)
    PROVE  MailServed'
<1> USE LedgerAssumption
<1>1. /\ task[t] \in TaskRow /\ task \in [Tasks -> TaskRow] /\ run \in [Runs -> RunRow]
  BY RefTypes DEF MailInv, TypeOK
<1>2. /\ run[r].state = "none" /\ msg' = msg
      /\ task'[t].status = task[t].status
      /\ \A c \in Tasks \ {t} : task'[c] = task[c]
      /\ \A x \in Runs \ {r} : run'[x] = run[x]
  BY <1>1 DEF ClaimNext, TaskRow
<1>3. \A c \in Tasks : CarriesOn(task[c], task'[c])
  BY <1>2 DEF CarriesOn, Accepts
<1>4. \A m \in Msgs : Served(task', run, msg'[m])
  BY <1>2, <1>3, CarriedOn DEF MailInv, MailServed
<1>5. \A x \in Runs : Live(run[x]) => Live(run'[x]) /\ run'[x].task = run[x].task
  BY <1>2 DEF Live
<1> QED BY <1>4, <1>5, HoldersKept

\* An activation carries the messages on.
LEMMA ActivateMail ==
    ASSUME MailInv, NEW r \in Runs, ObserveProcessAndActivateRun(r)
    PROVE  MailServed'
<1> DEFINE t == run[r].task
<1>1. /\ task \in [Tasks -> TaskRow] /\ run \in [Runs -> RunRow] /\ t \in Tasks
      /\ run[r] \in RunRow /\ task[t] \in TaskRow
  BY RefTypes DEF MailInv, TypeOK, ObserveProcessAndActivateRun
<1>2. /\ run'[r].task = t /\ run'[r].state = "active"
      /\ \A x \in Runs \ {r} : run'[x] = run[x]
  BY <1>1 DEF ObserveProcessAndActivateRun, RunRow
<1>3. /\ task'[t].status = "running"
      /\ \A c \in Tasks \ {t} : task'[c] = task[c]
      /\ msg' = msg
  BY <1>1 DEF ObserveProcessAndActivateRun, TaskRow
<1>4. \A c \in Tasks : CarriesOn(task[c], task'[c])
  BY <1>3 DEF CarriesOn, Accepts
<1>5. \A m \in Msgs : Served(task', run, msg'[m])
  BY <1>3, <1>4, CarriedOn DEF MailInv, MailServed
<1>6. \A x \in Runs : Live(run[x]) => Live(run'[x]) /\ run'[x].task = run[x].task
  BY <1>2 DEF Live
<1> QED BY <1>5, <1>6, HoldersKept

\* The steps that write no task and no message, and end no run.
LEMMA RunColumnsMail ==
    ASSUME MailInv, NEW r \in Runs,
           \/ BeginRunLaunch(r)
           \/ RequestRunStop(r)
           \/ \E c \in {"pending", "blocked", "removed"} : RecordRunCleanup(r, c)
    PROVE  MailServed'
<1>1. run[r] \in RunRow /\ run \in [Runs -> RunRow]
  BY RefTypes DEF MailInv, TypeOK
<1>2. /\ task' = task /\ msg' = msg
  BY DEF BeginRunLaunch, RequestRunStop, RecordRunCleanup
<1>3. \E new : /\ run' = [run EXCEPT ![r] = new]
               /\ new.state = run[r].state /\ new.task = run[r].task
  <2>1. CASE BeginRunLaunch(r)
    <3> DEFINE new == [run[r] EXCEPT !.prepared = TRUE, !.cleanup = "pending"]
    <3>1. run' = [run EXCEPT ![r] = new]
      BY <1>1, <2>1 DEF BeginRunLaunch
    <3>2. new.state = run[r].state /\ new.task = run[r].task
      BY <1>1 DEF RunRow
    <3> HIDE DEF new
    <3> QED BY <3>1, <3>2
  <2>2. CASE RequestRunStop(r)
    <3> DEFINE new == StopRequested(run[r])
    <3>1. run' = [run EXCEPT ![r] = new]
      BY <2>2 DEF RequestRunStop
    <3>2. new.state = run[r].state /\ new.task = run[r].task
      BY <1>1 DEF StopRequested, RunRow
    <3> HIDE DEF new
    <3> QED BY <3>1, <3>2
  <2>3. CASE \E c \in {"pending", "blocked", "removed"} : RecordRunCleanup(r, c)
    <3> PICK c \in {"pending", "blocked", "removed"} : RecordRunCleanup(r, c)
      BY <2>3
    <3> DEFINE new == [run[r] EXCEPT !.cleanup = c]
    <3>1. run' = [run EXCEPT ![r] = new]
      BY DEF RecordRunCleanup
    <3>2. new.state = run[r].state /\ new.task = run[r].task
      BY <1>1 DEF RunRow
    <3> HIDE DEF new
    <3> QED BY <3>1, <3>2
  <2> QED BY <2>1, <2>2, <2>3
<1>4. \A m \in Msgs : Served(task', run, msg'[m])
  BY <1>2 DEF MailInv, MailServed
<1>5. \A x \in Runs : Live(run[x]) => Live(run'[x]) /\ run'[x].task = run[x].task
  BY <1>1, <1>3 DEF Live
<1> QED BY <1>4, <1>5, HoldersKept

\* RecordMessagesDelivered puts messages into the hands of a live run of their
\* own agent.
LEMMA DeliveredMail ==
    ASSUME MailInv, NEW r \in Runs, RecordMessagesDelivered(r)
    PROVE  MailServed'
<1> DEFINE given(m) == [msg[m] EXCEPT !.state = "delivered", !.run = r, !.count = @ + 1]
<1>1. PICK D \in SUBSET Deliverable(r) :
         msg' = [m \in Msgs |-> IF m \in D THEN given(m) ELSE msg[m]]
  BY DEF RecordMessagesDelivered
<1>2. ASSUME NEW m \in Msgs PROVE Served(task', run, msg'[m])
  <2>1. task' = task /\ Served(task, run, msg[m]) /\ msg[m] \in MsgRow
    BY RefTypes DEF MailInv, MailServed, RecordMessagesDelivered, TypeOK
  <2>2. CASE m \notin D
    BY <1>1, <2>1, <2>2
  <2>3. CASE m \in D
    <3>1. /\ given(m).state = "delivered" /\ given(m).run = r
          /\ given(m).task = msg[m].task /\ given(m).wake = msg[m].wake
      BY <2>1 DEF MsgRow
    <3>2. /\ msg[m].state = "pending" /\ ~Exhausted(msg[m])
          /\ Assignee[msg[m].task] = Assignee[run[r].task]
      BY <1>1, <2>3 DEF Deliverable
    <3>3. Live(run[r]) /\ msg'[m] = given(m)
      BY <1>1, <2>3 DEF RecordMessagesDelivered
    <3> HIDE DEF given
    <3> QED BY <2>1, <3>1, <3>2, <3>3 DEF Served
  <2> QED BY <2>2, <2>3
<1> QED BY <1>2, HoldersKept DEF RecordMessagesDelivered

\* Acknowledging takes messages away.
LEMMA AcknowledgeMail ==
    ASSUME MailInv, NEW r \in Runs, AcknowledgeAgentMessages(r)
    PROVE  MailServed'
<1>1. PICK A : Commit(Acknowledged(Begin, A))
  BY DEF AcknowledgeAgentMessages
<1>2. TxServed(Acknowledged(Begin, A), run)
  BY AckServed
<1>3. \A m \in Msgs : Served(task', run, msg'[m])
  <2> HIDE DEF Acknowledged
  <2> QED BY <1>1, <1>2, CommitServed
<1> QED BY <1>3, HoldersKept DEF AcknowledgeAgentMessages

\* RequestOutcome carries the messages of the task on.
LEMMA RequestOutcomeMail ==
    ASSUME MailInv, NEW r \in Runs, NEW o \in {"wait", "fail", "submit"},
           RequestOutcome(r, o)
    PROVE  MailServed'
<1> DEFINE t == run[r].task
           plain == [task[t] EXCEPT !.status = "finishing", !.version = @ + 1]
           capture == [plain EXCEPT !.pending = "capture", !.pendRun = r,
                                    !.pendVer = plain.version]
           row == IF o = "submit" THEN capture ELSE plain
<1>1. run[r].state = "active" /\ task[t].status = "running"
  BY DEF RequestOutcome, Authentic
<1>2. /\ t \in Tasks /\ task[t] \in TaskRow /\ run[r] \in RunRow
      /\ run \in [Runs -> RunRow]
  BY <1>1, RefTypes DEF MailInv, TypeOK
<1>3. row.status = "finishing"
  <2>1. plain.status = "finishing" /\ capture.status = "finishing"
    BY <1>2 DEF TaskRow
  <2> QED BY <2>1
<1>4. PICK A : Commit(WithTask(Acknowledged(Begin, A), t, row))
  BY DEF RequestOutcome
<1>5. /\ run'[r].state = run[r].state /\ run'[r].task = run[r].task
      /\ \A x \in Runs \ {r} : run'[x] = run[x]
  BY <1>2 DEF RequestOutcome, RunRow
<1> HIDE DEF row, t
<1>6. CarriesOn(task[t], row)
  BY <1>3 DEF CarriesOn, Accepts
<1> DEFINE tx == Acknowledged(Begin, A)
<1>7. tx \in TxSet /\ tx.task = task /\ TxServed(tx, run)
  BY AckServed
<1>8. Commit(WithTask(tx, t, row))
  BY <1>4
<1> HIDE DEF tx
<1>9. TxServed(WithTask(tx, t, row), run)
  BY <1>2, <1>6, <1>7, WithTaskServed
<1>10. \A m \in Msgs : Served(task', run, msg'[m])
  BY <1>8, <1>9, CommitServed
<1>11. \A x \in Runs : Live(run[x]) => Live(run'[x]) /\ run'[x].task = run[x].task
  BY <1>5 DEF Live
<1> QED BY <1>10, <1>11, HoldersKept

\* redeliverRunMessages takes the messages of run r out of its hands, so that
\* they are in place whatever becomes of the run.
LEMMA RedeliveredServed ==
    ASSUME NEW tx \in TxSet, NEW rn, NEW r, NEW rn2, TxServed(tx, rn),
           \A x \in Runs \ {r} : rn2[x] = rn[x],
           NEW back, back = Redelivered(tx, r)
    PROVE  /\ back.task = tx.task
           /\ TxServed(back, rn2)
           /\ \A m \in Msgs : back.msg[m].state = "delivered" =>
                                 back.msg[m] = tx.msg[m] /\ tx.msg[m].run # r
<1> DEFINE held(m) == tx.msg[m].state = "delivered" /\ tx.msg[m].run = r
           freed(m) == [tx.msg[m] EXCEPT !.state = "pending", !.run = None]
           ms == [m \in Msgs |-> IF held(m) THEN freed(m) ELSE tx.msg[m]]
<1>1. back = [tx EXCEPT !.msg = ms]
  BY DEF Redelivered
<1>2. \A m \in Msgs : ms[m] = IF held(m) THEN freed(m) ELSE tx.msg[m]
  OBVIOUS
<1>3. \A m \in Msgs : /\ freed(m).state = "pending" /\ freed(m).task = tx.msg[m].task
                      /\ freed(m).wake = tx.msg[m].wake
                      /\ freed(m).count = tx.msg[m].count
  BY DEF TxSet, MsgRow
<1> HIDE DEF ms, freed
<1>4. back.task = tx.task /\ back.msg = ms
  BY <1>1 DEF TxSet
<1>5. ASSUME NEW m \in Msgs PROVE Served(tx.task, rn2, ms[m])
  <2>1. Served(tx.task, rn, tx.msg[m])
    BY DEF TxServed
  <2>2. CASE held(m)
    <3>1. Exhausted(freed(m)) <=> Exhausted(tx.msg[m])
      BY <1>3 DEF Exhausted
    <3>2. tx.msg[m].state # "none"
      BY <2>2
    <3> QED BY <1>2, <1>3, <2>1, <2>2, <3>1, <3>2 DEF Served
  <2>3. CASE ~held(m)
    <3>1. ms[m] = tx.msg[m]
      BY <1>2, <2>3
    <3> QED BY <2>1, <2>3, <3>1 DEF Served
  <2> QED BY <2>2, <2>3
<1>6. ASSUME NEW m \in Msgs, ms[m].state = "delivered"
      PROVE  ms[m] = tx.msg[m] /\ tx.msg[m].run # r
  BY <1>2, <1>3, <1>6
<1> HIDE DEF held
<1>7. TxServed(back, rn2)
  BY <1>4, <1>5 DEF TxServed
<1> QED BY <1>4, <1>6, <1>7

\* projectTerminalTask: a task that waits has no wake message left to deliver,
\* and a failed one passes its messages on.
LEMMA ProjectTerminalTaskMail ==
    ASSUME MailInv, NEW r \in Runs, Live(run[r]), NEW t \in Tasks, t = run[r].task,
           NEW s, NEW tx \in TxSet, tx.task = task, NEW rn, TxServed(tx, rn),
           \A m \in Msgs : ~(tx.msg[m].state = "delivered" /\ tx.msg[m].task = t),
           ProjectTerminalTask(tx, t, r, s)
    PROVE  \A m \in Msgs : Served(task', rn, msg'[m])
<1> DEFINE old == task[t]
           left == [old EXCEPT !.run = None, !.version = @ + 1]
<1>1. old \in TaskRow /\ old.version \in Nat
  BY LiveRow DEF MailInv
<1>2. left \in TaskRow
  <2>1. \A v \in Nat : [old EXCEPT !.run = None, !.version = v] \in TaskRow
    BY <1>1 DEF TaskRow
  <2> QED BY <1>1, <2>1, Counters
<1> HIDE DEF left
<1>3. CASE /\ old.status = "finishing"
           /\ Commit(WithTask(tx, t, [left EXCEPT !.status =
                       IF PendingWake(tx.msg, t) THEN "queued" ELSE "waiting"]))
  <2> DEFINE row == [left EXCEPT !.status =
                       IF PendingWake(tx.msg, t) THEN "queued" ELSE "waiting"]
             end == WithTask(tx, t, row)
  <2>1. row.status = IF PendingWake(tx.msg, t) THEN "queued" ELSE "waiting"
    BY <1>2 DEF TaskRow
  <2>2. Commit(end)
    BY <1>3
  <2>3. Accepts(row)
    BY <2>1 DEF Accepts
  <2> HIDE DEF row
  <2>4. end.task = [tx.task EXCEPT ![t] = row] /\ end.msg = tx.msg
    BY DEF WithTask, TxSet
  <2>5. tx.task \in [Tasks -> TaskRow]
    BY DEF TxSet
  <2>6. end.task[t] = row
    BY <2>4, <2>5
  <2>7. TxServedBut(end, rn, t)
    BY WithTaskServedBut
  <2> HIDE DEF end
  <2>8. ASSUME NEW m \in Msgs, tx.msg[m].task = t PROVE Served(end.task, rn, tx.msg[m])
    <3>1. Served(tx.task, rn, tx.msg[m]) /\ tx.msg[m] \in MsgRow
      BY DEF TxServed, TxSet
    <3>2. tx.msg[m].state # "none" => tx.msg[m].state = "pending"
      BY <2>8, <3>1 DEF MsgRow
    <3>3. tx.msg[m].state # "none" /\ tx.msg[m].wake /\ ~Exhausted(tx.msg[m])
             => PendingWake(tx.msg, t)
      BY <2>8, <3>2 DEF PendingWake
    <3> QED BY <2>1, <2>3, <2>6, <2>8, <3>1, <3>2, <3>3 DEF Served
  <2>9. TxServed(end, rn)
    BY <2>4, <2>7, <2>8 DEF TxServed, TxServedBut
  <2> QED BY <2>2, <2>9, CommitServed
<1>4. CASE Settle(WithTask(tx, t, Cleared([left EXCEPT !.status = "failed",
                                                       !.failure = TRUE])), t)
  <2> DEFINE base == [left EXCEPT !.status = "failed", !.failure = TRUE]
             row == Cleared(base)
             end == WithTask(tx, t, row)
  <2>1. row \in TaskRow
    <3>1. base \in TaskRow
      BY <1>2 DEF TaskRow, TaskStatuses
    <3> HIDE DEF base
    <3> QED BY <3>1, ClearedType
  <2>2. Settle(end, t)
    BY <1>4
  <2> HIDE DEF row
  <2>3. end \in TxSet /\ TxServedBut(end, rn, t)
    BY <2>1, WithTaskServedBut, WithTaskType
  <2> HIDE DEF end
  <2> QED BY <2>2, <2>3, SettleServed
<1>5. CASE Commit(tx)
  BY <1>5, CommitServed
<1>6. CASE /\ old.status \in {"queued", "running"}
           /\ IF RuntimeFailure(old, s).status = "failed"
              THEN Settle(WithTask(tx, t, RuntimeFailure(old, s)), t)
              ELSE Commit(WithTask(tx, t, RuntimeFailure(old, s)))
  <2> DEFINE row == RuntimeFailure(old, s)
             end == WithTask(tx, t, row)
  <2>1. row \in TaskRow /\ row.status \in {"queued", "failed"}
    <3> DEFINE decided == IF s \in {"timed_out", "interrupted"}
                          THEN [old EXCEPT !.status = "queued"]
                          ELSE RetryDecision(old)
    <3>1. row \in TaskRow
      BY <1>1, RuntimeFailureType
    <3>2. decided \in TaskRow
      <4>1. [old EXCEPT !.status = "queued"] \in TaskRow
        BY <1>1 DEF TaskRow, TaskStatuses
      <4> QED BY <1>1, <4>1, RetryDecisionType
    <3>3. decided.status \in {"queued", "failed"}
      BY <1>1 DEF RetryDecision, TaskRow
    <3>4. row = [decided EXCEPT !.run = None, !.failure = TRUE, !.version = @ + 1]
      BY DEF RuntimeFailure
    <3> HIDE DEF decided, row
    <3>5. row.status = decided.status
      BY <3>2, <3>4 DEF TaskRow
    <3> QED BY <3>1, <3>3, <3>5
  <2>2. IF row.status = "failed" THEN Settle(end, t) ELSE Commit(end)
    BY <1>6
  <2> HIDE DEF row
  <2>3. end \in TxSet /\ TxServedBut(end, rn, t)
    BY <2>1, WithTaskServedBut, WithTaskType
  <2>4. CASE row.status = "failed"
    <3> HIDE DEF end
    <3> QED BY <2>2, <2>3, <2>4, SettleServed
  <2>5. CASE row.status = "queued"
    <3>1. CarriesOn(tx.task[t], row)
      BY <2>5 DEF CarriesOn, Accepts
    <3>2. TxServed(end, rn)
      BY <3>1, WithTaskServed
    <3> HIDE DEF end
    <3> QED BY <2>2, <2>5, <3>2, CommitServed
  <2> QED BY <2>1, <2>4, <2>5
<1> QED BY <1>3, <1>4, <1>5, <1>6 DEF ProjectTerminalTask, left

\* RecordRuntimeRunTerminal gives back what the run was handed before it lets
\* go of the task.
LEMMA TerminalMail ==
    ASSUME MailInv, NEW r \in Runs, NEW s \in TerminalStates,
           RecordRuntimeRunTerminal(r, s)
    PROVE  MailServed'
<1> DEFINE t == run[r].task
           tx == Redelivered(Begin, r)
           freed == [task[t] EXCEPT !.run = None, !.version = @ + 1]
<1> USE LedgerAssumption
<1>1. Live(run[r])
  BY DEF RecordRuntimeRunTerminal
<1>2. /\ t \in Tasks /\ task[t].run = r /\ task[t] \in TaskRow
      /\ Owns(t, task[t], run[r])
  BY <1>1, LiveRow DEF MailInv
<1>3. PICK rn : rn = run'
  OBVIOUS
<1>4. \A x \in Runs \ {r} : rn[x] = run[x]
  BY <1>3, RefTypes DEF MailInv, RecordRuntimeRunTerminal, TypeOK
<1>5. /\ Begin \in TxSet /\ Begin.task = task /\ Begin.msg = msg
      /\ TxServed(Begin, run)
  BY BeginServed
<1>6. /\ tx \in TxSet /\ tx.task = task /\ TxServed(tx, rn)
      /\ \A m \in Msgs : tx.msg[m].state = "delivered" =>
                            tx.msg[m] = msg[m] /\ msg[m].run # r
  <2>1. tx \in TxSet
    BY <1>5, RedeliveredType
  <2>2. /\ tx.task = Begin.task /\ TxServed(tx, rn)
        /\ \A m \in Msgs : tx.msg[m].state = "delivered" =>
                              tx.msg[m] = Begin.msg[m] /\ Begin.msg[m].run # r
    <3>1. tx = Redelivered(Begin, r)
      OBVIOUS
    <3> HIDE DEF tx
    <3> QED BY <1>4, <1>5, <3>1, RedeliveredServed
  <2> QED BY <1>5, <2>1, <2>2
<1>7. \A m \in Msgs : ~(tx.msg[m].state = "delivered" /\ tx.msg[m].task = t)
  <2> SUFFICES ASSUME NEW m \in Msgs, tx.msg[m].state = "delivered", tx.msg[m].task = t
               PROVE  FALSE
    OBVIOUS
  <2> DEFINE x == msg[m].run
  <2>1. msg[m].state = "delivered" /\ msg[m].task = t /\ x # r
    BY <1>6
  <2>2. x \in Runs /\ Live(run[x]) /\ Assignee[run[x].task] = Assignee[t]
    BY <2>1 DEF MailInv, MailServed, Served
  <2>3. /\ MayHoldContainer(x) /\ run[x].state # "deleted"
        /\ MayHoldContainer(r) /\ run[r].state # "deleted"
    BY <1>1, <2>2 DEF MayHoldContainer, Live
  <2> QED BY <2>1, <2>2, <2>3 DEF MailInv, LedgerInv, RuntimeInv, OneRuntimePerAgent
<1>8. \/ Commit(tx)
      \/ task[t].status = "cancelled" /\ Commit(WithTask(tx, t, freed))
      \/ ProjectTerminalTask(tx, t, r, s)
  BY DEF RecordRuntimeRunTerminal
<1>9. t = run[r].task
  OBVIOUS
<1> HIDE DEF t, tx, freed
<1>10. \A m \in Msgs : Served(task', rn, msg'[m])
  <2>1. CASE Commit(tx)
    BY <1>6, <2>1, CommitServed
  <2>2. CASE task[t].status = "cancelled" /\ Commit(WithTask(tx, t, freed))
    <3>1. CarriesOn(tx.task[t], freed)
      BY <1>6, <2>2 DEF CarriesOn, Accepts
    <3>2. TxServed(WithTask(tx, t, freed), rn)
      BY <1>2, <1>6, <3>1, WithTaskServed
    <3> HIDE DEF WithTask
    <3> QED BY <2>2, <3>2, CommitServed
  <2>3. CASE ProjectTerminalTask(tx, t, r, s)
    BY <1>1, <1>2, <1>6, <1>7, <1>9, <2>3, ProjectTerminalTaskMail
  <2> QED BY <1>8, <2>1, <2>2, <2>3
<1> QED BY <1>3, <1>10 DEF MailServed, Served, Accepts, Exhausted, Live

-----------------------------------------------------------------------------
(* The transactions on tasks, messages and Git results.                    *)

\* Every message is gone, as it was on a row that carries on, or put in place.
LEMMA MessagesMail ==
    ASSUME MailInv,
           \A x \in Runs : Live(run[x]) => Live(run'[x]) /\ run'[x].task = run[x].task,
           \A m \in Msgs :
              \/ msg'[m] = NoMsg
              \/ /\ msg'[m] = msg[m]
                 /\ msg[m].state # "none" =>
                       CarriesOn(task[msg[m].task], task'[msg[m].task])
              \/ Served(task', run, msg'[m])
    PROVE  MailServed'
<1>1. ASSUME NEW m \in Msgs PROVE Served(task', run, msg'[m])
  <2>1. CASE msg'[m] = NoMsg
    BY <2>1 DEF Served, NoMsg
  <2>2. CASE /\ msg'[m] = msg[m]
             /\ msg[m].state # "none" =>
                   CarriesOn(task[msg[m].task], task'[msg[m].task])
    BY <2>2 DEF MailInv, MailServed, Served, CarriesOn
  <2> QED BY <2>1, <2>2
<1> QED BY <1>1, HoldersKept

\* The messages a transaction begins with, less the acknowledged ones.
LEMMA AckMessages ==
    ASSUME MailInv, NEW A
    PROVE  /\ Acknowledged(Begin, A).msg \in [Msgs -> MsgRow]
           /\ \A m \in Msgs : Acknowledged(Begin, A).msg[m] \in {NoMsg, msg[m]}
<1> DEFINE ms == [m \in Msgs |-> IF m \in A THEN NoMsg ELSE msg[m]]
<1>1. Acknowledged(Begin, A) \in TxSet
  BY AckServed
<1>2. Acknowledged(Begin, A).msg = ms
  BY DEF Acknowledged, Begin
<1>3. \A m \in Msgs : ms[m] \in {NoMsg, msg[m]}
  OBVIOUS
<1> HIDE DEF ms
<1> QED BY <1>1, <1>2, <1>3 DEF TxSet

\* WakeTask puts the task to the queue before its messages count anew.
LEMMA WakeTaskMail ==
    ASSUME MailInv, NEW t \in Tasks, NEW A, WakeTask(t, A)
    PROVE  MailServed'
<1> DEFINE ms == Acknowledged(Begin, A).msg
           due(m) == ms[m].state = "pending" /\ ms[m].task = t /\ Exhausted(ms[m])
           anew(m) == [ms[m] EXCEPT !.count = 0]
<1>1. /\ task' = [task EXCEPT ![t] = Woken(task[t])] /\ run' = run
      /\ msg' = [m \in Msgs |-> IF due(m) THEN anew(m) ELSE ms[m]]
      /\ Assignee[t] # None /\ task[t].status = "waiting"
  BY RefTypes DEF MailInv, TypeOK, WakeTask, Commit
<1>2. ms \in [Msgs -> MsgRow] /\ \A m \in Msgs : ms[m] \in {NoMsg, msg[m]}
  BY AckMessages
<1>3. task \in [Tasks -> TaskRow]
  BY RefTypes DEF MailInv, TypeOK
<1>4. \A c \in Tasks : CarriesOn(task[c], task'[c])
  BY <1>1, <1>3, WokenCarriesOn
<1>5. task'[t].status # "waiting" /\ Accepts(task'[t])
  <2>1. task'[t] = Woken(task[t])
    BY <1>1, <1>3
  <2>2. Accepts(task[t])
    BY <1>1 DEF Accepts
  <2> QED BY <1>3, <1>4, <2>1, <2>2, WokenRow DEF CarriesOn
<1>6. \A m \in Msgs : msg'[m] = IF due(m) THEN anew(m) ELSE ms[m]
  BY <1>1
<1>7. \A m \in Msgs : anew(m).state = ms[m].state /\ anew(m).task = ms[m].task
  BY <1>2 DEF MsgRow
<1> HIDE DEF ms, anew
<1>8. ASSUME NEW m \in Msgs
      PROVE  \/ msg'[m] = NoMsg
             \/ /\ msg'[m] = msg[m]
                /\ msg[m].state # "none" =>
                      CarriesOn(task[msg[m].task], task'[msg[m].task])
             \/ Served(task', run, msg'[m])
  <2>1. CASE due(m)
    <3>1. msg'[m].state = "pending" /\ msg'[m].task = t
      BY <1>6, <1>7, <2>1
    <3> QED BY <1>1, <1>5, <3>1 DEF Served
  <2>2. CASE ~due(m)
    <3>1. msg'[m] \in {NoMsg, msg[m]}
      BY <1>2, <1>6, <2>2
    <3>2. msg[m].state # "none" => msg[m].task \in Tasks
      BY DEF MailInv, MailServed, Served
    <3> QED BY <1>4, <3>1, <3>2
  <2> QED BY <2>1, <2>2
<1>9. \A x \in Runs : Live(run[x]) => Live(run'[x]) /\ run'[x].task = run[x].task
  BY <1>1
<1> QED BY <1>8, <1>9, MessagesMail

\* Sending a message puts it on a task that takes deliveries and, if it wakes,
\* takes the task out of waiting.
LEMMA SentMail ==
    ASSUME MailInv, NEW t \in Tasks, NEW A, NEW wake \in BOOLEAN, NEW m \in Msgs,
           NEW row, row \in {task[t], Woken(task[t])} \/ ~Accepts(task[t]),
           Assignee[t] # None, Accepts(row), wake => row.status # "waiting",
           task' = [task EXCEPT ![t] = row], run' = run,
           msg' = [Acknowledged(Begin, A).msg EXCEPT ![m] = NewMsg(t, wake)]
    PROVE  MailServed'
<1> DEFINE ms == Acknowledged(Begin, A).msg
<1>1. ms \in [Msgs -> MsgRow] /\ \A x \in Msgs : ms[x] \in {NoMsg, msg[x]}
  BY AckMessages
<1>2. task \in [Tasks -> TaskRow]
  BY RefTypes DEF MailInv, TypeOK
<1>3. CarriesOn(task[t], row)
  BY <1>2, WokenCarriesOn DEF CarriesOn
<1>4. \A c \in Tasks : CarriesOn(task[c], task'[c])
  BY <1>2, <1>3, WokenCarriesOn
<1>5. task'[t] = row
  BY <1>2
<1>6. \A x \in Msgs : msg'[x] = IF x = m THEN NewMsg(t, wake) ELSE ms[x]
  BY <1>1
<1> HIDE DEF ms
<1>7. Served(task', run, NewMsg(t, wake))
  BY <1>5 DEF Served, NewMsg, NoMsg
<1>8. \A x \in Msgs : msg[x].state # "none" => msg[x].task \in Tasks
  BY DEF MailInv, MailServed, Served
<1>9. \A x \in Msgs : \/ msg'[x] = NoMsg
                      \/ /\ msg'[x] = msg[x]
                         /\ msg[x].state # "none" =>
                               CarriesOn(task[msg[x].task], task'[msg[x].task])
                      \/ Served(task', run, msg'[x])
  BY <1>1, <1>4, <1>6, <1>7, <1>8
<1>10. \A x \in Runs : Live(run[x]) => Live(run'[x]) /\ run'[x].task = run[x].task
  OBVIOUS
<1> QED BY <1>9, <1>10, MessagesMail

\* SendToTask.
LEMMA SendToTaskMail ==
    ASSUME MailInv, NEW t \in Tasks, NEW wake \in BOOLEAN, NEW A, NEW m \in Msgs,
           SendToTask(t, wake, A, m)
    PROVE  MailServed'
<1> DEFINE row == IF wake THEN Woken(task[t]) ELSE task[t]
<1>1. task \in [Tasks -> TaskRow] /\ task[t] \in TaskRow
  BY RefTypes DEF MailInv, TypeOK
<1>2. /\ Assignee[t] # None /\ Accepts(task[t]) /\ run' = run
      /\ msg' = [Acknowledged(Begin, A).msg EXCEPT ![m] = NewMsg(t, wake)]
      /\ task' = IF wake THEN [task EXCEPT ![t] = Woken(task[t])] ELSE task
  BY <1>1 DEF SendToTask, Commit
<1>3. task' = [task EXCEPT ![t] = row]
  BY <1>1, <1>2
<1>4. row \in {task[t], Woken(task[t])} /\ Accepts(row) /\ (wake => row.status # "waiting")
  BY <1>1, <1>2, WokenRow, WokenCarriesOn DEF CarriesOn
<1> HIDE DEF row
<1> QED BY <1>2, <1>3, <1>4, SentMail

\* SendToNewConversation.
LEMMA SendToNewConversationMail ==
    ASSUME MailInv, NEW c \in Tasks, NEW wake \in BOOLEAN, NEW A, NEW m \in Msgs,
           SendToNewConversation(c, wake, A, m)
    PROVE  MailServed'
<1> DEFINE row == NewTask(IF wake THEN "queued" ELSE "waiting", 1)
<1> USE LedgerAssumption
<1>1. /\ Assignee[c] # None /\ ~Accepts(task[c]) /\ run' = run
      /\ msg' = [Acknowledged(Begin, A).msg EXCEPT ![m] = NewMsg(c, wake)]
      /\ task' = [task EXCEPT ![c] = row]
  BY DEF SendToNewConversation, Commit, Accepts
<1>2. row.status = IF wake THEN "queued" ELSE "waiting"
  BY DEF NewTask
<1> HIDE DEF row
<1>3. Accepts(row) /\ (wake => row.status # "waiting")
  BY <1>2 DEF Accepts
<1> QED BY <1>1, <1>3, SentMail

\* RetryMessage makes a message count anew and wakes its task for it.
LEMMA RetryMessageMail ==
    ASSUME MailInv, NEW m \in Msgs, RetryMessage(m)
    PROVE  MailServed'
<1> DEFINE t == msg[m].task
           anew == [msg[m] EXCEPT !.count = 0]
<1>1. task \in [Tasks -> TaskRow] /\ msg \in [Msgs -> MsgRow] /\ msg[m] \in MsgRow
  BY RefTypes DEF MailInv, TypeOK
<1>2. /\ msg[m].state = "pending" /\ Accepts(task[t]) /\ run' = run
      /\ msg' = [msg EXCEPT ![m] = anew]
      /\ task' = IF msg[m].wake THEN [task EXCEPT ![t] = Woken(task[t])] ELSE task
  BY <1>1 DEF RetryMessage
<1>3. /\ anew.state = "pending" /\ anew.task = t /\ anew.wake = msg[m].wake
  BY <1>1, <1>2 DEF MsgRow
<1>4. \A x \in Msgs : msg'[x] = IF x = m THEN anew ELSE msg[x]
  BY <1>1, <1>2
<1> HIDE DEF anew
<1>5. t \in Tasks /\ Assignee[t] # None
  BY <1>2 DEF MailInv, MailServed, Served
<1>6. \A c \in Tasks : CarriesOn(task[c], task'[c])
  BY <1>1, <1>2, WokenCarriesOn
<1>7. Accepts(task'[t]) /\ (msg[m].wake => task'[t].status # "waiting")
  BY <1>1, <1>2, <1>5, <1>6, WokenRow DEF CarriesOn
<1> HIDE DEF t
<1>8. Served(task', run, anew)
  BY <1>3, <1>5, <1>7 DEF Served
<1>9. \A x \in Msgs : msg[x].state # "none" => msg[x].task \in Tasks
  BY DEF MailInv, MailServed, Served
<1>10. \A x \in Msgs : \/ msg'[x] = NoMsg
                       \/ /\ msg'[x] = msg[x]
                          /\ msg[x].state # "none" =>
                                CarriesOn(task[msg[x].task], task'[msg[x].task])
                       \/ Served(task', run, msg'[x])
  BY <1>4, <1>6, <1>8, <1>9
<1>11. \A x \in Runs : Live(run[x]) => Live(run'[x]) /\ run'[x].task = run[x].task
  BY <1>2
<1> QED BY <1>10, <1>11, MessagesMail

\* CancelTask: the messages of the cancelled task go on to the agent's
\* conversation; a released source takes no deliveries.
LEMMA CancelTaskMail ==
    ASSUME MailInv, NEW t \in Tasks, NEW A, CancelTask(t, A)
    PROVE  MailServed'
<1> DEFINE r == task[t].run
           keep == r # None /\ Live(run[r])
           tx == Acknowledged(Begin, A)
           row == [task[t] EXCEPT !.status = "cancelled", !.gen = @ + 1,
                                  !.run = IF keep THEN r ELSE None,
                                  !.version = @ + 1]
           tk == [ReleaseSource(task, t) EXCEPT ![t] = row]
           full == [tx EXCEPT !.task = tk]
<1> USE LedgerAssumption
<1>1. /\ SourceReleasable(task, t)
      /\ run' = IF keep THEN [run EXCEPT ![r] = StopRequested(run[r])] ELSE run
      /\ Settle(full, t)
  BY RefTypes DEF MailInv, CancelTask, TypeOK
<1>2. /\ task[t] \in TaskRow /\ task[t].version \in Nat /\ task[t].gen \in Nat
      /\ task \in [Tasks -> TaskRow] /\ run \in [Runs -> RunRow]
      /\ r \in Runs \cup {None}
  BY RefTypes DEF MailInv, TypeOK
<1>3. row \in TaskRow
  <2>1. \A v, g \in Nat, x \in Runs \cup {None} :
          [task[t] EXCEPT !.status = "cancelled", !.gen = g, !.run = x,
                          !.version = v] \in TaskRow
    <3>1. task[t] \in TaskRow
      BY <1>2
    <3> QED BY <3>1 DEF TaskRow, TaskStatuses, Closed
  <2>2. task[t].version + 1 \in Nat /\ task[t].gen + 1 \in Nat
    BY <1>2
  <2>3. (IF keep THEN r ELSE None) \in Runs \cup {None}
    BY <1>2
  <2> HIDE DEF keep, r
  <2> QED BY <2>1, <2>2, <2>3
<1>4. tx \in TxSet /\ tx.task = task /\ TxServed(tx, run)
  BY AckServed
<1>5. ReleaseSource(task, t) \in [Tasks -> TaskRow]
  BY <1>2, RefTypes, ReleaseSourceType DEF MailInv
<1>6. \A c \in Tasks \ {t} : CarriesOn(task[c], tk[c])
  <2> SUFFICES ASSUME NEW c \in Tasks \ {t} PROVE CarriesOn(task[c], tk[c])
    OBVIOUS
  <2>1. tk[c] = ReleaseSource(task, t)[c]
    BY <1>5
  <2>2. CASE ReleaseSource(task, t)[c] = task[c]
    BY <1>2, <2>1, <2>2, WokenCarriesOn
  <2>3. CASE ReleaseSource(task, t)[c] # task[c]
    <3>1. Kind[t] = "integration" /\ task[t].source # None /\ c = task[t].source
      BY <1>2, <2>3 DEF ReleaseSource
    <3>2. task[c].status = "submitted"
      BY <1>1, <3>1 DEF SourceReleasable, SourceFence
    <3> QED BY <3>2, UnacceptedCarriesOn
  <2> QED BY <2>2, <2>3
<1>7. tk \in [Tasks -> TaskRow]
  <2> HIDE DEF row
  <2> QED BY <1>3, <1>5
<1>8. \A x \in Runs : Live(run[x]) => Live(run'[x]) /\ run'[x].task = run[x].task
  <2>1. CASE ~keep
    BY <1>1, <2>1
  <2>2. CASE keep
    <3>1. r \in Runs /\ run[r] \in RunRow
      BY <1>2, <2>2
    <3>2. /\ StopRequested(run[r]).state = run[r].state
          /\ StopRequested(run[r]).task = run[r].task
      BY <3>1 DEF StopRequested, RunRow
    <3>3. run' = [run EXCEPT ![r] = StopRequested(run[r])]
      BY <1>1, <2>2
    <3> HIDE DEF r
    <3> QED BY <1>2, <3>1, <3>2, <3>3 DEF Live
  <2> QED BY <2>1, <2>2
<1> HIDE DEF row, tk, tx
<1>9. full \in TxSet /\ full.task = tk /\ full.msg = tx.msg
  BY <1>4, <1>7 DEF TxSet
<1> HIDE DEF full
<1>10. TxServedBut(full, run, t)
  <2> SUFFICES ASSUME NEW m \in Msgs, full.msg[m].task # t
               PROVE  Served(full.task, run, full.msg[m])
    BY DEF TxServedBut
  <2>1. Served(task, run, tx.msg[m]) /\ full.msg[m] = tx.msg[m]
    BY <1>4, <1>9 DEF TxServed
  <2> QED BY <1>6, <1>9, <2>1 DEF Served, CarriesOn
<1>11. \A m \in Msgs : Served(task', run, msg'[m])
  BY <1>1, <1>9, <1>10, SettleServed
<1> QED BY <1>8, <1>11, HoldersKept

\* CompleteTask ends a human's task, which has no messages.
LEMMA CompleteTaskMail ==
    ASSUME MailInv, NEW t \in Tasks, CompleteTask(t)
    PROVE  MailServed'
<1> DEFINE row == [task[t] EXCEPT !.status = "completed", !.head = None,
                                  !.version = @ + 1]
           tx == WithTask(Begin, t, row)
<1>1. Assignee[t] = None /\ run' = run
  BY DEF CompleteTask
<1>2. PICK m \in Slots(tx, t) : Commit(Notified(tx, t, m))
  BY DEF CompleteTask
<1>3. row \in TaskRow
  <2>1. task[t] \in TaskRow /\ task[t].version \in Nat
    BY RefTypes DEF MailInv
  <2>2. task[t] \in TaskRow
    BY <2>1
  <2>3. \A v \in Nat : [task[t] EXCEPT !.status = "completed", !.head = None,
                                       !.version = v] \in TaskRow
    BY <2>2 DEF TaskRow, TaskStatuses, Closed
  <2> QED BY <2>1, <2>3, Counters
<1> HIDE DEF row
<1>4. /\ Begin \in TxSet /\ TxServed(Begin, run)
  BY BeginServed
<1>5. tx \in TxSet /\ TxServedBut(tx, run, t) /\ tx.msg = Begin.msg
  BY <1>3, <1>4, WithTaskType, WithTaskServedBut DEF WithTask, TxSet
<1> HIDE DEF tx
<1>6. TxServed(tx, run)
  <2> SUFFICES ASSUME NEW x \in Msgs PROVE Served(tx.task, run, tx.msg[x])
    BY DEF TxServed
  <2>1. Served(Begin.task, run, tx.msg[x])
    BY <1>4, <1>5 DEF TxServed
  <2> QED BY <1>1, <1>5, <2>1 DEF TxServedBut, Served
<1>7. TxServed(Notified(tx, t, m), run)
  BY <1>5, <1>6, NotifiedServed
<1>8. \A x \in Msgs : Served(task', run, msg'[x])
  BY <1>2, <1>7, CommitServed
<1> QED BY <1>1, <1>8, HoldersKept

\* CloseConversation and DeleteTask take the messages of the task with it.
LEMMA ClosedMail ==
    ASSUME MailInv, NEW t \in Tasks,
           \A c \in Tasks \ {t} : task'[c] = task[c] \/ ~Accepts(task[c]),
           \A m \in Msgs : \/ msg'[m] = NoMsg
                           \/ msg'[m] = msg[m] /\ msg[m].task # t,
           \A x \in Runs : Live(run[x]) => Live(run'[x]) /\ run'[x].task = run[x].task
    PROVE  MailServed'
<1>1. \A c \in Tasks \ {t} : CarriesOn(task[c], task'[c])
  BY DEF CarriesOn
<1>2. \A m \in Msgs : msg[m].state # "none" => msg[m].task \in Tasks
  BY DEF MailInv, MailServed, Served
<1> QED BY <1>1, <1>2, MessagesMail

\* CloseConversation.
LEMMA CloseConversationMail ==
    ASSUME MailInv, NEW t \in Tasks, CloseConversation(t)
    PROVE  MailServed'
<1>1. \A c \in Tasks \ {t} : task'[c] = task[c]
  BY RefTypes DEF MailInv, TypeOK, CloseConversation
<1>2. \A m \in Msgs : msg'[m] = NoMsg \/ (msg'[m] = msg[m] /\ msg[m].task # t)
  BY DEF CloseConversation
<1>3. \A x \in Runs : Live(run[x]) => Live(run'[x]) /\ run'[x].task = run[x].task
  BY DEF CloseConversation
<1> QED BY <1>1, <1>2, <1>3, ClosedMail

\* DeleteTask; the runs it deletes have ended.
LEMMA DeleteTaskMail ==
    ASSUME MailInv, NEW t \in Tasks, NEW A, DeleteTask(t, A)
    PROVE  MailServed'
<1> DEFINE s == task[t].source
           tk == IF s # None /\ ~Exists(task[s]) THEN task ELSE ReleaseSource(task, t)
<1>1. task \in [Tasks -> TaskRow] /\ run \in [Runs -> RunRow]
  BY RefTypes DEF MailInv, TypeOK
<1>2. /\ Deletable(t)
      /\ task' = [tk EXCEPT ![t] = NewTask("deleted", 0)]
      /\ \A m \in Msgs : msg'[m] = NoMsg \/ (msg'[m] = msg[m] /\ msg[m].task # t)
      /\ \A x \in Runs : run[x].task # t => run'[x] = run[x]
  BY DEF DeleteTask
<1>3. \A c \in Tasks \ {t} : task'[c] = task[c] \/ ~Accepts(task[c])
  <2> SUFFICES ASSUME NEW c \in Tasks \ {t}, task'[c] # task[c]
               PROVE  ~Accepts(task[c])
    OBVIOUS
  <2>1. tk \in [Tasks -> TaskRow]
    BY <1>1, RefTypes, ReleaseSourceType DEF MailInv
  <2>2. task'[c] = tk[c]
    BY <1>2, <2>1
  <2>3. tk[c] # task[c] /\ ~(s # None /\ ~Exists(task[s]))
    BY <2>2
  <2>4. Kind[t] = "integration" /\ s # None /\ c = s
    BY <1>1, <2>3 DEF ReleaseSource
  <2>5. task[s].status = "submitted"
    BY <1>2, <2>3, <2>4 DEF Deletable, SourceReleasable, SourceFence
  <2> QED BY <2>4, <2>5 DEF Accepts
<1>4. \A x \in Runs : Live(run[x]) => Live(run'[x]) /\ run'[x].task = run[x].task
  BY <1>2 DEF Deletable
<1> QED BY <1>2, <1>3, <1>4, ClosedMail

\* finalizeCapture passes the messages of the submitted task on.
LEMMA FinalizeCaptureMail ==
    ASSUME MailInv, NEW t \in Tasks, FinalizeCapture(t)
    PROVE  MailServed'
<1> DEFINE base == [task[t] EXCEPT !.status = "submitted", !.run = None,
                                   !.head = task[t].pendRun, !.version = @ + 1]
           row == Cleared(base)
           accept == [row EXCEPT !.accepted = Assignee[t], !.pending = "advance",
                                 !.pendRun = row.head, !.pendVer = row.version]
<1> USE LedgerAssumption
<1>1. /\ run' = run
      /\ \/ Kind[t] = "integration" /\ Commit(Disposed(WithTask(Begin, t, accept), t))
         \/ Kind[t] # "integration" /\ Settle(WithTask(Begin, t, row), t)
  BY DEF FinalizeCapture
<1>2. task[t] \in TaskRow /\ task[t].version \in Nat
  BY RefTypes DEF MailInv
<1>3. base \in TaskRow
  <2>1. task[t] \in TaskRow
    BY <1>2
  <2>2. \A v \in Nat : [task[t] EXCEPT !.status = "submitted", !.run = None,
                          !.head = task[t].pendRun, !.version = v] \in TaskRow
    BY <2>1 DEF TaskRow, TaskStatuses
  <2> QED BY <1>2, <2>2, Counters
<1>4. row \in TaskRow
  BY <1>3, ClearedType
<1> HIDE DEF row
<1>5. accept \in TaskRow
  BY <1>4 DEF TaskRow
<1> HIDE DEF accept
<1>6. Begin \in TxSet /\ TxServed(Begin, run)
  BY BeginServed
<1>7. CASE Settle(WithTask(Begin, t, row), t)
  BY <1>1, <1>4, <1>6, <1>7, SettledMail
<1>8. CASE Commit(Disposed(WithTask(Begin, t, accept), t))
  <2> DEFINE tx == WithTask(Begin, t, accept)
  <2>1. tx \in TxSet /\ TxServedBut(tx, run, t)
    BY <1>5, <1>6, WithTaskType, WithTaskServedBut
  <2>2. Commit(Disposed(tx, t))
    BY <1>8
  <2> HIDE DEF tx
  <2>3. TxServed(Disposed(tx, t), run)
    BY <2>1, DisposedServed
  <2>4. \A m \in Msgs : Served(task', run, msg'[m])
    BY <2>2, <2>3, CommitServed
  <2> QED BY <1>1, <2>4, HoldersKept
<1> QED BY <1>1, <1>7, <1>8

\* A project that breaks inside a transaction changes no message.
LEMMA BrokenServed ==
    ASSUME MailInv
    PROVE  Broken(Begin) \in TxSet /\ Broken(Begin).task = task /\ TxServed(Broken(Begin), run)
<1>1. /\ Begin \in TxSet /\ Begin.task = task /\ TxServed(Begin, run)
  BY BeginServed
<1>2. Broken(Begin).task = Begin.task /\ Broken(Begin).msg = Begin.msg
  BY <1>1 DEF Broken, TxSet
<1> QED BY <1>1, <1>2, BrokenType DEF TxServed

\* projectCaptureFailure queues the task with its messages or fails it without.
LEMMA ProjectCaptureFailureMail ==
    ASSUME MailInv, NEW t \in Tasks, NEW invariant \in BOOLEAN,
           ProjectCaptureFailure(t, invariant)
    PROVE  MailServed'
<1> DEFINE base == [task[t] EXCEPT !.run = None, !.failure = TRUE, !.version = @ + 1]
           row == Cleared(base)
           next == IF invariant THEN [row EXCEPT !.status = "failed"]
                   ELSE RetryDecision(row)
           from == IF invariant THEN Broken(Begin) ELSE Begin
<1>1. /\ run' = run
      /\ IF next.status = "failed" THEN Settle(WithTask(from, t, next), t)
                                   ELSE Commit(WithTask(from, t, next))
  BY DEF ProjectCaptureFailure
<1>2. task[t] \in TaskRow /\ task[t].version \in Nat
  BY RefTypes DEF MailInv
<1>3. base \in TaskRow
  <2>1. task[t] \in TaskRow
    BY <1>2
  <2>2. \A v \in Nat : [task[t] EXCEPT !.run = None, !.failure = TRUE,
                                       !.version = v] \in TaskRow
    BY <2>1 DEF TaskRow
  <2> QED BY <1>2, <2>2, Counters
<1>4. row \in TaskRow
  BY <1>3, ClearedType
<1> HIDE DEF row
<1>5. next \in TaskRow /\ next.status \in {"queued", "failed"}
  <2>1. /\ [row EXCEPT !.status = "failed"] \in TaskRow
        /\ [row EXCEPT !.status = "failed"].status = "failed"
    BY <1>4 DEF TaskRow, TaskStatuses
  <2>2. RetryDecision(row) \in TaskRow
    BY <1>4, RetryDecisionType
  <2>3. RetryDecision(row).status \in {"queued", "failed"}
    BY <1>4 DEF RetryDecision, TaskRow
  <2> QED BY <2>1, <2>2, <2>3
<1>6. from \in TxSet /\ from.task = task /\ TxServed(from, run)
  BY BeginServed, BrokenServed
<1> HIDE DEF next, from
<1>7. CASE next.status = "failed"
  BY <1>1, <1>5, <1>6, <1>7, SettledMail
<1>8. CASE next.status = "queued"
  <2>1. CarriesOn(from.task[t], next)
    BY <1>8 DEF CarriesOn, Accepts
  <2>2. TxServed(WithTask(from, t, next), run)
    BY <1>6, <2>1, WithTaskServed
  <2>3. Commit(WithTask(from, t, next))
    BY <1>1, <1>8
  <2> HIDE DEF WithTask
  <2>4. \A m \in Msgs : Served(task', run, msg'[m])
    BY <2>2, <2>3, CommitServed
  <2> QED BY <1>1, <2>4, HoldersKept
<1> QED BY <1>5, <1>7, <1>8

\* An advance that breaks the project fails the task.
LEMMA ProjectAdvanceInvariantFailureMail ==
    ASSUME MailInv, NEW t \in Tasks, ProjectAdvanceInvariantFailure(t)
    PROVE  MailServed'
<1> DEFINE base == [task[t] EXCEPT !.status = "failed", !.failure = TRUE,
                                   !.version = @ + 1]
           row == Cleared(base)
<1>1. run' = run /\ Settle(WithTask(Broken(Begin), t, row), t)
  BY DEF ProjectAdvanceInvariantFailure
<1>2. task[t] \in TaskRow /\ task[t].version \in Nat
  BY RefTypes DEF MailInv
<1>3. row \in TaskRow
  <2>1. task[t] \in TaskRow
    BY <1>2
  <2>2. \A v \in Nat : [task[t] EXCEPT !.status = "failed", !.failure = TRUE,
                                       !.version = v] \in TaskRow
    BY <2>1 DEF TaskRow, TaskStatuses
  <2> QED BY <1>2, <2>2, Counters, ClearedType
<1>4. Broken(Begin) \in TxSet /\ TxServed(Broken(Begin), run)
  BY BrokenServed
<1> HIDE DEF row
<1> QED BY <1>1, <1>3, <1>4, SettledMail

\* finalizeSuccessfulAdvance completes tasks that had no more deliveries, and
\* tells the parent.
LEMMA FinalizeSuccessfulAdvanceMail ==
    ASSUME MailInv, NEW t \in Tasks, FinalizeSuccessfulAdvance(t)
    PROVE  MailServed'
<1> DEFINE row == Cleared(Completed(task[t]))
<1>1. AdvanceFence(t) /\ run' = run
  BY DEF FinalizeSuccessfulAdvance
<1>2. task[t].status = "submitted" /\ task[t] \in TaskRow
  BY <1>1, AdvanceRow DEF MailInv
<1>3. row \in TaskRow
  BY <1>2, CompletedType, ClearedType
<1> HIDE DEF row
<1>4. Begin \in TxSet /\ TxServed(Begin, run)
  BY BeginServed
<1>5. CASE Kind[t] # "integration"
  <2>1. Settle(WithTask(Begin, t, row), t)
    BY <1>5 DEF FinalizeSuccessfulAdvance, row
  <2> QED BY <1>1, <1>3, <1>4, <2>1, SettledMail
<1>6. CASE Kind[t] = "integration"
  <2> DEFINE s == task[t].source
             end == Completed(task[s])
             first == WithTask(Begin, s, end)
             src == Disposed(first, s)
  <2>1. SourceFence(task, t)
    BY <1>6 DEF FinalizeSuccessfulAdvance
  <2>2. s \in Tasks /\ task[s] \in TaskRow
    BY <1>6, <2>1, RefTypes DEF MailInv, SourceFence
  <2>3. PICK m \in Slots(src, s) :
             Commit(Disposed(WithTask(Notified(src, s, m), t, row), t))
    BY <1>6 DEF FinalizeSuccessfulAdvance, row
  <2>4. end \in TaskRow
    BY <2>2, CompletedType
  <2> HIDE DEF s, end
  <2>5. first \in TxSet /\ TxServedBut(first, run, s)
    BY <1>4, <2>2, <2>4, WithTaskType, WithTaskServedBut
  <2> HIDE DEF first
  <2>6. src \in TxSet /\ TxServed(src, run)
    BY <2>2, <2>5, DisposedType, DisposedServed
  <2> HIDE DEF src
  <2> DEFINE noted == Notified(src, s, m)
             both == WithTask(noted, t, row)
  <2>7. noted \in TxSet /\ TxServed(noted, run)
    BY <2>2, <2>6, NotifiedType, NotifiedServed
  <2> HIDE DEF noted
  <2>8. both \in TxSet /\ TxServedBut(both, run, t)
    BY <1>3, <2>7, WithTaskType, WithTaskServedBut
  <2>9. Commit(Disposed(both, t))
    BY <2>3 DEF noted
  <2> HIDE DEF both
  <2>10. TxServed(Disposed(both, t), run)
    BY <2>8, DisposedServed
  <2>11. \A x \in Msgs : Served(task', run, msg'[x])
    BY <2>9, <2>10, CommitServed
  <2> QED BY <1>1, <2>11, HoldersKept
<1> QED BY <1>5, <1>6

\* finalizeStaleAdvance queues an integration task, old or new, with the
\* message that tells its agent about the stale result.
LEMMA StaleAdvanceMail ==
    ASSUME MailInv, NEW t \in Tasks, NEW i \in Tasks, NEW m \in Msgs,
           Assignee[i] # None, task'[i].status = "queued",
           ~Accepts(task[t]), ~Accepts(task[i]),
           \A c \in Tasks \ {t, i} : task'[c] = task[c],
           msg' = [msg EXCEPT ![m] = NewMsg(i, TRUE)], run' = run
    PROVE  MailServed'
<1>1. \A x \in Msgs : msg'[x] = IF x = m THEN NewMsg(i, TRUE) ELSE msg[x]
  BY RefTypes DEF MailInv, TypeOK
<1>2. Served(task', run, NewMsg(i, TRUE))
  BY DEF Served, NewMsg, NoMsg, Accepts
<1>3. \A c \in Tasks : CarriesOn(task[c], task'[c])
  BY DEF CarriesOn
<1>4. \A x \in Msgs : msg[x].state # "none" => msg[x].task \in Tasks
  BY DEF MailInv, MailServed, Served
<1>5. \A x \in Runs : Live(run[x]) => Live(run'[x]) /\ run'[x].task = run[x].task
  OBVIOUS
<1> QED BY <1>1, <1>2, <1>3, <1>4, <1>5, MessagesMail

\* finalizeStaleAdvance for an integration task.
LEMMA RequeueStaleIntegrationMail ==
    ASSUME MailInv, NEW t \in Tasks, NEW m \in Msgs, RequeueStaleIntegration(t, m)
    PROVE  MailServed'
<1> DEFINE base == [task[t] EXCEPT !.status = "queued", !.run = None, !.version = @ + 1]
           row == Cleared(base)
<1> USE LedgerAssumption
<1>1. /\ AdvanceFence(t) /\ Kind[t] = "integration" /\ run' = run
      /\ task' = [task EXCEPT ![t] = row]
      /\ msg' = [msg EXCEPT ![m] = NewMsg(t, TRUE)]
  BY DEF RequeueStaleIntegration
<1>2. task[t] \in TaskRow /\ task \in [Tasks -> TaskRow]
  BY RefTypes DEF MailInv, TypeOK
<1>3. row.status = "queued"
  BY <1>2 DEF Cleared, TaskRow
<1>4. ~Accepts(task[t]) /\ Assignee[t] # None
  BY <1>1 DEF AdvanceFence, Accepts
<1> HIDE DEF row
<1>5. task'[t].status = "queued" /\ \A c \in Tasks \ {t} : task'[c] = task[c]
  BY <1>1, <1>2, <1>3
<1> QED BY <1>1, <1>4, <1>5, StaleAdvanceMail

\* finalizeStaleAdvance otherwise.
LEMMA CreateIntegrationMail ==
    ASSUME MailInv, NEW t \in Tasks, NEW i \in Tasks, NEW m \in Msgs,
           CreateIntegration(t, i, m)
    PROVE  MailServed'
<1> DEFINE row == Cleared([task[t] EXCEPT !.link = i, !.version = @ + 1])
           made == [NewTask("queued", 1) EXCEPT
                      !.source = t, !.srcHead = task[t].head, !.srcVer = row.version]
<1> USE LedgerAssumption
<1>1. /\ AdvanceFence(t) /\ Kind[i] = "integration" /\ run' = run
      /\ task[i].status = "none"
      /\ task' = [task EXCEPT ![t] = row, ![i] = made]
      /\ msg' = [msg EXCEPT ![m] = NewMsg(i, TRUE)]
  BY DEF CreateIntegration
<1>2. task \in [Tasks -> TaskRow]
  BY RefTypes DEF MailInv, TypeOK
<1>3. made.status = "queued"
  BY DEF NewTask
<1>4. ~Accepts(task[t]) /\ ~Accepts(task[i]) /\ Assignee[i] # None
  BY <1>1 DEF AdvanceFence, Accepts
<1> HIDE DEF row, made
<1>5. task'[i].status = "queued" /\ \A c \in Tasks \ {t, i} : task'[c] = task[c]
  BY <1>1, <1>2, <1>3
<1> QED BY <1>1, <1>4, <1>5, StaleAdvanceMail

-----------------------------------------------------------------------------
(* The theorems.                                                           *)

\* No messages, none out of place.
LEMMA MailInit == Init => MailInv
<1> SUFFICES ASSUME Init PROVE MailInv
  OBVIOUS
<1>1. \A m \in Msgs : msg[m].state = "none"
  BY DEF Init, NoMsg
<1>2. MailServed
  BY <1>1 DEF MailServed, Served
<1> QED BY <1>2, LedgerInit DEF MailInv

\* Every transaction leaves every message in place.
LEMMA MailStep ==
    ASSUME MailInv, [Next]_vars
    PROVE  MailInv'
<1>1. LedgerInv'
  BY LedgerStep DEF MailInv
<1> SUFFICES MailServed'
  BY <1>1 DEF MailInv
<1>2. ASSUME UNCHANGED <<task, run, msg>> PROVE MailServed'
  <2>1. \A m \in Msgs : Served(task', run, msg'[m])
    BY <1>2 DEF MailInv, MailServed
  <2> QED BY <1>2, <2>1, HoldersKept
<1>3. CASE \E r \in Runs : RunStep(r)
  BY <1>3, RunColumnsMail, ActivateMail, DeliveredMail, AcknowledgeMail,
     RequestOutcomeMail, TerminalMail DEF RunStep
<1>4. CASE \E t \in Tasks : TaskStep(t)
  BY <1>4, ClaimMail, QuietRowsMail, WakeTaskMail, CancelTaskMail, DeleteTaskMail,
     SendToTaskMail, SendToNewConversationMail, CompleteTaskMail, CloseConversationMail
     DEF TaskStep
<1>5. CASE \E t \in Tasks : GitStep(t)
  BY <1>5, FinalizeCaptureMail, ProjectCaptureFailureMail, FinalizeSuccessfulAdvanceMail,
     RequeueStaleIntegrationMail, CreateIntegrationMail,
     ProjectAdvanceInvariantFailureMail DEF GitStep
<1>6. CASE AdminStep
  <2>1. CASE \E m \in Msgs : RetryMessage(m)
    BY <2>1, RetryMessageMail
  <2>2. CASE DeleteProject
    <3>1. \A m \in Msgs : msg'[m] = NoMsg
      BY <2>2 DEF DeleteProject
    <3> QED BY <3>1 DEF MailServed, Served, NoMsg
  <2>3. CASE \/ \E a \in Agents : PauseOrResumeAgent(a) \/ ArchiveAgent(a)
             \/ \E ok \in BOOLEAN : FinishProjectAction(ok)
             \/ FailActiveVerification
             \/ RepairProject
             \/ ArchiveProject
    <3>1. UNCHANGED <<task, run, msg>>
      BY <2>3 DEF PauseOrResumeAgent, ArchiveAgent, FinishProjectAction,
                  FailActiveVerification, RepairProject, ArchiveProject
    <3> QED BY <1>2, <3>1
  <2> QED BY <1>6, <2>1, <2>2, <2>3 DEF AdminStep
<1>7. CASE UNCHANGED vars
  BY <1>2, <1>7 DEF vars
<1> QED BY <1>3, <1>4, <1>5, <1>6, <1>7 DEF Next

\* MailInv holds of every reachable state.
LEMMA MailAlways == Spec => []MailInv
<1>1. MailInv /\ [Next]_vars => MailInv'
  BY MailStep
<1> QED BY <1>1, MailInit, PTL DEF Spec

\* For any number of tasks, runs and messages no wakeup is lost: redelivery at
\* the end of a run, rerouting off a task that takes no more deliveries, a wait
\* that races an arriving message, WakeTask and RetryMessage never leave a wake
\* message that can be delivered on a task that waits.
THEOREM WakeupsKept == Spec => []NoLostWakeup
<1>1. MailInv => NoLostWakeup
  BY DEF MailInv, MailServed, Served, NoLostWakeup, Accepts
<1> QED BY <1>1, MailAlways, PTL

\* For any number of tasks, runs and messages an unresolved message is on a task
\* that takes deliveries and, once handed out, in the hands of a live run of
\* the agent it is addressed to.
THEOREM MailReaches == Spec => []MessagesReachable
<1>1. MailInv => MessagesReachable
  BY LedgerAssumption DEF MailInv, MailServed, Served, MessagesReachable
<1> QED BY <1>1, MailAlways, PTL

=============================================================================
