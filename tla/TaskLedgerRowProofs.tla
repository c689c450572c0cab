------------------------ MODULE TaskLedgerRowProofs ------------------------
(***************************************************************************)
(* Proofs about the task rows of TaskLedger: who owns them, what fences    *)
(* them, how a source and its integration task are tied together, and that *)
(* every transaction is a step of the table of fsm.go.                     *)
(*                                                                         *)
(* A transaction writes one or two rows it has checked, and passes over    *)
(* others: a message may wake a waiting parent or conversation.  The first *)
(* part shows that waking is all it does to the rows it passes over; the   *)
(* second states the inductive invariant; the third shows that the calm    *)
(* writes, those that end no live run's claim and loosen no link, keep it, *)
(* and leaves the rest to a proof of their own.                            *)
(***************************************************************************)
EXTENDS TaskLedgerProofs, TaskFsmRefinement

-----------------------------------------------------------------------------
(* The inductive invariant.                                                *)

\* What a row says by itself.  A row that is not there is blank; a row that
\* is executing has a run; a capture belongs to the run that is finishing and
\* an advance to a submitted result, each fenced by the version of the row;
\* conversations have no result; a link leads from a result to its
\* integration task and is never dropped silently.
Shaped(t, row) ==
    /\ ~Exists(row) => /\ row.run = None
                       /\ row.pending = "none"
                       /\ row.link = None
                       /\ row.source = None
    /\ row.status \in {"running", "finishing"} => row.run # None
    /\ row.run # None => row.status \in {"queued", "running", "finishing", "cancelled"}
    /\ row.pending = "capture" => /\ row.status = "finishing"
                                  /\ row.pendRun = row.run
                                  /\ row.pendVer = row.version
    /\ row.pending = "advance" => /\ row.status = "submitted"
                                  /\ row.pendVer = row.version
                                  /\ row.accepted # None
                                  /\ row.link = None
    /\ Kind[t] = "conversation" => row.status # "submitted" /\ row.pending = "none"
    /\ row.link # None => /\ row.status \in {"submitted", "completed"}
                          /\ Kind[t] # "integration"
                          /\ Kind[row.link] = "integration"
    /\ row.source # None => /\ Kind[t] = "integration"
                            /\ Kind[row.source] # "integration"

RowsShaped == \A t \in Tasks : Shaped(t, task[t])

\* What row t says of its current run.
Owns(t, row, owner) ==
    /\ owner.task = t
    /\ Live(owner) \/ (Terminal(owner) /\ row.pending = "capture")
    /\ row.status = "queued" => owner.state = "starting" /\ owner.outcome = "none"
    /\ row.status = "running" => owner.state = "active" /\ owner.outcome = "none"
    /\ row.status = "finishing" => owner.revoked /\ owner.outcome # "none"
    /\ row.pending = "capture" => owner.outcome = "submit"
    /\ row.status # "cancelled" => row.gen = owner.gen

OwnersAgree ==
    \A t \in Tasks : task[t].run # None => Owns(t, task[t], run[task[t].run])

\* The state of a run that is on record.
Recorded(row) == row.state \notin {"none", "deleted"}

\* What a run on record says of its task.
RunsAnswered ==
    \A r \in Runs : Recorded(run[r]) =>
        /\ Exists(task[run[r].task])
        /\ Live(run[r]) => task[run[r].task].run = r

\* A task that is still open has an agent that is there to work on it, and
\* an advance has its integrator.
AgentsPresent ==
    \A t \in Tasks :
        /\ IsOpen(task[t]) /\ Assignee[t] # None => agent[Assignee[t]] # "archived"
        /\ task[t].pending = "advance" => agent[task[t].accepted] # "archived"

\* The project is archived over closed tasks only.
BooksClosed ==
    project \in {"archived", "deleted"} => \A t \in Tasks : ~IsOpen(task[t])

LedgerInv ==
    /\ RuntimeInv
    /\ RowsShaped
    /\ OwnersAgree
    /\ RunsAnswered
    /\ FencingTokensUnique
    /\ IntegrationLinked
    /\ AgentsPresent
    /\ BooksClosed

-----------------------------------------------------------------------------
(* What a transaction does to the rows it passes over.                     *)

\* Table tk2 differs from tk only in rows that were woken.
Passes(tk, tk2) == \A c \in Tasks : tk2[c] \in {tk[c], Woken(tk[c])}

\* A wake moves a waiting row to the queue, counts as a write, and changes
\* nothing else.
LEMMA WokenRow ==
    ASSUME NEW row \in TaskRow
    PROVE  /\ row.status # "waiting" => Woken(row) = row
           /\ row.status = "waiting" =>
                /\ Woken(row).status = "queued"
                /\ Woken(row).version = row.version + 1
           /\ Woken(row).gen = row.gen
           /\ Woken(row).run = row.run
           /\ Woken(row).pending = row.pending
           /\ Woken(row).pendRun = row.pendRun
           /\ Woken(row).accepted = row.accepted
           /\ Woken(row).link = row.link
           /\ Woken(row).source = row.source
           /\ Woken(row).srcHead = row.srcHead
           /\ Woken(row).srcVer = row.srcVer
           /\ Woken(row).head = row.head
BY DEF Woken, TaskRow

\* Waking a row twice is waking it once.
LEMMA WokenTwice ==
    ASSUME NEW row \in TaskRow
    PROVE  Woken(Woken(row)) = Woken(row)
<1>1. Woken(row).status # "waiting"
  BY WokenRow
<1> QED BY <1>1, WokenType, WokenRow

\* Passing over rows twice is passing over them.
LEMMA PassesTwice ==
    ASSUME NEW tk \in [Tasks -> TaskRow], NEW tk1, NEW tk2,
           Passes(tk, tk1), Passes(tk1, tk2)
    PROVE  Passes(tk, tk2)
<1> SUFFICES ASSUME NEW c \in Tasks PROVE tk2[c] \in {tk[c], Woken(tk[c])}
  BY DEF Passes
<1>1. tk[c] \in TaskRow
  OBVIOUS
<1>2. tk1[c] \in {tk[c], Woken(tk[c])} /\ tk2[c] \in {tk1[c], Woken(tk1[c])}
  BY DEF Passes
<1>3. Woken(Woken(tk[c])) = Woken(tk[c])
  BY <1>1, WokenTwice
<1> QED BY <1>2, <1>3

\* disposeUnresolvedMessages only wakes.
LEMMA DisposedPasses ==
    ASSUME NEW tx \in TxSet, NEW t \in Tasks
    PROVE  Passes(tx.task, Disposed(tx, t).task)
<1> DEFINE to == RerouteTargets(tx, t)
           left == {m \in Msgs : tx.msg[m].state # "none" /\ tx.msg[m].task = t}
           wakes == \E m \in left : tx.msg[m].wake /\ ~Exhausted(tx.msg[m])
           tk == [c \in Tasks |-> IF c \in to /\ wakes
                                  THEN Woken(tx.task[c]) ELSE tx.task[c]]
<1>1. Disposed(tx, t).task = tk
  BY DEF Disposed, TxSet
<1>2. \A c \in Tasks : tk[c] \in {tx.task[c], Woken(tx.task[c])}
  OBVIOUS
<1> HIDE DEF tk
<1> QED BY <1>1, <1>2 DEF Passes

\* notifyParentOfChild only wakes.
LEMMA NotifiedPasses ==
    ASSUME NEW tx \in TxSet, NEW t \in Tasks, NEW m
    PROVE  Passes(tx.task, Notified(tx, t, m).task)
<1>1. CASE ~NotifiesAgent(tx, t)
  BY <1>1 DEF Notified, Passes
<1>2. CASE NotifiesAgent(tx, t)
  <2>1. Notified(tx, t, m).task =
          [tx.task EXCEPT ![Parent[t]] = Woken(tx.task[Parent[t]])]
    BY <1>2 DEF Notified, TxSet
  <2>2. tx.task \in [Tasks -> TaskRow]
    BY DEF TxSet
  <2> QED BY <2>1, <2>2 DEF Passes
<1> QED BY <1>1, <1>2

\* The tail of a transaction only wakes.
LEMMA SettlePasses ==
    ASSUME NEW tx \in TxSet, NEW t \in Tasks, Settle(tx, t)
    PROVE  Passes(tx.task, task')
<1> DEFINE done == Disposed(tx, t)
<1>1. done \in TxSet
  BY DisposedType
<1>2. Passes(tx.task, done.task)
  BY DisposedPasses
<1>3. PICK m \in Slots(done, t) : Commit(Notified(done, t, m))
  BY DEF Settle
<1> HIDE DEF done
<1>4. Passes(done.task, Notified(done, t, m).task)
  BY <1>1, NotifiedPasses
<1>5. task' = Notified(done, t, m).task
  BY <1>3 DEF Commit
<1>6. tx.task \in [Tasks -> TaskRow]
  BY DEF TxSet
<1> QED BY <1>2, <1>4, <1>5, <1>6, PassesTwice

\* The transaction wrote row to t and passed over the rest.
Wrote(t, row) ==
    /\ task'[t] = row
    /\ \A c \in Tasks \ {t} : task'[c] \in {task[c], Woken(task[c])}

\* A transaction that writes one row, not to waiting, and passes over others.
LEMMA WroteOne ==
    ASSUME NEW tx \in TxSet, NEW t \in Tasks, NEW row \in TaskRow,
           tx.task = task, row.status # "waiting",
           Passes(WithTask(tx, t, row).task, task')
    PROVE  Wrote(t, row)
<1>1. WithTask(tx, t, row).task = [task EXCEPT ![t] = row]
  BY DEF WithTask, TxSet
<1>2. task \in [Tasks -> TaskRow]
  BY DEF TxSet
<1>3. task'[t] \in {row, Woken(row)}
  BY <1>1, <1>2 DEF Passes
<1>4. \A c \in Tasks \ {t} : task'[c] \in {task[c], Woken(task[c])}
  BY <1>1, <1>2 DEF Passes
<1> QED BY <1>3, <1>4, WokenRow DEF Wrote

\* The same, by the tail of a transaction.
LEMMA SettleWrote ==
    ASSUME NEW tx \in TxSet, NEW t \in Tasks, NEW row \in TaskRow,
           tx.task = task, row.status # "waiting",
           Settle(WithTask(tx, t, row), t)
    PROVE  Wrote(t, row)
<1>1. WithTask(tx, t, row) \in TxSet
  BY WithTaskType
<1> QED BY <1>1, SettlePasses, WroteOne

\* A transaction that commits one row and nothing more.
LEMMA CommitWrote ==
    ASSUME NEW tx \in TxSet, NEW t \in Tasks, NEW row,
           tx.task = task, Commit(WithTask(tx, t, row))
    PROVE  Wrote(t, row) /\ \A c \in Tasks \ {t} : task'[c] = task[c]
BY DEF Commit, WithTask, Wrote, TxSet

-----------------------------------------------------------------------------

(* Moves of one row.                                                       *)

\* The moves of fsm.go that the transactions make.
LEMMA TableMoves ==
    ASSUME NEW t \in Tasks
    PROVE  /\ \A s : Fsm!RowStep(t, s, s)
           /\ \A s \in {"queued", "waiting"} : Fsm!RowStep(t, "none", s)
           /\ \A s \in {"running", "failed", "cancelled"} : Fsm!RowStep(t, "queued", s)
           /\ \A s \in {"finishing", "queued", "failed", "cancelled"} :
                 Fsm!RowStep(t, "running", s)
           /\ \A s \in {"waiting", "queued", "failed"} : Fsm!RowStep(t, "finishing", s)
           /\ \A s \in {"queued", "cancelled"} : Fsm!RowStep(t, "waiting", s)
           /\ \A s \in {"queued", "cancelled"} : Fsm!RowStep(t, "failed", s)
           /\ \A s \in Closed : Fsm!RowStep(t, s, "deleted")
           /\ Kind[t] \in {"conversation", "work"} => Fsm!RowStep(t, "waiting", "completed")
           /\ Kind[t] # "conversation" =>
                /\ Fsm!RowStep(t, "finishing", "submitted")
                /\ \A s \in {"queued", "completed", "cancelled", "failed"} :
                      Fsm!RowStep(t, "submitted", s)
<1>1. Kind[t] \in Kinds
  BY LedgerAssumption
<1> QED BY <1>1
   DEF Fsm!RowStep, Fsm!ValidTransition, Fsm!taskTransitions, Exceptions, Kinds, Closed

\* What one transaction may do to row c: a move of the table, and no change
\* that the version does not count.
Moved(c, old, new) ==
    /\ Fsm!RowStep(c, old.status, new.status)
    /\ Exists(old) /\ Exists(new) /\ new # old => new.version > old.version

RowsMoved == \A c \in Tasks : Moved(c, task[c], task'[c])

-----------------------------------------------------------------------------
(* Writes that keep each part of the invariant.                            *)

\* The write takes no claim from a live run and gives none.
Unclaimed(old, new) ==
    /\ new.run = None
    /\ old.run # None => Terminal(run[old.run])
    /\ Exists(new)
    /\ Exists(old) => new.gen >= old.gen

\* The write leaves the ties between sources and integration tasks alone.
Untied(c, old, new) ==
    /\ old.link = None \/ ~IsOpen(old)
    /\ new.link = None \/ ~IsOpen(new)
    /\ Kind[c] = "integration" =>
          \/ ~IsOpen(old) /\ ~IsOpen(new)
          \/ /\ IsOpen(old) /\ IsOpen(new)
             /\ new.source = old.source
             /\ new.srcHead = old.srcHead
             /\ new.srcVer = old.srcVer

\* The write opens no task whose agent or project is gone, and promises no
\* integrator that is.
Staffed(c, old, new) ==
    /\ IsOpen(new) => \/ IsOpen(old)
                      \/ /\ project = "active"
                         /\ Assignee[c] # None => agent[Assignee[c]] # "archived"
    /\ new.pending = "advance" => agent[new.accepted] # "archived"

\* The types of the rows and of the references they hold.
LEMMA RefTypes ==
    ASSUME LedgerInv
    PROVE  /\ TypeOK
           /\ \A t \in Tasks : /\ task[t] \in TaskRow
                               /\ task[t].run \in Runs \cup {None}
                               /\ task[t].link \in Tasks \cup {None}
                               /\ task[t].source \in Tasks \cup {None}
                               /\ task[t].version \in Nat
                               /\ task[t].gen \in Nat
           /\ \A r \in Runs : /\ run[r] \in RunRow
                              /\ run[r].gen \in Nat
                              /\ run[r].state # "none" => run[r].task \in Tasks
           /\ None \notin Tasks /\ None \notin Runs
<1>1. TypeOK
  BY DEF LedgerInv, RuntimeInv
<1>2. \A r \in Runs : run[r].state # "none" => run[r].task \in Tasks
  BY <1>1, RunTask DEF LedgerInv, RuntimeInv
<1>3. \A t \in Tasks : task[t] \in TaskRow
  BY <1>1, RowTypes
<1>4. \A r \in Runs : run[r] \in RunRow
  BY <1>1, RowTypes
<1> QED BY <1>1, <1>2, <1>3, <1>4, LedgerAssumption DEF TaskRow, RunRow

\* Rows written outside any claim leave owners and fences as they are.
LEMMA ClaimsKept ==
    ASSUME LedgerInv, TypeOK', run' = run,
           \A c \in Tasks : task'[c] = task[c] \/ Unclaimed(task[c], task'[c])
    PROVE  OwnersAgree' /\ RunsAnswered' /\ FencingTokensUnique'
<1>1. OwnersAgree'
  <2> SUFFICES ASSUME NEW c \in Tasks, task'[c].run # None
               PROVE  Owns(c, task'[c], run[task'[c].run])
    BY DEF OwnersAgree
  <2>1. task'[c] = task[c]
    BY DEF Unclaimed
  <2> QED BY <2>1 DEF LedgerInv, OwnersAgree
<1>2. ASSUME NEW r \in Runs, Recorded(run[r])
      PROVE  /\ run[r].task \in Tasks
             /\ Exists(task'[run[r].task])
             /\ Live(run[r]) => task'[run[r].task].run = r
             /\ run[r].gen <= task'[run[r].task].gen
  <2>1. run[r].task \in Tasks /\ run[r].gen \in Nat
    BY <1>2, RefTypes DEF Recorded
  <2>2. /\ Exists(task[run[r].task])
        /\ Live(run[r]) => task[run[r].task].run = r
        /\ run[r].gen <= task[run[r].task].gen
    BY <1>2 DEF LedgerInv, RunsAnswered, FencingTokensUnique, Recorded
  <2>3. CASE task'[run[r].task] = task[run[r].task]
    BY <2>1, <2>2, <2>3
  <2>4. CASE Unclaimed(task[run[r].task], task'[run[r].task])
    <3>1. ~Live(run[r])
      BY <2>2, <2>4, LedgerAssumption DEF Unclaimed, Live, Terminal, AllTerminal
    <3>2. task[run[r].task].gen \in Nat /\ task'[run[r].task].gen \in Nat
      BY <2>1, RefTypes DEF TypeOK, TaskRow
    <3>3. run[r].gen <= task'[run[r].task].gen
      BY <2>1, <2>2, <2>4, <3>2 DEF Unclaimed
    <3> QED BY <2>1, <2>2, <2>4, <3>1, <3>3 DEF Unclaimed
  <2> QED BY <2>1, <2>3, <2>4
<1>3. RunsAnswered'
  BY <1>2 DEF RunsAnswered, Recorded, Live, Exists
<1>4. FencingTokensUnique'
  BY <1>2 DEF LedgerInv, FencingTokensUnique, Recorded
<1> QED BY <1>1, <1>3, <1>4


\* The same when run r, of row t, is written too.
LEMMA ClaimMoves ==
    ASSUME LedgerInv, TypeOK', NEW t \in Tasks, NEW r \in Runs, NEW new \in RunRow,
           run' = [run EXCEPT ![r] = new],
           \A c \in Tasks \ {t} : task'[c] = task[c] \/ Unclaimed(task[c], task'[c]),
           task[t].run \in {None, r},
           task'[t].run \in {None, r},
           task'[t].run = r => Owns(t, task'[t], new),
           Live(new) => task'[t].run = r,
           Exists(task'[t]),
           task'[t].gen >= task[t].gen,
           Recorded(new), new.task = t,
           \/ Recorded(run[r]) /\ run[r].task = t /\ new.gen = run[r].gen
           \/ run[r].state = "none" /\ new.gen = task[t].gen + 1 /\ task'[t].gen = new.gen
    PROVE  OwnersAgree' /\ RunsAnswered' /\ FencingTokensUnique'
<1> USE LedgerAssumption
<1>1. run'[r] = new /\ \A x \in Runs \ {r} : run'[x] = run[x]
  BY RefTypes DEF TypeOK
<1>2. \A c \in Tasks : task[c].run = r => c = t
  <2> SUFFICES ASSUME NEW c \in Tasks, task[c].run = r PROVE c = t
    OBVIOUS
  <2>1. Owns(c, task[c], run[r])
    BY DEF LedgerInv, OwnersAgree
  <2> QED BY <2>1 DEF Owns, Live, Terminal, AllTerminal, Recorded
<1>3. OwnersAgree'
  <2> SUFFICES ASSUME NEW c \in Tasks, task'[c].run # None
               PROVE  Owns(c, task'[c], run'[task'[c].run])
    BY DEF OwnersAgree
  <2>1. CASE c = t
    BY <1>1, <2>1
  <2>2. CASE c # t
    <3>1. task'[c] = task[c]
      BY <2>2 DEF Unclaimed
    <3>2. task[c].run \in Runs \ {r}
      BY <1>2, <2>2, <3>1, RefTypes
    <3>3. Owns(c, task[c], run[task[c].run])
      BY <3>1 DEF LedgerInv, OwnersAgree
    <3> QED BY <1>1, <3>1, <3>2, <3>3
  <2> QED BY <2>1, <2>2
<1>4. \A x \in Runs \ {r} : Recorded(run[x]) =>
        /\ run[x].task \in Tasks
        /\ run[x].gen \in Nat
        /\ Exists(task[run[x].task])
        /\ Live(run[x]) => task[run[x].task].run = x
        /\ run[x].gen <= task[run[x].task].gen
  BY RefTypes DEF LedgerInv, RunsAnswered, FencingTokensUnique, Recorded
<1>5. \A c \in Tasks : task[c].gen \in Nat /\ task'[c].gen \in Nat
  BY RefTypes DEF TypeOK, TaskRow
<1>6. ASSUME NEW x \in Runs \ {r}, Recorded(run[x])
      PROVE  /\ Exists(task'[run[x].task])
             /\ Live(run[x]) => task'[run[x].task].run = x
             /\ run[x].gen <= task'[run[x].task].gen
  <2> DEFINE c == run[x].task
  <2>1. /\ c \in Tasks
        /\ run[x].gen \in Nat
        /\ Exists(task[c])
        /\ Live(run[x]) => task[c].run = x
        /\ run[x].gen <= task[c].gen
        /\ task[c].gen \in Nat /\ task'[c].gen \in Nat
    BY <1>4, <1>5, <1>6
  <2> HIDE DEF c
  <2>2. CASE c = t
    <3>1. ~Live(run[x])
      BY <2>1, <2>2
    <3> QED BY <2>1, <2>2, <3>1 DEF c
  <2>3. CASE c # t /\ task'[c] = task[c]
    BY <2>1, <2>3 DEF c
  <2>4. CASE c # t /\ Unclaimed(task[c], task'[c])
    <3>1. ~Live(run[x])
      BY <2>1, <2>4 DEF Unclaimed, Live, Terminal, AllTerminal
    <3> QED BY <2>1, <2>4, <3>1 DEF c, Unclaimed
  <2> QED BY <2>1, <2>2, <2>3, <2>4
<1>7. RunsAnswered'
  <2> SUFFICES ASSUME NEW x \in Runs, Recorded(run'[x])
               PROVE  /\ Exists(task'[run'[x].task])
                      /\ Live(run'[x]) => task'[run'[x].task].run = x
    BY DEF RunsAnswered, Recorded, Live, Exists
  <2> QED BY <1>1, <1>6
<1>8. new.gen \in Nat /\ new.gen <= task'[t].gen
  <2>1. CASE Recorded(run[r]) /\ run[r].task = t /\ new.gen = run[r].gen
    <3>1. run[r].gen <= task[t].gen /\ run[r].gen \in Nat
      BY <2>1, RefTypes DEF LedgerInv, FencingTokensUnique, Recorded
    <3> QED BY <1>5, <2>1, <3>1
  <2>2. CASE new.gen = task[t].gen + 1 /\ task'[t].gen = new.gen
    BY <1>5, <2>2
  <2> QED BY <2>1, <2>2
<1>9. ASSUME NEW x \in Runs \ {r}, Recorded(run[x]), run[x].task = t
      PROVE  run[x].gen # new.gen
  <2>1. run[x].gen \in Nat /\ run[x].gen <= task[t].gen /\ task[t].gen \in Nat
    BY <1>4, <1>5, <1>9
  <2>2. CASE Recorded(run[r]) /\ run[r].task = t /\ new.gen = run[r].gen
    BY <1>9, <2>2 DEF LedgerInv, FencingTokensUnique, Recorded
  <2>3. CASE new.gen = task[t].gen + 1
    BY <2>1, <2>3
  <2> QED BY <2>2, <2>3
<1>10. FencingTokensUnique'
  <2>1. \A x, y \in Runs \ {r} : /\ Recorded(run[x]) /\ Recorded(run[y])
                                 /\ run[y].task = run[x].task
                                 /\ run[y].gen = run[x].gen
                                 => y = x
    BY DEF LedgerInv, FencingTokensUnique, Recorded
  <2>2. \A x \in Runs : Recorded(run'[x]) => run'[x].gen <= task'[run'[x].task].gen
    BY <1>1, <1>6, <1>8
  <2>3. \A x, y \in Runs : /\ Recorded(run'[x]) /\ Recorded(run'[y])
                           /\ run'[y].task = run'[x].task
                           /\ run'[y].gen = run'[x].gen
                           => y = x
    BY <1>1, <1>9, <2>1
  <2> QED BY <2>2, <2>3 DEF FencingTokensUnique, Recorded
<1> QED BY <1>3, <1>7, <1>10

\* Writes that tie and untie nothing keep sources and integration tasks
\* together.
LEMMA TiesKept ==
    ASSUME LedgerInv, TypeOK', RowsShaped',
           \A c \in Tasks : task'[c] = task[c] \/ Untied(c, task[c], task'[c])
    PROVE  IntegrationLinked'
<1> USE LedgerAssumption
<1>1. \A c \in Tasks : Shaped(c, task[c]) /\ Shaped(c, task'[c])
  BY DEF LedgerInv, RowsShaped
<1>2. \A c \in Tasks : /\ task[c].link \in Tasks \cup {None}
                       /\ task[c].source \in Tasks \cup {None}
                       /\ task'[c].link \in Tasks \cup {None}
                       /\ task'[c].source \in Tasks \cup {None}
  BY RefTypes DEF TypeOK, TaskRow
<1>3. ASSUME NEW i \in Tasks, Kind[i] = "integration", IsOpen(task'[i])
      PROVE  SourceFence(task', i)
  <2>1. /\ IsOpen(task[i])
        /\ task'[i].source = task[i].source
        /\ task'[i].srcHead = task[i].srcHead
        /\ task'[i].srcVer = task[i].srcVer
    BY <1>3 DEF Untied
  <2>2. SourceFence(task, i)
    BY <1>3, <2>1 DEF LedgerInv, IntegrationLinked
  <2> DEFINE s == task[i].source
  <2>3. s \in Tasks /\ task[s].link = i /\ IsOpen(task[s])
    BY <1>2, <2>2 DEF SourceFence, IsOpen, TaskStatuses, Closed
  <2>4. task'[s] = task[s]
    BY <2>3 DEF Untied
  <2> QED BY <2>1, <2>2, <2>4 DEF SourceFence
<1>4. ASSUME NEW c \in Tasks, IsOpen(task'[c]), task'[c].link # None
      PROVE  task'[task'[c].link].source = c /\ IsOpen(task'[task'[c].link])
  <2>1. task'[c] = task[c]
    BY <1>4 DEF Untied
  <2> DEFINE i == task[c].link
  <2>2. i \in Tasks /\ Kind[i] = "integration"
    BY <1>1, <1>2, <1>4, <2>1 DEF Shaped
  <2>3. task[i].source = c /\ IsOpen(task[i])
    BY <1>4, <2>1 DEF LedgerInv, IntegrationLinked
  <2>4. task'[i].source = c /\ IsOpen(task'[i])
    BY <2>2, <2>3 DEF Untied
  <2> QED BY <2>1, <2>4
<1> QED BY <1>3, <1>4 DEF IntegrationLinked

\* Writes that open nothing without staff keep the agents and the project.
LEMMA StaffKept ==
    ASSUME LedgerInv, agent' = agent,
           project' \in {"archived", "deleted"} => project' = project,
           \A c \in Tasks : task'[c] = task[c] \/ Staffed(c, task[c], task'[c])
    PROVE  AgentsPresent' /\ BooksClosed'
<1>1. AgentsPresent'
  BY DEF LedgerInv, AgentsPresent, Staffed
<1>2. BooksClosed'
  BY DEF LedgerInv, BooksClosed, Staffed
<1> QED BY <1>1, <1>2

\* A write that keeps the whole invariant, whatever else is passed over.
Steady(c, old, new) ==
    /\ Shaped(c, new)
    /\ Untied(c, old, new)
    /\ Staffed(c, old, new)
    /\ Moved(c, old, new)

Calm(c, old, new) == Steady(c, old, new) /\ Unclaimed(old, new)

\* A waiting row has no run, no intent and no link, so waking it is calm.
LEMMA WokenCalm ==
    ASSUME LedgerInv, NEW c \in Tasks, task[c].status = "waiting"
    PROVE  Calm(c, task[c], Woken(task[c]))
<1> DEFINE old == task[c]
           new == Woken(task[c])
<1>1. old \in TaskRow /\ old.version \in Nat /\ old.gen \in Nat
  BY RefTypes
<1>2. Shaped(c, old)
  BY DEF LedgerInv, RowsShaped
<1>3. /\ new.status = "queued" /\ new.version = old.version + 1
      /\ new.gen = old.gen /\ new.run = old.run /\ new.pending = old.pending
      /\ new.link = old.link /\ new.source = old.source
      /\ new.srcHead = old.srcHead /\ new.srcVer = old.srcVer
  BY <1>1, WokenRow
<1>4. IsOpen(old) /\ Exists(old) /\ IsOpen(new) /\ Exists(new)
  BY <1>3 DEF IsOpen, Exists, TaskStatuses, Closed
<1>5. old.run = None /\ old.link = None /\ old.pending = "none"
  <2>1. old.pending \in {"none", "capture", "advance"}
    BY <1>1 DEF TaskRow
  <2> QED BY <1>2, <2>1 DEF Shaped
<1> HIDE DEF new
<1>6. Shaped(c, new)
  BY <1>2, <1>3, <1>4, <1>5 DEF Shaped
<1>7. Fsm!RowStep(c, "waiting", "queued")
  BY TableMoves
<1>8. Moved(c, old, new)
  BY <1>1, <1>3, <1>7 DEF Moved
<1>9. Unclaimed(old, new) /\ Untied(c, old, new) /\ Staffed(c, old, new)
  BY <1>1, <1>3, <1>4, <1>5 DEF Unclaimed, Untied, Staffed
<1> QED BY <1>6, <1>8, <1>9 DEF Calm, Steady, new

\* The rows a transaction passes over change calmly.
LEMMA PassedCalm ==
    ASSUME LedgerInv, NEW c \in Tasks, task'[c] \in {task[c], Woken(task[c])}
    PROVE  task'[c] = task[c] \/ Calm(c, task[c], task'[c])
<1>1. task[c].status # "waiting" => Woken(task[c]) = task[c]
  BY RefTypes, WokenRow
<1> QED BY <1>1, WokenCalm

\* A row that is not written has not moved.
LEMMA StillRow ==
    ASSUME LedgerInv, NEW c \in Tasks
    PROVE  Shaped(c, task[c]) /\ Moved(c, task[c], task[c])
BY TableMoves DEF LedgerInv, RowsShaped, Moved

\* A transaction that writes no run and all of whose writes are calm.
LEMMA CalmStep ==
    ASSUME LedgerInv, RuntimeInv', UNCHANGED <<run, agent>>,
           project' \in {"archived", "deleted"} => project' = project,
           \A c \in Tasks : task'[c] = task[c] \/ Calm(c, task[c], task'[c])
    PROVE  LedgerInv' /\ RowsMoved
<1>1. TypeOK'
  BY DEF RuntimeInv
<1>2. RowsShaped' /\ RowsMoved
  BY StillRow DEF RowsShaped, RowsMoved, Calm, Steady
<1>3. OwnersAgree' /\ RunsAnswered' /\ FencingTokensUnique'
  BY <1>1, ClaimsKept DEF Calm
<1>4. IntegrationLinked'
  BY <1>1, <1>2, TiesKept DEF Calm, Steady
<1>5. AgentsPresent' /\ BooksClosed'
  BY StaffKept DEF Calm, Steady
<1> QED BY <1>2, <1>3, <1>4, <1>5 DEF LedgerInv

\* A transaction that writes one row, calmly.
LEMMA CalmWrite ==
    ASSUME LedgerInv, RuntimeInv', UNCHANGED <<run, agent>>,
           project' \in {"archived", "deleted"} => project' = project,
           NEW t \in Tasks, NEW row, Wrote(t, row), Calm(t, task[t], row)
    PROVE  LedgerInv' /\ RowsMoved
<1>1. \A c \in Tasks : task'[c] = task[c] \/ Calm(c, task[c], task'[c])
  BY PassedCalm DEF Wrote
<1> QED BY <1>1, CalmStep

\* A transaction that writes run r and its task t.
LEMMA ClaimStep ==
    ASSUME LedgerInv, RuntimeInv', agent' = agent,
           project' \in {"archived", "deleted"} => project' = project,
           NEW t \in Tasks, NEW row, Wrote(t, row),
           NEW r \in Runs, NEW new \in RunRow, run' = [run EXCEPT ![r] = new],
           row = task[t] \/ Steady(t, task[t], row),
           task[t].run \in {None, r}, row.run \in {None, r},
           row.run = r => Owns(t, row, new),
           Live(new) => row.run = r,
           Exists(row),
           row.gen >= task[t].gen,
           Recorded(new), new.task = t,
           \/ Recorded(run[r]) /\ run[r].task = t /\ new.gen = run[r].gen
           \/ run[r].state = "none" /\ new.gen = task[t].gen + 1 /\ row.gen = new.gen
    PROVE  LedgerInv' /\ RowsMoved
<1>1. TypeOK' /\ task'[t] = row
  BY DEF RuntimeInv, Wrote
<1>2. \A c \in Tasks \ {t} : task'[c] = task[c] \/ Calm(c, task[c], task'[c])
  BY PassedCalm DEF Wrote
<1>3. RowsShaped' /\ RowsMoved
  BY <1>1, <1>2, StillRow DEF RowsShaped, RowsMoved, Calm, Steady
<1>4. OwnersAgree' /\ RunsAnswered' /\ FencingTokensUnique'
  <2>1. \A c \in Tasks \ {t} : task'[c] = task[c] \/ Unclaimed(task[c], task'[c])
    BY <1>2 DEF Calm
  <2> QED BY <1>1, <2>1, ClaimMoves
<1>5. IntegrationLinked'
  <2>1. \A c \in Tasks : task'[c] = task[c] \/ Untied(c, task[c], task'[c])
    BY <1>1, <1>2 DEF Calm, Steady
  <2> QED BY <1>1, <1>3, <2>1, TiesKept
<1>6. AgentsPresent' /\ BooksClosed'
  <2>1. \A c \in Tasks : task'[c] = task[c] \/ Staffed(c, task[c], task'[c])
    BY <1>1, <1>2 DEF Calm, Steady
  <2> QED BY <2>1, StaffKept
<1> QED BY <1>3, <1>4, <1>5, <1>6 DEF LedgerInv

-----------------------------------------------------------------------------
(* The transactions that write no run.                                     *)

\* A write to an open, unlinked row that no live run owns.
LEMMA OpenWrite ==
    ASSUME LedgerInv, NEW t \in Tasks, NEW row,
           IsOpen(task[t]), task[t].link = None,
           task[t].run # None => Terminal(run[task[t].run]),
           Exists(row), row.run = None, row.link = None,
           row.status \notin {"running", "finishing"},
           IsOpen(row) \/ Kind[t] # "integration",
           Kind[t] = "conversation" => row.status # "submitted",
           row.gen >= task[t].gen, row.version > task[t].version,
           row.source = task[t].source,
           row.srcHead = task[t].srcHead, row.srcVer = task[t].srcVer,
           \/ row.pending = "none"
           \/ /\ row.pending = "advance"
              /\ row.status = "submitted"
              /\ row.pendVer = row.version
              /\ row.accepted # None
              /\ agent[row.accepted] # "archived"
              /\ Kind[t] # "conversation",
           Fsm!RowStep(t, task[t].status, row.status)
    PROVE  Calm(t, task[t], row)
<1>1. Shaped(t, task[t])
  BY StillRow
<1>2. Shaped(t, row)
  BY <1>1 DEF Shaped
<1>3. Untied(t, task[t], row) /\ Staffed(t, task[t], row) /\ Moved(t, task[t], row)
  BY DEF Untied, Staffed, Moved
<1> QED BY <1>2, <1>3 DEF Calm, Steady, Unclaimed

\* What the row of an available action looks like.
LEMMA AvailableRow ==
    ASSUME LedgerInv, NEW t \in Tasks, ActionAvailable(task[t]),
           task[t].status \in {"waiting", "submitted", "failed"}
    PROVE  /\ IsOpen(task[t]) /\ Exists(task[t])
           /\ task[t].run = None
           /\ task[t].link = None
           /\ task[t].pending = "none"
           /\ Shaped(t, task[t])
           /\ task[t] \in TaskRow
           /\ task[t].version \in Nat /\ task[t].gen \in Nat
<1>1. Shaped(t, task[t]) /\ task[t] \in TaskRow
  BY StillRow, RefTypes
<1> QED BY <1>1, RefTypes
        DEF ActionAvailable, Shaped, IsOpen, Exists, TaskStatuses, Closed

\* Acknowledging messages writes no row.
LEMMA AcknowledgedRows ==
    ASSUME TypeOK, NEW A
    PROVE  Acknowledged(Begin, A) \in TxSet /\ Acknowledged(Begin, A).task = task
<1>1. Begin \in TxSet /\ Begin.task = task
  BY BeginType DEF Begin
<1> QED BY <1>1, AcknowledgedType DEF Acknowledged, TxSet

\* RetryTask takes a failed row, which nobody owns, to the queue.
LEMMA RetryTaskRows ==
    ASSUME LedgerInv, RuntimeInv', NEW t \in Tasks, NEW A, RetryTask(t, A)
    PROVE  LedgerInv' /\ RowsMoved
<1> DEFINE row == Cleared([task[t] EXCEPT !.status = "queued", !.run = None,
                                          !.gen = @ + 1, !.failure = FALSE,
                                          !.version = @ + 1])
<1>1. /\ ActionAvailable(task[t]) /\ task[t].status = "failed"
      /\ Commit(WithTask(Acknowledged(Begin, A), t, row))
      /\ UNCHANGED <<run, agent, project>>
  BY DEF RetryTask
<1>2. /\ row.status = "queued" /\ row.run = None /\ row.pending = "none"
      /\ row.gen = task[t].gen + 1 /\ row.version = task[t].version + 1
      /\ row.link = task[t].link /\ row.source = task[t].source
      /\ row.srcHead = task[t].srcHead /\ row.srcVer = task[t].srcVer
  BY RefTypes DEF Cleared, TaskRow
<1> HIDE DEF row
<1>3. Wrote(t, row)
  BY <1>1, RefTypes, AcknowledgedRows, CommitWrote
<1>4. Fsm!RowStep(t, "failed", "queued")
  BY TableMoves
<1>5. Calm(t, task[t], row)
  BY <1>1, <1>2, <1>4, AvailableRow, OpenWrite DEF IsOpen, Exists, TaskStatuses, Closed
<1> QED BY <1>1, <1>3, <1>5, CalmWrite

\* ReworkTask takes a submitted row, unless it is linked, to the queue.
LEMMA ReworkTaskRows ==
    ASSUME LedgerInv, RuntimeInv', NEW t \in Tasks, NEW A, ReworkTask(t, A)
    PROVE  LedgerInv' /\ RowsMoved
<1> DEFINE row == Cleared([task[t] EXCEPT !.status = "queued", !.accepted = None,
                                          !.version = @ + 1])
<1>1. /\ ActionAvailable(task[t]) /\ task[t].status = "submitted"
      /\ Kind[t] # "conversation"
      /\ Commit(WithTask(Acknowledged(Begin, A), t, row))
      /\ UNCHANGED <<run, agent, project>>
  BY DEF ReworkTask
<1>2. /\ row.status = "queued" /\ row.run = task[t].run /\ row.pending = "none"
      /\ row.gen = task[t].gen /\ row.version = task[t].version + 1
      /\ row.link = task[t].link /\ row.source = task[t].source
      /\ row.srcHead = task[t].srcHead /\ row.srcVer = task[t].srcVer
  BY RefTypes DEF Cleared, TaskRow
<1> HIDE DEF row
<1>3. Wrote(t, row)
  BY <1>1, RefTypes, AcknowledgedRows, CommitWrote
<1>4. Fsm!RowStep(t, "submitted", "queued")
  BY <1>1, TableMoves
<1>5. Calm(t, task[t], row)
  BY <1>1, <1>2, <1>4, AvailableRow, OpenWrite DEF IsOpen, Exists, TaskStatuses, Closed
<1> QED BY <1>1, <1>3, <1>5, CalmWrite

\* RequestAccept leaves an advance intent on the submitted row.
LEMMA RequestAcceptRows ==
    ASSUME LedgerInv, RuntimeInv', NEW t \in Tasks, NEW a \in Agents, NEW A,
           RequestAccept(t, a, A)
    PROVE  LedgerInv' /\ RowsMoved
<1> DEFINE row == [task[t] EXCEPT !.accepted = a, !.pending = "advance",
                                  !.pendRun = task[t].head, !.version = @ + 1,
                                  !.pendVer = task[t].version + 1]
<1>1. /\ ActionAvailable(task[t]) /\ task[t].status = "submitted"
      /\ Kind[t] # "conversation"
      /\ agent[a] = "active"
      /\ Commit(WithTask(Acknowledged(Begin, A), t, row))
      /\ UNCHANGED <<run, agent, project>>
  BY DEF RequestAccept
<1>2. /\ row.status = "submitted" /\ row.run = task[t].run /\ row.pending = "advance"
      /\ row.gen = task[t].gen /\ row.version = task[t].version + 1
      /\ row.pendVer = row.version /\ row.accepted = a
      /\ row.link = task[t].link /\ row.source = task[t].source
      /\ row.srcHead = task[t].srcHead /\ row.srcVer = task[t].srcVer
  BY <1>1, RefTypes DEF TaskRow
<1> HIDE DEF row
<1>3. Wrote(t, row)
  BY <1>1, RefTypes, AcknowledgedRows, CommitWrote
<1>4. Fsm!RowStep(t, "submitted", "submitted") /\ a # None
  BY TableMoves, LedgerAssumption
<1>5. Calm(t, task[t], row)
  BY <1>1, <1>2, <1>4, AvailableRow, OpenWrite DEF IsOpen, Exists, TaskStatuses, Closed
<1> QED BY <1>1, <1>3, <1>5, CalmWrite

\* WakeTask, SendToTask and RetryMessage write no row that they do not wake.
LEMMA WakesRows ==
    ASSUME LedgerInv, RuntimeInv', UNCHANGED <<run, agent, project>>,
           Passes(task, task')
    PROVE  LedgerInv' /\ RowsMoved
BY PassedCalm, CalmStep DEF Passes

\* WakeTask wakes one row.
LEMMA WakeTaskRows ==
    ASSUME LedgerInv, RuntimeInv', NEW t \in Tasks, NEW A, WakeTask(t, A)
    PROVE  LedgerInv' /\ RowsMoved
<1>1. task' = [task EXCEPT ![t] = Woken(task[t])]
  BY DEF WakeTask, Commit
<1>2. Passes(task, task')
  BY <1>1, RefTypes DEF Passes, TypeOK
<1> QED BY <1>2, WakesRows DEF WakeTask

\* A message wakes its task or leaves the rows alone.
LEMMA SendToTaskRows ==
    ASSUME LedgerInv, RuntimeInv', NEW t \in Tasks, NEW wake \in BOOLEAN, NEW A, NEW m,
           SendToTask(t, wake, A, m)
    PROVE  LedgerInv' /\ RowsMoved
<1>1. task' = task \/ task' = [task EXCEPT ![t] = Woken(task[t])]
  BY DEF SendToTask, Commit
<1>2. Passes(task, task')
  BY <1>1, RefTypes DEF Passes, TypeOK
<1> QED BY <1>2, WakesRows DEF SendToTask

\* So does a message that is retried.
LEMMA RetryMessageRows ==
    ASSUME LedgerInv, RuntimeInv', NEW m \in Msgs, RetryMessage(m)
    PROVE  LedgerInv' /\ RowsMoved
<1>1. task' = task \/ task' = [task EXCEPT ![msg[m].task] = Woken(task[msg[m].task])]
  BY DEF RetryMessage
<1>2. Passes(task, task')
  BY <1>1, RefTypes DEF Passes, TypeOK
<1> QED BY <1>2, WakesRows DEF RetryMessage

\* A row that is inserted, other than an integration task.
LEMMA InsertedCalm ==
    ASSUME LedgerInv, NEW t \in Tasks, NEW s \in {"queued", "waiting"},
           task[t].status = "none", Kind[t] # "integration", project = "active",
           Assignee[t] # None => agent[Assignee[t]] # "archived"
    PROVE  Calm(t, task[t], NewTask(s, 1))
<1> DEFINE row == NewTask(s, 1)
<1>1. /\ row.status = s /\ row.run = None /\ row.pending = "none"
      /\ row.link = None /\ row.source = None
  BY DEF NewTask
<1>2. Shaped(t, task[t])
  BY StillRow
<1> HIDE DEF row
<1>3. Exists(row) /\ IsOpen(row) /\ ~Exists(task[t]) /\ ~IsOpen(task[t])
  BY <1>1 DEF Exists, IsOpen, TaskStatuses, Closed
<1>4. Shaped(t, row)
  BY <1>1, <1>3 DEF Shaped
<1>5. Fsm!RowStep(t, "none", s)
  BY TableMoves
<1>6. Moved(t, task[t], row)
  BY <1>1, <1>3, <1>5 DEF Moved
<1>7. Untied(t, task[t], row) /\ Staffed(t, task[t], row) /\ Unclaimed(task[t], row)
  BY <1>1, <1>2, <1>3 DEF Untied, Staffed, Unclaimed, Shaped
<1> QED BY <1>4, <1>6, <1>7 DEF Calm, Steady, row

\* CreateWorkTask inserts a row.
LEMMA CreateWorkTaskRows ==
    ASSUME LedgerInv, RuntimeInv', NEW t \in Tasks, NEW A, CreateWorkTask(t, A)
    PROVE  LedgerInv' /\ RowsMoved
<1>1. PICK s \in {"queued", "waiting"} :
            Commit(WithTask(Acknowledged(Begin, A), t, NewTask(s, 1)))
  BY DEF CreateWorkTask
<1>2. Wrote(t, NewTask(s, 1))
  BY <1>1, RefTypes, AcknowledgedRows, CommitWrote
<1>3. Calm(t, task[t], NewTask(s, 1))
  BY InsertedCalm DEF CreateWorkTask
<1> QED BY <1>2, <1>3, CalmWrite DEF CreateWorkTask

\* A message to an agent without a conversation inserts one.
LEMMA SendToNewConversationRows ==
    ASSUME LedgerInv, RuntimeInv', NEW c \in Tasks, NEW wake \in BOOLEAN, NEW A, NEW m,
           SendToNewConversation(c, wake, A, m)
    PROVE  LedgerInv' /\ RowsMoved
<1>1. PICK s \in {"queued", "waiting"} : task' = [task EXCEPT ![c] = NewTask(s, 1)]
  BY DEF SendToNewConversation, Commit
<1>2. Wrote(c, NewTask(s, 1))
  BY <1>1, RefTypes DEF Wrote, TypeOK
<1>3. Calm(c, task[c], NewTask(s, 1))
  BY InsertedCalm DEF SendToNewConversation
<1> QED BY <1>2, <1>3, CalmWrite DEF SendToNewConversation

\* CompleteTask closes the waiting row of a human.
LEMMA CompleteTaskRows ==
    ASSUME LedgerInv, RuntimeInv', NEW t \in Tasks, CompleteTask(t)
    PROVE  LedgerInv' /\ RowsMoved
<1> DEFINE row == [task[t] EXCEPT !.status = "completed", !.head = None,
                                  !.version = @ + 1]
           tx == WithTask(Begin, t, row)
<1>1. /\ task[t].run = None /\ Assignee[t] = None /\ task[t].status = "waiting"
      /\ task[t].pending = "none"
      /\ \E m \in Slots(tx, t) : Commit(Notified(tx, t, m))
      /\ UNCHANGED <<run, agent, project>>
  BY DEF CompleteTask
<1>2. /\ task[t] \in TaskRow /\ task[t].version \in Nat /\ task[t].gen \in Nat
      /\ Shaped(t, task[t])
  BY RefTypes, StillRow
<1>3. row \in TaskRow
  <2>1. \A v \in Nat : [task[t] EXCEPT !.status = "completed", !.head = None,
                                       !.version = v] \in TaskRow
    BY <1>2 DEF TaskRow, TaskStatuses, Closed
  <2> QED BY <1>2, <2>1, Counters
<1>4. /\ row.status = "completed" /\ row.run = task[t].run /\ row.pending = task[t].pending
      /\ row.gen = task[t].gen /\ row.version = task[t].version + 1
      /\ row.link = task[t].link /\ row.source = task[t].source
      /\ row.srcHead = task[t].srcHead /\ row.srcVer = task[t].srcVer
  BY <1>2 DEF TaskRow
<1>5. Begin \in TxSet /\ Begin.task = task
  BY RefTypes, BeginType DEF Begin
<1> HIDE DEF row
<1>6. Wrote(t, row)
  <2>1. tx \in TxSet
    BY <1>3, <1>5, WithTaskType
  <2>2. Passes(tx.task, task')
    <3> HIDE DEF tx
    <3> QED BY <1>1, <2>1, NotifiedPasses DEF Commit
  <2> QED BY <1>3, <1>4, <1>5, <2>2, WroteOne
<1>7. Kind[t] = "work"
  BY <1>1, LedgerAssumption DEF Kinds
<1>8. Fsm!RowStep(t, "waiting", "completed")
  BY <1>7, TableMoves
<1>9. Calm(t, task[t], row)
  <2>1. task[t].link = None /\ IsOpen(task[t]) /\ Exists(row)
    BY <1>1, <1>2, <1>4 DEF Shaped, IsOpen, Exists, TaskStatuses, Closed
  <2> QED BY <1>1, <1>2, <1>4, <1>7, <1>8, <2>1, OpenWrite
<1> QED BY <1>1, <1>6, <1>9, CalmWrite

\* CloseConversation closes a waiting conversation.
LEMMA CloseConversationRows ==
    ASSUME LedgerInv, RuntimeInv', NEW c \in Tasks, CloseConversation(c)
    PROVE  LedgerInv' /\ RowsMoved
<1> DEFINE row == [task[c] EXCEPT !.status = "completed", !.version = @ + 1]
<1>1. /\ Kind[c] = "conversation" /\ ActionAvailable(task[c])
      /\ task[c].status = "waiting"
      /\ task' = [task EXCEPT ![c] = row]
      /\ UNCHANGED <<run, agent, project>>
  BY RefTypes DEF CloseConversation, TaskRow, TypeOK
<1>2. /\ row.status = "completed" /\ row.run = task[c].run /\ row.pending = task[c].pending
      /\ row.gen = task[c].gen /\ row.version = task[c].version + 1
      /\ row.link = task[c].link /\ row.source = task[c].source
      /\ row.srcHead = task[c].srcHead /\ row.srcVer = task[c].srcVer
  BY RefTypes DEF TaskRow
<1> HIDE DEF row
<1>3. Wrote(c, row)
  BY <1>1, RefTypes DEF Wrote, TypeOK
<1>4. Fsm!RowStep(c, "waiting", "completed")
  BY <1>1, TableMoves
<1>5. Calm(c, task[c], row)
  BY <1>1, <1>2, <1>4, AvailableRow, OpenWrite DEF Exists, TaskStatuses, Closed
<1> QED BY <1>1, <1>3, <1>5, CalmWrite

-----------------------------------------------------------------------------
(* The projections of what Git did.                                        *)

\* What holds of a row while sameCaptureFence does.
LEMMA CaptureRow ==
    ASSUME LedgerInv, NEW t \in Tasks, CaptureFence(t)
    PROVE  /\ task[t].status = "finishing"
           /\ task[t].run # None /\ Terminal(run[task[t].run])
           /\ task[t].link = None
           /\ IsOpen(task[t]) /\ Exists(task[t])
           /\ Kind[t] # "conversation"
           /\ task[t] \in TaskRow
           /\ task[t].version \in Nat /\ task[t].gen \in Nat
<1>1. Shaped(t, task[t]) /\ task[t] \in TaskRow
  BY StillRow, RefTypes
<1> QED BY <1>1, RefTypes
        DEF CaptureFence, Shaped, IsOpen, Exists, TaskStatuses, Closed

\* What holds of a row while sameAdvanceFence does.
LEMMA AdvanceRow ==
    ASSUME LedgerInv, NEW t \in Tasks, AdvanceFence(t)
    PROVE  /\ task[t].status = "submitted" /\ task[t].pending = "advance"
           /\ task[t].run = None /\ task[t].link = None
           /\ IsOpen(task[t]) /\ Exists(task[t])
           /\ Kind[t] # "conversation"
           /\ task[t] \in TaskRow
           /\ task[t].version \in Nat /\ task[t].gen \in Nat
<1>1. Shaped(t, task[t]) /\ task[t] \in TaskRow
  BY StillRow, RefTypes
<1> QED BY <1>1, RefTypes
        DEF AdvanceFence, Shaped, IsOpen, Exists, TaskStatuses, Closed

\* finalizeCapture submits the row of a run that has ended; for an
\* integration task it leaves an advance intent for its own agent.
LEMMA FinalizeCaptureRows ==
    ASSUME LedgerInv, RuntimeInv', NEW t \in Tasks, FinalizeCapture(t)
    PROVE  LedgerInv' /\ RowsMoved
<1> DEFINE base == [task[t] EXCEPT !.status = "submitted", !.run = None,
                                   !.head = task[t].pendRun, !.version = @ + 1]
           row == Cleared(base)
           accept == [row EXCEPT !.accepted = Assignee[t], !.pending = "advance",
                                 !.pendRun = row.head, !.pendVer = row.version]
<1>1. /\ CaptureFence(t)
      /\ UNCHANGED <<run, agent, project>>
      /\ \/ Kind[t] = "integration" /\ Commit(Disposed(WithTask(Begin, t, accept), t))
         \/ Kind[t] # "integration" /\ Settle(WithTask(Begin, t, row), t)
  BY DEF FinalizeCapture
<1>2. /\ task[t].status = "finishing"
      /\ task[t].run # None /\ Terminal(run[task[t].run])
      /\ task[t].link = None /\ IsOpen(task[t]) /\ Exists(task[t])
      /\ Kind[t] # "conversation"
      /\ task[t] \in TaskRow /\ task[t].version \in Nat /\ task[t].gen \in Nat
  BY <1>1, CaptureRow
<1>3. base \in TaskRow
  <2>1. task[t] \in TaskRow
    BY <1>2
  <2>2. \A v \in Nat : [task[t] EXCEPT !.status = "submitted", !.run = None,
                          !.head = task[t].pendRun, !.version = v] \in TaskRow
    BY <2>1 DEF TaskRow, TaskStatuses
  <2> QED BY <1>2, <2>2, Counters
<1>4. row \in TaskRow
  BY <1>3, ClearedType
<1>5. /\ row.status = "submitted" /\ row.run = None /\ row.pending = "none"
      /\ row.gen = task[t].gen /\ row.version = task[t].version + 1
      /\ row.link = task[t].link /\ row.source = task[t].source
      /\ row.srcHead = task[t].srcHead /\ row.srcVer = task[t].srcVer
  BY <1>2 DEF Cleared, TaskRow
<1>6. Begin \in TxSet /\ Begin.task = task
  BY RefTypes, BeginType DEF Begin
<1>7. Fsm!RowStep(t, "finishing", "submitted")
  BY <1>2, TableMoves
<1> HIDE DEF row
<1>8. CASE Kind[t] # "integration"
  <2>1. Wrote(t, row)
    BY <1>1, <1>4, <1>5, <1>6, <1>8, SettleWrote
  <2>2. Calm(t, task[t], row)
    BY <1>2, <1>5, <1>7, OpenWrite DEF Exists, IsOpen, TaskStatuses, Closed
  <2> QED BY <1>1, <2>1, <2>2, CalmWrite
<1>9. CASE Kind[t] = "integration"
  <2>1. Assignee[t] # None /\ Assignee[t] \in Agents
    BY <1>9, LedgerAssumption
  <2>2. accept \in TaskRow
    BY <1>4, <2>1 DEF TaskRow
  <2>3. /\ accept.status = "submitted" /\ accept.run = None
        /\ accept.pending = "advance" /\ accept.pendVer = accept.version
        /\ accept.accepted = Assignee[t]
        /\ accept.gen = task[t].gen /\ accept.version = task[t].version + 1
        /\ accept.link = task[t].link /\ accept.source = task[t].source
        /\ accept.srcHead = task[t].srcHead /\ accept.srcVer = task[t].srcVer
    BY <1>4, <1>5 DEF TaskRow
  <2> HIDE DEF accept
  <2>4. Wrote(t, accept)
    <3>1. WithTask(Begin, t, accept) \in TxSet
      BY <1>6, <2>2, WithTaskType
    <3>2. Passes(WithTask(Begin, t, accept).task, task')
      BY <1>1, <1>9, <3>1, DisposedPasses DEF Commit
    <3> QED BY <1>6, <2>2, <2>3, <3>2, WroteOne
  <2>5. agent[Assignee[t]] # "archived"
    BY <1>2, <2>1 DEF LedgerInv, AgentsPresent
  <2>6. Calm(t, task[t], accept)
    BY <1>2, <1>7, <2>1, <2>3, <2>5, OpenWrite DEF Exists, IsOpen, TaskStatuses, Closed
  <2> QED BY <1>1, <2>4, <2>6, CalmWrite
<1> QED BY <1>8, <1>9

\* projectCaptureFailure queues or fails the row of a run that has ended.
LEMMA ProjectCaptureFailureRows ==
    ASSUME LedgerInv, RuntimeInv', NEW t \in Tasks, NEW invariant \in BOOLEAN,
           ProjectCaptureFailure(t, invariant)
    PROVE  LedgerInv' /\ RowsMoved
<1> DEFINE base == [task[t] EXCEPT !.run = None, !.failure = TRUE, !.version = @ + 1]
           row == Cleared(base)
           next == IF invariant THEN [row EXCEPT !.status = "failed"]
                   ELSE RetryDecision(row)
           from == IF invariant THEN Broken(Begin) ELSE Begin
           tx == WithTask(from, t, next)
<1>1. /\ CaptureFence(t)
      /\ project' = tx.project
      /\ UNCHANGED <<run, agent>>
      /\ Settle(tx, t) \/ Commit(tx)
  BY DEF ProjectCaptureFailure
<1>2. /\ task[t].status = "finishing"
      /\ task[t].run # None /\ Terminal(run[task[t].run])
      /\ task[t].link = None /\ IsOpen(task[t]) /\ Exists(task[t])
      /\ Kind[t] # "conversation"
      /\ task[t] \in TaskRow /\ task[t].version \in Nat /\ task[t].gen \in Nat
  BY <1>1, CaptureRow
<1>3. base \in TaskRow
  <2>1. task[t] \in TaskRow
    BY <1>2
  <2>2. \A v \in Nat : [task[t] EXCEPT !.run = None, !.failure = TRUE,
                                       !.version = v] \in TaskRow
    BY <2>1 DEF TaskRow
  <2> QED BY <1>2, <2>2, Counters
<1>4. row \in TaskRow
  BY <1>3, ClearedType
<1>5. /\ row.run = None /\ row.pending = "none"
      /\ row.gen = task[t].gen /\ row.version = task[t].version + 1
      /\ row.link = task[t].link /\ row.source = task[t].source
      /\ row.srcHead = task[t].srcHead /\ row.srcVer = task[t].srcVer
  BY <1>2 DEF Cleared, TaskRow
<1> HIDE DEF row
<1>6. next \in TaskRow
  <2>1. [row EXCEPT !.status = "failed"] \in TaskRow
    BY <1>4 DEF TaskRow, TaskStatuses
  <2> QED BY <1>4, <2>1, RetryDecisionType
<1>7. /\ next.status \in {"queued", "failed"}
      /\ next.run = None /\ next.pending = "none"
      /\ next.gen = task[t].gen /\ next.version = task[t].version + 1
      /\ next.link = task[t].link /\ next.source = task[t].source
      /\ next.srcHead = task[t].srcHead /\ next.srcVer = task[t].srcVer
  BY <1>4, <1>5 DEF RetryDecision, TaskRow
<1> HIDE DEF next
<1>8. from \in TxSet /\ from.task = task
  <2>1. Begin \in TxSet /\ Begin.task = task
    BY RefTypes, BeginType DEF Begin
  <2>2. Broken(Begin) \in TxSet /\ Broken(Begin).task = task
    BY <2>1, BrokenType DEF Broken, TxSet
  <2> QED BY <2>1, <2>2
<1>9. project' \in {"archived", "deleted"} => project' = project
  <2>1. tx.project = from.project
    BY <1>8 DEF WithTask, TxSet
  <2>2. from.project = project \/ from.project = "error"
    BY DEF Begin, Broken
  <2> QED BY <1>1, <2>1, <2>2
<1> HIDE DEF from
<1>10. Wrote(t, next)
  BY <1>1, <1>6, <1>7, <1>8, SettleWrote, CommitWrote
<1>11. \A s \in {"queued", "failed"} : Fsm!RowStep(t, "finishing", s)
  BY TableMoves
<1>12. Calm(t, task[t], next)
  BY <1>2, <1>7, <1>11, OpenWrite DEF Exists, IsOpen, TaskStatuses, Closed
<1> QED BY <1>1, <1>9, <1>10, <1>12, CalmWrite

\* A stale integration task goes back to the queue; its source waits on.
LEMMA RequeueStaleIntegrationRows ==
    ASSUME LedgerInv, RuntimeInv', NEW t \in Tasks, NEW m \in Msgs,
           RequeueStaleIntegration(t, m)
    PROVE  LedgerInv' /\ RowsMoved
<1> DEFINE row == Cleared([task[t] EXCEPT !.status = "queued", !.run = None,
                                          !.version = @ + 1])
<1>1. /\ AdvanceFence(t)
      /\ task' = [task EXCEPT ![t] = row]
      /\ UNCHANGED <<run, agent, project>>
  BY DEF RequeueStaleIntegration
<1>2. /\ task[t].status = "submitted" /\ task[t].run = None /\ task[t].link = None
      /\ IsOpen(task[t]) /\ Exists(task[t]) /\ Kind[t] # "conversation"
      /\ task[t] \in TaskRow /\ task[t].version \in Nat /\ task[t].gen \in Nat
  BY <1>1, AdvanceRow
<1>3. /\ row.status = "queued" /\ row.run = None /\ row.pending = "none"
      /\ row.gen = task[t].gen /\ row.version = task[t].version + 1
      /\ row.link = task[t].link /\ row.source = task[t].source
      /\ row.srcHead = task[t].srcHead /\ row.srcVer = task[t].srcVer
  BY <1>2 DEF Cleared, TaskRow
<1> HIDE DEF row
<1>4. Wrote(t, row)
  BY <1>1, RefTypes DEF Wrote, TypeOK
<1>5. Fsm!RowStep(t, "submitted", "queued")
  BY <1>2, TableMoves
<1>6. Calm(t, task[t], row)
  BY <1>2, <1>3, <1>5, OpenWrite DEF Exists, IsOpen, TaskStatuses, Closed
<1> QED BY <1>1, <1>4, <1>6, CalmWrite

\* An advance that breaks an invariant of Git fails the row and the project.
LEMMA ProjectAdvanceInvariantFailureRows ==
    ASSUME LedgerInv, RuntimeInv', NEW t \in Tasks, ProjectAdvanceInvariantFailure(t)
    PROVE  LedgerInv' /\ RowsMoved
<1> DEFINE base == [task[t] EXCEPT !.status = "failed", !.failure = TRUE,
                                   !.version = @ + 1]
           row == Cleared(base)
<1>1. /\ AdvanceFence(t)
      /\ project' = Broken(Begin).project
      /\ Settle(WithTask(Broken(Begin), t, row), t)
      /\ UNCHANGED <<run, agent>>
  BY DEF ProjectAdvanceInvariantFailure
<1>2. /\ task[t].status = "submitted" /\ task[t].run = None /\ task[t].link = None
      /\ IsOpen(task[t]) /\ Exists(task[t]) /\ Kind[t] # "conversation"
      /\ task[t] \in TaskRow /\ task[t].version \in Nat /\ task[t].gen \in Nat
  BY <1>1, AdvanceRow
<1>3. row \in TaskRow
  <2>1. \A v \in Nat : [task[t] EXCEPT !.status = "failed", !.failure = TRUE,
                                       !.version = v] \in TaskRow
    BY <1>2 DEF TaskRow, TaskStatuses
  <2> QED BY <1>2, <2>1, Counters, ClearedType
<1>4. /\ row.status = "failed" /\ row.run = None /\ row.pending = "none"
      /\ row.gen = task[t].gen /\ row.version = task[t].version + 1
      /\ row.link = task[t].link /\ row.source = task[t].source
      /\ row.srcHead = task[t].srcHead /\ row.srcVer = task[t].srcVer
  BY <1>2 DEF Cleared, TaskRow
<1> HIDE DEF row
<1>5. Broken(Begin) \in TxSet /\ Broken(Begin).task = task
  BY RefTypes, BeginType, BrokenType DEF Broken, Begin, TxSet
<1>6. Broken(Begin).project = project \/ Broken(Begin).project = "error"
  BY DEF Broken, Begin
<1>7. Wrote(t, row)
  BY <1>1, <1>3, <1>4, <1>5, SettleWrote
<1>8. Fsm!RowStep(t, "submitted", "failed")
  BY <1>2, TableMoves
<1>9. Calm(t, task[t], row)
  BY <1>2, <1>4, <1>8, OpenWrite DEF Exists, IsOpen, TaskStatuses, Closed
<1> QED BY <1>1, <1>6, <1>7, <1>9, CalmWrite

-----------------------------------------------------------------------------
(* The transactions that tie or untie a source and its integration task.   *)

\* The rows of E are closed or unlinked, and nothing outside E was tied to
\* them.
LEMMA TiesCut ==
    ASSUME LedgerInv, TypeOK', RowsShaped', NEW E \in SUBSET Tasks,
           \A c \in Tasks \ E : task'[c] = task[c] \/ Untied(c, task[c], task'[c]),
           \A c \in E : \/ ~IsOpen(task'[c])
                        \/ Kind[c] # "integration" /\ task'[c].link = None,
           \A c \in Tasks \ E : Kind[c] = "integration" /\ IsOpen(task[c])
                                   => task[c].source \notin E,
           \A c \in Tasks \ E : IsOpen(task[c]) => task[c].link \notin E
    PROVE  IntegrationLinked'
<1> USE LedgerAssumption
<1>1. \A c \in Tasks : Shaped(c, task[c]) /\ Shaped(c, task'[c])
  BY DEF LedgerInv, RowsShaped
<1>2. \A c \in Tasks : /\ task[c].link \in Tasks \cup {None}
                       /\ task[c].source \in Tasks \cup {None}
  BY RefTypes
<1>3. ASSUME NEW i \in Tasks, Kind[i] = "integration", IsOpen(task'[i])
      PROVE  SourceFence(task', i)
  <2>1. i \notin E
    BY <1>3
  <2>2. /\ IsOpen(task[i])
        /\ task'[i].source = task[i].source
        /\ task'[i].srcHead = task[i].srcHead
        /\ task'[i].srcVer = task[i].srcVer
    BY <1>3, <2>1 DEF Untied
  <2>3. SourceFence(task, i)
    BY <1>3, <2>2 DEF LedgerInv, IntegrationLinked
  <2> DEFINE s == task[i].source
  <2>4. s \in Tasks \ E /\ task[s].link = i /\ IsOpen(task[s])
    BY <1>2, <1>3, <2>1, <2>2, <2>3 DEF SourceFence, IsOpen, TaskStatuses, Closed
  <2>5. task'[s] = task[s]
    BY <2>4 DEF Untied
  <2> QED BY <2>2, <2>3, <2>5 DEF SourceFence
<1>4. ASSUME NEW c \in Tasks, IsOpen(task'[c]), task'[c].link # None
      PROVE  task'[task'[c].link].source = c /\ IsOpen(task'[task'[c].link])
  <2>1. c \notin E /\ task'[c] = task[c]
    BY <1>4 DEF Untied
  <2> DEFINE i == task[c].link
  <2>2. i \in Tasks \ E /\ Kind[i] = "integration"
    BY <1>1, <1>2, <1>4, <2>1 DEF Shaped
  <2>3. task[i].source = c /\ IsOpen(task[i])
    BY <1>4, <2>1 DEF LedgerInv, IntegrationLinked
  <2>4. task'[i].source = c /\ IsOpen(task'[i])
    BY <2>2, <2>3 DEF Untied
  <2> QED BY <2>1, <2>4
<1> QED BY <1>3, <1>4 DEF IntegrationLinked

\* What integrationSourceFence says of integration task i and its source.
LEMMA SourceRow ==
    ASSUME LedgerInv, NEW i \in Tasks, Kind[i] = "integration", SourceFence(task, i)
    PROVE  LET s == task[i].source IN
           /\ s \in Tasks /\ s # i
           /\ task[s].status = "submitted" /\ task[s].link = i
           /\ IsOpen(task[s]) /\ Exists(task[s])
           /\ task[s].run = None /\ task[s].pending = "none"
           /\ task[s].source = None
           /\ Kind[s] # "integration" /\ Kind[s] # "conversation"
           /\ \A c \in Tasks \ {i, s} :
                 /\ IsOpen(task[c]) => task[c].link \notin {i, s}
                 /\ Kind[c] = "integration" /\ IsOpen(task[c])
                       => task[c].source \notin {i, s}
<1> DEFINE s == task[i].source
<1> USE LedgerAssumption
<1>1. s \in Tasks /\ task[s].status = "submitted" /\ task[s].link = i
  BY RefTypes DEF SourceFence
<1>2. Shaped(i, task[i]) /\ Shaped(s, task[s]) /\ task[s] \in TaskRow
  BY <1>1, StillRow, RefTypes
<1>3. task[s].pending \in {"none", "capture", "advance"} /\ i # None
  BY <1>2 DEF TaskRow
<1>4. /\ Kind[s] # "integration" /\ Kind[s] # "conversation" /\ s # i
      /\ IsOpen(task[s]) /\ Exists(task[s])
      /\ task[s].run = None /\ task[s].source = None
  BY <1>1, <1>2 DEF Shaped, IsOpen, Exists, TaskStatuses, Closed
<1>5. task[s].pending = "none"
  BY <1>1, <1>2, <1>3 DEF Shaped
<1>6. ASSUME NEW c \in Tasks \ {i, s}
      PROVE  /\ IsOpen(task[c]) => task[c].link \notin {i, s}
             /\ Kind[c] = "integration" /\ IsOpen(task[c]) => task[c].source \notin {i, s}
  <2>1. Shaped(c, task[c])
    BY StillRow
  <2>2. ASSUME IsOpen(task[c]), task[c].link \in {i, s} PROVE FALSE
    <3>1. task[c].link = i
      BY <1>1, <1>4, <2>1, <2>2 DEF Shaped
    <3>2. task[i].source = c
      BY <1>3, <2>2, <3>1 DEF LedgerInv, IntegrationLinked
    <3> QED BY <3>2
  <2>3. ASSUME Kind[c] = "integration", IsOpen(task[c]), task[c].source \in {i, s}
        PROVE  FALSE
    <3>1. SourceFence(task, c)
      BY <2>3 DEF LedgerInv, IntegrationLinked
    <3>2. task[c].source = s
      BY <2>1, <2>3 DEF Shaped
    <3> QED BY <1>1, <3>1, <3>2 DEF SourceFence
  <2> QED BY <2>2, <2>3
<1> QED BY <1>1, <1>4, <1>5, <1>6

\* Two rows that were tied together, t and its source s, are written and
\* closed or untied, and claims are kept.
LEMMA CutStep ==
    ASSUME LedgerInv, RuntimeInv', UNCHANGED <<agent, project>>,
           OwnersAgree', RunsAnswered', FencingTokensUnique',
           NEW t \in Tasks, Kind[t] = "integration", SourceFence(task, t),
           NEW s \in Tasks, s = task[t].source,
           \A c \in Tasks \ {t, s} : task'[c] \in {task[c], Woken(task[c])},
           Shaped(t, task'[t]), ~IsOpen(task'[t]),
           Moved(t, task[t], task'[t]), task'[t].pending # "advance",
           Shaped(s, task'[s]), Moved(s, task[s], task'[s]), task'[s].pending # "advance",
           ~IsOpen(task'[s]) \/ task'[s].link = None
    PROVE  LedgerInv' /\ RowsMoved
<1>1. TypeOK'
  BY DEF RuntimeInv
<1>2. \A c \in Tasks \ {t, s} : task'[c] = task[c] \/ Calm(c, task[c], task'[c])
  BY PassedCalm
<1>3. /\ Kind[s] # "integration" /\ IsOpen(task[s])
      /\ \A c \in Tasks \ {t, s} :
            /\ IsOpen(task[c]) => task[c].link \notin {t, s}
            /\ Kind[c] = "integration" /\ IsOpen(task[c]) => task[c].source \notin {t, s}
  BY SourceRow
<1>4. RowsShaped' /\ RowsMoved
  BY <1>2, StillRow DEF RowsShaped, RowsMoved, Calm, Steady
<1>5. IntegrationLinked'
  <2> DEFINE E == {t, s}
  <2>1. \A c \in Tasks \ E : task'[c] = task[c] \/ Untied(c, task[c], task'[c])
    BY <1>2 DEF Calm, Steady
  <2>2. \A c \in E : \/ ~IsOpen(task'[c])
                     \/ Kind[c] # "integration" /\ task'[c].link = None
    BY <1>3
  <2>3. /\ \A c \in Tasks \ E : Kind[c] = "integration" /\ IsOpen(task[c])
                                   => task[c].source \notin E
        /\ \A c \in Tasks \ E : IsOpen(task[c]) => task[c].link \notin E
        /\ E \in SUBSET Tasks
    BY <1>3
  <2> HIDE DEF E
  <2> QED BY <1>1, <1>4, <2>1, <2>2, <2>3, TiesCut
<1>6. AgentsPresent' /\ BooksClosed'
  <2>1. \A c \in Tasks : task'[c] = task[c] \/ Staffed(c, task[c], task'[c])
    BY <1>2, <1>3 DEF Calm, Steady, Staffed
  <2> QED BY <2>1, StaffKept
<1> QED BY <1>4, <1>5, <1>6 DEF LedgerInv

\* A completed row whose run is gone.
LEMMA CompletedRow ==
    ASSUME LedgerInv, NEW t \in Tasks, task[t].status = "submitted",
           Kind[t] # "conversation"
    PROVE  LET row == Completed(task[t])
               done == Cleared(row)
           IN  /\ row \in TaskRow /\ done \in TaskRow
               /\ row.status = "completed" /\ done.status = "completed"
               /\ row.run = None /\ done.run = None
               /\ row.gen = task[t].gen /\ done.gen = task[t].gen
               /\ row.version = task[t].version + 1 /\ done.version = task[t].version + 1
               /\ row.pending = task[t].pending /\ done.pending = "none"
               /\ row.link = task[t].link /\ done.link = task[t].link
               /\ row.source = task[t].source /\ done.source = task[t].source
               /\ row.srcHead = task[t].srcHead /\ done.srcHead = task[t].srcHead
               /\ row.srcVer = task[t].srcVer /\ done.srcVer = task[t].srcVer
               /\ Moved(t, task[t], row) /\ Moved(t, task[t], done)
               /\ Unclaimed(task[t], row) /\ Unclaimed(task[t], done)
               /\ ~IsOpen(row) /\ ~IsOpen(done)
<1> DEFINE row == Completed(task[t])
           done == Cleared(row)
<1>1. task[t] \in TaskRow /\ task[t].version \in Nat /\ task[t].gen \in Nat
  BY RefTypes
<1>2. task[t].run = None
  BY StillRow DEF Shaped
<1>3. row \in TaskRow /\ done \in TaskRow
  BY <1>1, CompletedType, ClearedType
<1>4. /\ row.status = "completed" /\ row.run = None /\ row.gen = task[t].gen
      /\ row.version = task[t].version + 1 /\ row.pending = task[t].pending
      /\ row.link = task[t].link /\ row.source = task[t].source
      /\ row.srcHead = task[t].srcHead /\ row.srcVer = task[t].srcVer
  BY <1>1, <1>2 DEF Completed, TaskRow
<1>5. /\ done.status = row.status /\ done.run = row.run /\ done.gen = row.gen
      /\ done.version = row.version /\ done.pending = "none"
      /\ done.link = row.link /\ done.source = row.source
      /\ done.srcHead = row.srcHead /\ done.srcVer = row.srcVer
  <2> HIDE DEF row
  <2> QED BY <1>3 DEF Cleared, TaskRow
<1>6. Fsm!RowStep(t, "submitted", "completed")
  BY TableMoves
<1> HIDE DEF row, done
<1>7. Moved(t, task[t], row) /\ Moved(t, task[t], done)
  BY <1>1, <1>4, <1>5, <1>6 DEF Moved
<1>8. /\ Unclaimed(task[t], row) /\ Unclaimed(task[t], done)
      /\ ~IsOpen(row) /\ ~IsOpen(done)
  BY <1>1, <1>2, <1>4, <1>5 DEF Unclaimed, Exists, IsOpen, TaskStatuses, Closed
<1> QED BY <1>3, <1>4, <1>5, <1>7, <1>8 DEF row, done

\* finalizeSuccessfulAdvance completes a row, and the source of an
\* integration task with it.
LEMMA FinalizeSuccessfulAdvanceRows ==
    ASSUME LedgerInv, RuntimeInv', NEW t \in Tasks, FinalizeSuccessfulAdvance(t)
    PROVE  LedgerInv' /\ RowsMoved
<1> DEFINE row == Cleared(Completed(task[t]))
<1>1. /\ AdvanceFence(t) /\ UNCHANGED <<run, agent, project>>
  BY DEF FinalizeSuccessfulAdvance
<1>2. /\ task[t].status = "submitted" /\ task[t].run = None /\ task[t].link = None
      /\ IsOpen(task[t]) /\ Exists(task[t]) /\ Kind[t] # "conversation"
      /\ task[t].version \in Nat /\ task[t].gen \in Nat
  BY <1>1, AdvanceRow
<1>3. /\ row \in TaskRow
      /\ row.status = "completed" /\ row.run = None /\ row.pending = "none"
      /\ row.gen = task[t].gen /\ row.version = task[t].version + 1
      /\ row.link = task[t].link /\ row.source = task[t].source
      /\ row.srcHead = task[t].srcHead /\ row.srcVer = task[t].srcVer
      /\ Moved(t, task[t], row) /\ Unclaimed(task[t], row) /\ ~IsOpen(row)
  BY <1>2, CompletedRow
<1>4. Begin \in TxSet /\ Begin.task = task
  BY RefTypes, BeginType DEF Begin
<1>5. CASE Kind[t] # "integration"
  <2>1. Settle(WithTask(Begin, t, row), t)
    BY <1>5 DEF FinalizeSuccessfulAdvance
  <2> HIDE DEF row
  <2>2. Wrote(t, row)
    BY <1>3, <1>4, <2>1, SettleWrote
  <2>3. Calm(t, task[t], row)
    BY <1>2, <1>3, <1>5, OpenWrite DEF Moved, Exists, TaskStatuses, Closed
  <2> QED BY <1>1, <2>2, <2>3, CalmWrite
<1>6. CASE Kind[t] = "integration"
  <2> DEFINE s == task[t].source
             end == Completed(task[s])
             first == WithTask(Begin, s, end)
             src == Disposed(first, s)
  <2>1. SourceFence(task, t)
    BY <1>6 DEF FinalizeSuccessfulAdvance
  <2>2. /\ s \in Tasks /\ s # t /\ task[s].status = "submitted"
        /\ task[s].pending = "none" /\ Kind[s] # "conversation"
    BY <1>6, <2>1, SourceRow
  <2>3. PICK m \in Slots(src, s) :
             Commit(Disposed(WithTask(Notified(src, s, m), t, row), t))
    BY <1>6 DEF FinalizeSuccessfulAdvance
  <2>4. /\ end \in TaskRow
        /\ end.status = "completed" /\ end.run = None /\ end.pending = "none"
        /\ end.link = task[s].link /\ end.source = task[s].source
        /\ Moved(s, task[s], end) /\ Unclaimed(task[s], end) /\ ~IsOpen(end)
    BY <2>2, CompletedRow
  <2> HIDE DEF s, end, row
  <2> DEFINE noted == Notified(src, s, m)
             both == WithTask(noted, t, row)
  <2>5. first \in TxSet /\ first.task = [task EXCEPT ![s] = end]
    BY <1>4, <2>2, <2>4, WithTaskType DEF WithTask, TxSet
  <2>6. src \in TxSet /\ Passes(first.task, src.task)
    <3> HIDE DEF first
    <3> QED BY <2>2, <2>5, DisposedType, DisposedPasses
  <2> HIDE DEF src
  <2>7. noted \in TxSet /\ Passes(src.task, noted.task)
    BY <2>2, <2>6, NotifiedType, NotifiedPasses
  <2>8. Passes(first.task, noted.task)
    <3>1. first.task \in [Tasks -> TaskRow]
      BY <2>5 DEF TxSet
    <3> HIDE DEF noted, first
    <3> QED BY <2>6, <2>7, <3>1, PassesTwice
  <2> HIDE DEF noted
  <2>9. both \in TxSet /\ both.task = [noted.task EXCEPT ![t] = row]
    BY <1>3, <2>7, WithTaskType DEF WithTask, TxSet
  <2>10. Passes(both.task, task')
    <3> HIDE DEF both
    <3>1. Passes(both.task, Disposed(both, t).task)
      BY <2>9, DisposedPasses
    <3>2. task' = Disposed(both, t).task
      BY <2>3 DEF Commit, both, noted
    <3> QED BY <3>1, <3>2
  <2> HIDE DEF first, both
  <2>11. \A c \in Tasks : /\ noted.task[c] \in {first.task[c], Woken(first.task[c])}
                          /\ task'[c] \in {both.task[c], Woken(both.task[c])}
    BY <2>8, <2>10 DEF Passes
  <2>12. task \in [Tasks -> TaskRow] /\ noted.task \in [Tasks -> TaskRow]
    BY <1>4, <2>7 DEF TxSet
  <2>13. Woken(row) = row /\ Woken(end) = end
    BY <1>3, <2>4, WokenRow
  <2>14. task'[t] = row
    BY <2>9, <2>11, <2>12, <2>13
  <2>15. task'[s] = end
    <3>1. first.task[s] = end
      BY <2>2, <2>5, <2>12
    <3>2. noted.task[s] = end
      BY <2>2, <2>11, <2>13, <3>1
    <3>3. both.task[s] = end
      BY <2>2, <2>9, <2>12, <3>2
    <3> QED BY <2>2, <2>11, <2>13, <3>3
  <2>16. ASSUME NEW c \in Tasks \ {t, s} PROVE task'[c] \in {task[c], Woken(task[c])}
    <3>1. first.task[c] = task[c]
      BY <2>2, <2>5, <2>12
    <3>2. both.task[c] = noted.task[c]
      BY <2>9, <2>12
    <3>3. Woken(Woken(task[c])) = Woken(task[c])
      BY <2>12, WokenTwice
    <3> QED BY <2>11, <3>1, <3>2, <3>3
  <2>17. Shaped(t, row) /\ Shaped(s, end)
    <3>1. Shaped(t, task[t]) /\ Shaped(s, task[s]) /\ Exists(row) /\ Exists(end)
      BY <1>3, <2>2, <2>4, StillRow DEF Exists, TaskStatuses, Closed
    <3>2. Shaped(t, row)
      BY <1>3, <3>1 DEF Shaped
    <3>3. Shaped(s, end)
      BY <2>4, <3>1 DEF Shaped
    <3> QED BY <3>2, <3>3
  <2>18. OwnersAgree' /\ RunsAnswered' /\ FencingTokensUnique'
    <3>1. \A c \in Tasks : task'[c] = task[c] \/ Unclaimed(task[c], task'[c])
      BY <1>3, <2>4, <2>14, <2>15, <2>16, PassedCalm DEF Calm
    <3> QED BY <1>1, <3>1, ClaimsKept DEF RuntimeInv
  <2>19. s = task[t].source
    BY DEF s
  <2> QED BY <1>1, <1>3, <1>6, <2>1, <2>2, <2>4, <2>14, <2>15, <2>16, <2>17, <2>18,
             <2>19, CutStep
<1> QED BY <1>5, <1>6

\* finalizeStaleAdvance ties a new integration task to the stale result.
LEMMA CreateIntegrationRows ==
    ASSUME LedgerInv, RuntimeInv', NEW t \in Tasks, NEW i \in Tasks, NEW m \in Msgs,
           CreateIntegration(t, i, m)
    PROVE  LedgerInv' /\ RowsMoved
<1> DEFINE row == Cleared([task[t] EXCEPT !.link = i, !.version = @ + 1])
           made == [NewTask("queued", 1) EXCEPT
                      !.source = t, !.srcHead = task[t].head, !.srcVer = row.version]
<1> USE LedgerAssumption
<1>1. /\ AdvanceFence(t) /\ project = "active"
      /\ Kind[t] # "integration" /\ Kind[i] = "integration"
      /\ agent[task[t].accepted] # "archived"
      /\ task[i].status = "none"
      /\ Assignee[i] = task[t].accepted
      /\ task' = [task EXCEPT ![t] = row, ![i] = made]
      /\ UNCHANGED <<run, agent, project>>
  BY DEF CreateIntegration
<1>2. /\ task[t].status = "submitted" /\ task[t].run = None /\ task[t].link = None
      /\ IsOpen(task[t]) /\ Exists(task[t]) /\ Kind[t] # "conversation"
      /\ task[t] \in TaskRow /\ task[t].version \in Nat /\ task[t].gen \in Nat
  BY <1>1, AdvanceRow
<1>3. /\ row.status = "submitted" /\ row.run = None /\ row.pending = "none"
      /\ row.gen = task[t].gen /\ row.version = task[t].version + 1
      /\ row.link = i /\ row.source = task[t].source
      /\ row.head = task[t].head /\ row.accepted = task[t].accepted
  BY <1>2 DEF Cleared, TaskRow
<1>4. /\ made.status = "queued" /\ made.run = None /\ made.pending = "none"
      /\ made.link = None /\ made.source = t
      /\ made.srcHead = task[t].head /\ made.srcVer = row.version
  BY DEF NewTask
<1>5. i # t /\ i # None
  BY <1>1
<1>6. task'[t] = row /\ task'[i] = made /\ \A c \in Tasks \ {t, i} : task'[c] = task[c]
  BY <1>1, <1>5, RefTypes DEF TypeOK
<1> HIDE DEF row, made
<1>7. Exists(row) /\ IsOpen(row) /\ Exists(made) /\ IsOpen(made)
      /\ ~Exists(task[i]) /\ ~IsOpen(task[i])
  BY <1>1, <1>3, <1>4 DEF Exists, IsOpen, TaskStatuses, Closed
<1>8. Shaped(t, task[t]) /\ Shaped(i, task[i])
  BY StillRow
<1>9. Shaped(t, row)
  BY <1>1, <1>2, <1>3, <1>7, <1>8 DEF Shaped
<1>10. Shaped(i, made)
  BY <1>1, <1>4, <1>7 DEF Shaped
<1>11. RowsShaped'
  BY <1>6, <1>9, <1>10, StillRow DEF RowsShaped
<1>12. RowsMoved
  <2>1. Fsm!RowStep(i, "none", "queued") /\ Fsm!RowStep(t, "submitted", "submitted")
    BY TableMoves
  <2>2. Moved(t, task[t], row) /\ Moved(i, task[i], made)
    BY <1>1, <1>2, <1>3, <1>4, <1>7, <2>1 DEF Moved
  <2> QED BY <1>6, <2>2, StillRow DEF RowsMoved
<1>13. OwnersAgree' /\ RunsAnswered' /\ FencingTokensUnique'
  <2>1. Unclaimed(task[t], row) /\ Unclaimed(task[i], made)
    BY <1>2, <1>3, <1>4, <1>7, <1>8 DEF Unclaimed, Shaped
  <2> QED BY <1>1, <1>6, <2>1, ClaimsKept DEF RuntimeInv
<1>14. AgentsPresent' /\ BooksClosed'
  <2>1. Staffed(t, task[t], row) /\ Staffed(i, task[i], made)
    BY <1>1, <1>2, <1>3, <1>4 DEF Staffed
  <2> QED BY <1>1, <1>6, <2>1, StaffKept
<1>15. IntegrationLinked'
  <2>1. ASSUME NEW j \in Tasks, Kind[j] = "integration", IsOpen(task'[j])
        PROVE  SourceFence(task', j)
    <3>1. CASE j = i
      <4>1. task'[i].source = t /\ task'[i].srcVer = row.version
            /\ task'[i].srcHead = task[t].head
        BY <1>4, <1>6
      <4> QED BY <1>1, <1>3, <1>5, <1>6, <3>1, <4>1 DEF SourceFence
    <3>2. CASE j # i
      <4>1. j # t /\ task'[j] = task[j]
        BY <1>1, <1>6, <2>1, <3>2
      <4>2. SourceFence(task, j)
        BY <2>1, <4>1 DEF LedgerInv, IntegrationLinked
      <4> DEFINE s == task[j].source
      <4>3. s \in Tasks /\ task[s].status = "submitted" /\ task[s].link = j
        BY <4>2, RefTypes DEF SourceFence
      <4>4. s # t /\ s # i
        BY <1>1, <1>2, <4>3
      <4>5. task'[s] = task[s]
        BY <1>6, <4>3, <4>4
      <4> QED BY <4>1, <4>2, <4>5 DEF SourceFence
    <3> QED BY <3>1, <3>2
  <2>2. ASSUME NEW c \in Tasks, IsOpen(task'[c]), task'[c].link # None
        PROVE  task'[task'[c].link].source = c /\ IsOpen(task'[task'[c].link])
    <3>1. CASE c = t
      BY <1>3, <1>4, <1>6, <1>7, <3>1
    <3>2. CASE c # t
      <4>1. c # i /\ task'[c] = task[c]
        BY <1>4, <1>6, <2>2, <3>2
      <4> DEFINE j == task[c].link
      <4>2. j \in Tasks /\ Kind[j] = "integration"
        BY <2>2, <4>1, RefTypes, StillRow DEF Shaped
      <4>3. task[j].source = c /\ IsOpen(task[j])
        BY <2>2, <4>1 DEF LedgerInv, IntegrationLinked
      <4>4. task'[j] = task[j]
        BY <1>1, <1>6, <1>7, <4>2, <4>3
      <4> QED BY <4>1, <4>3, <4>4
    <3> QED BY <3>1, <3>2
  <2> QED BY <2>1, <2>2 DEF IntegrationLinked
<1> QED BY <1>11, <1>12, <1>13, <1>14, <1>15 DEF LedgerInv

-----------------------------------------------------------------------------
(* The transactions that write a run.                                      *)

\* The current run of a live run's task, seen from the run.
LEMMA LiveRow ==
    ASSUME LedgerInv, NEW r \in Runs, Live(run[r])
    PROVE  LET t == run[r].task IN
           /\ t \in Tasks /\ task[t].run = r /\ Exists(task[t])
           /\ Owns(t, task[t], run[r]) /\ Recorded(run[r])
           /\ Shaped(t, task[t]) /\ task[t] \in TaskRow /\ run[r] \in RunRow
           /\ task[t].version \in Nat /\ task[t].gen \in Nat
<1>1. Recorded(run[r]) /\ run[r].state # "none"
  BY DEF Live, Recorded
<1>2. run[r].task \in Tasks /\ run[r] \in RunRow
  BY <1>1, RefTypes
<1>3. task[run[r].task].run = r /\ Exists(task[run[r].task])
  BY <1>1 DEF LedgerInv, RunsAnswered
<1>4. Owns(run[r].task, task[run[r].task], run[r])
  BY <1>2, <1>3, RefTypes DEF LedgerInv, OwnersAgree
<1> QED BY <1>1, <1>2, <1>3, <1>4, StillRow, RefTypes

\* The run that a row records.
LEMMA OwnerRow ==
    ASSUME LedgerInv, NEW t \in Tasks, task[t].run # None
    PROVE  LET r == task[t].run IN
           /\ r \in Runs /\ Owns(t, task[t], run[r]) /\ run[r].task = t
           /\ Recorded(run[r]) /\ run[r] \in RunRow
<1>1. task[t].run \in Runs /\ Owns(t, task[t], run[task[t].run])
  BY RefTypes DEF LedgerInv, OwnersAgree
<1> QED BY <1>1, RefTypes DEF Owns, Recorded, Live, Terminal, AllTerminal

\* ClaimNext gives the queued row its run, under a generation of its own.
LEMMA ClaimNextRows ==
    ASSUME LedgerInv, RuntimeInv', NEW t \in Tasks, NEW r \in Runs, ClaimNext(t, r)
    PROVE  LedgerInv' /\ RowsMoved
<1> DEFINE row == [task[t] EXCEPT !.gen = @ + 1, !.run = r, !.version = @ + 1]
           new == [NoRun EXCEPT !.state = "starting", !.task = t,
                                !.gen = task[t].gen + 1]
<1> USE LedgerAssumption
<1>1. /\ run[r].state = "none" /\ task[t].status = "queued" /\ task[t].run = None
      /\ task' = [task EXCEPT ![t] = row]
      /\ run' = [run EXCEPT ![r] = new]
      /\ UNCHANGED <<msg, agent, project>>
  BY RefTypes DEF ClaimNext, NextGeneration, TypeOK, TaskRow
<1>2. /\ task[t] \in TaskRow /\ task[t].version \in Nat /\ task[t].gen \in Nat
      /\ Shaped(t, task[t])
  BY RefTypes, StillRow
<1>3. /\ row.status = "queued" /\ row.run = r /\ row.pending = task[t].pending
      /\ row.gen = task[t].gen + 1 /\ row.version = task[t].version + 1
      /\ row.link = task[t].link /\ row.source = task[t].source
      /\ row.srcHead = task[t].srcHead /\ row.srcVer = task[t].srcVer
      /\ row.accepted = task[t].accepted
  BY <1>1, <1>2 DEF TaskRow
<1>4. /\ new.state = "starting" /\ new.task = t /\ new.gen = task[t].gen + 1
      /\ new.outcome = "none"
  BY DEF NoRun
<1>5. new \in RunRow
  <2>1. task[t].gen + 1 \in Nat
    BY <1>2
  <2>2. \A g \in Nat : [NoRun EXCEPT !.state = "starting", !.task = t, !.gen = g] \in RunRow
    BY DEF NoRun, RunRow
  <2> QED BY <2>1, <2>2
<1> HIDE DEF row, new
<1>6. Wrote(t, row)
  BY <1>1, RefTypes DEF Wrote, TypeOK
<1>7. task[t].pending = "none" /\ task[t].link = None
  <2>1. task[t].pending \in {"none", "capture", "advance"}
    BY <1>2 DEF TaskRow
  <2> QED BY <1>1, <1>2, <2>1 DEF Shaped
<1>8. IsOpen(row) /\ IsOpen(task[t]) /\ Exists(row)
  BY <1>1, <1>3 DEF IsOpen, Exists, TaskStatuses, Closed
<1>9. Steady(t, task[t], row)
  <2>1. Shaped(t, row)
    BY <1>2, <1>3, <1>7, <1>8 DEF Shaped
  <2>2. Moved(t, task[t], row)
    BY <1>1, <1>2, <1>3, TableMoves DEF Moved
  <2>3. Untied(t, task[t], row) /\ Staffed(t, task[t], row)
    BY <1>3, <1>7, <1>8 DEF Untied, Staffed
  <2> QED BY <2>1, <2>2, <2>3 DEF Steady
<1>10. Owns(t, row, new) /\ Recorded(new)
  BY <1>3, <1>4, <1>7 DEF Owns, Live, Recorded
<1>11. /\ row.gen >= task[t].gen /\ new.gen = task[t].gen + 1 /\ row.gen = new.gen
       /\ task[t].run \in {None, r} /\ row.run \in {None, r}
       /\ agent' = agent /\ project' = project
  BY <1>1, <1>2, <1>3, <1>4
<1> QED BY <1>1, <1>3, <1>4, <1>5, <1>6, <1>8, <1>9, <1>10, <1>11, ClaimStep

\* A step that writes a run's own columns, and no task.
LEMMA RunOnlyRows ==
    ASSUME LedgerInv, RuntimeInv', UNCHANGED <<task, agent, project>>,
           NEW r \in Runs, NEW new \in RunRow, run' = [run EXCEPT ![r] = new],
           Recorded(run[r]), new.state = run[r].state, new.task = run[r].task,
           new.gen = run[r].gen, new.outcome = run[r].outcome,
           run[r].revoked => new.revoked
    PROVE  LedgerInv' /\ RowsMoved
<1> DEFINE t == run[r].task
<1> USE LedgerAssumption
<1>1. t \in Tasks /\ Exists(task[t]) /\ task[t].gen \in Nat
  BY RefTypes DEF Recorded, LedgerInv, RunsAnswered
<1>2. RowsShaped' /\ RowsMoved /\ IntegrationLinked' /\ AgentsPresent' /\ BooksClosed'
  <2>1. RowsShaped' /\ AgentsPresent' /\ BooksClosed'
    BY DEF LedgerInv, RowsShaped, AgentsPresent, BooksClosed
  <2>2. IntegrationLinked'
    BY DEF LedgerInv, IntegrationLinked, SourceFence
  <2> QED BY <2>1, <2>2, StillRow DEF RowsMoved
<1>3. run'[r] = new /\ \A x \in Runs \ {r} : run'[x] = run[x]
  BY RefTypes DEF TypeOK
<1>4. \A x \in Runs : /\ run'[x].state = run[x].state /\ run'[x].task = run[x].task
                      /\ run'[x].gen = run[x].gen /\ run'[x].outcome = run[x].outcome
                      /\ run[x].revoked => run'[x].revoked
  BY <1>3
<1>5. OwnersAgree'
  <2> SUFFICES ASSUME NEW c \in Tasks, task[c].run # None
               PROVE  Owns(c, task[c], run'[task[c].run])
    BY DEF OwnersAgree
  <2> QED BY <1>4, OwnerRow DEF Owns, Live, Terminal
<1>6. RunsAnswered' /\ FencingTokensUnique'
  BY <1>4 DEF LedgerInv, RunsAnswered, FencingTokensUnique, Recorded, Live
<1> QED BY <1>2, <1>5, <1>6 DEF LedgerInv

\* The steps that write a run's own columns.
LEMMA RunColumnsRows ==
    ASSUME LedgerInv, RuntimeInv', NEW r \in Runs,
           \/ BeginRunLaunch(r)
           \/ RequestRunStop(r)
           \/ \E c \in {"pending", "blocked", "removed"} : RecordRunCleanup(r, c)
    PROVE  LedgerInv' /\ RowsMoved
<1>1. run[r] \in RunRow
  BY RefTypes
<1>2. CASE BeginRunLaunch(r)
  <2> DEFINE new == [run[r] EXCEPT !.prepared = TRUE, !.cleanup = "pending"]
  <2>1. /\ new \in RunRow /\ new.state = run[r].state /\ new.task = run[r].task
        /\ new.gen = run[r].gen /\ new.outcome = run[r].outcome
        /\ new.revoked = run[r].revoked
    BY <1>1 DEF RunRow
  <2>2. run' = [run EXCEPT ![r] = new] /\ Recorded(run[r])
    BY <1>2, RefTypes DEF BeginRunLaunch, Recorded, TypeOK
  <2> HIDE DEF new
  <2> QED BY <1>2, <2>1, <2>2, RunOnlyRows DEF BeginRunLaunch
<1>3. CASE RequestRunStop(r)
  <2> DEFINE new == StopRequested(run[r])
  <2>1. /\ new \in RunRow /\ new.state = run[r].state /\ new.task = run[r].task
        /\ new.gen = run[r].gen /\ new.outcome = run[r].outcome /\ new.revoked
    BY <1>1 DEF RunRow, StopRequested
  <2>2. run' = [run EXCEPT ![r] = new] /\ Recorded(run[r])
    BY <1>3, RefTypes DEF RequestRunStop, Recorded, Live, TypeOK
  <2> HIDE DEF new
  <2> QED BY <1>3, <2>1, <2>2, RunOnlyRows DEF RequestRunStop
<1>4. CASE \E c \in {"pending", "blocked", "removed"} : RecordRunCleanup(r, c)
  <2> PICK c \in {"pending", "blocked", "removed"} : RecordRunCleanup(r, c)
    BY <1>4
  <2> DEFINE new == [run[r] EXCEPT !.cleanup = c]
  <2>1. /\ new \in RunRow /\ new.state = run[r].state /\ new.task = run[r].task
        /\ new.gen = run[r].gen /\ new.outcome = run[r].outcome
        /\ new.revoked = run[r].revoked
    BY <1>1 DEF RunRow
  <2>2. run' = [run EXCEPT ![r] = new] /\ Recorded(run[r])
    BY RefTypes DEF RecordRunCleanup, Recorded, TypeOK
  <2> HIDE DEF new
  <2> QED BY <2>1, <2>2, RunOnlyRows DEF RecordRunCleanup
<1> QED BY <1>2, <1>3, <1>4

\* ObserveProcessAndActivateRun puts a claimed row to running.
LEMMA ActivateRows ==
    ASSUME LedgerInv, RuntimeInv', NEW r \in Runs, ObserveProcessAndActivateRun(r)
    PROVE  LedgerInv' /\ RowsMoved
<1> DEFINE t == run[r].task
           row == [task[t] EXCEPT !.status = "running", !.version = @ + 1]
           new == [run[r] EXCEPT !.state = "active"]
<1> USE LedgerAssumption
<1>1. /\ Live(run[r]) /\ task[t].status = "queued"
      /\ UNCHANGED <<msg, agent, project>>
  BY DEF ObserveProcessAndActivateRun, ClaimHolds, Live
<1>2. /\ t \in Tasks /\ task[t].run = r
      /\ Owns(t, task[t], run[r]) /\ Recorded(run[r])
      /\ Shaped(t, task[t]) /\ task[t] \in TaskRow /\ run[r] \in RunRow
      /\ task[t].version \in Nat /\ task[t].gen \in Nat
  BY <1>1, LiveRow
<1>3. task' = [task EXCEPT ![t] = row] /\ run' = [run EXCEPT ![r] = new]
  BY <1>2, RefTypes DEF ObserveProcessAndActivateRun, TypeOK, TaskRow, RunRow
<1>4. /\ row.status = "running" /\ row.run = r /\ row.pending = task[t].pending
      /\ row.gen = task[t].gen /\ row.version = task[t].version + 1
      /\ row.link = task[t].link /\ row.source = task[t].source
      /\ row.srcHead = task[t].srcHead /\ row.srcVer = task[t].srcVer
      /\ row.accepted = task[t].accepted
  BY <1>2 DEF TaskRow
<1>5. /\ new \in RunRow /\ new.state = "active" /\ new.task = t
      /\ new.gen = run[r].gen /\ new.outcome = run[r].outcome
  BY <1>2 DEF RunRow
<1> HIDE DEF t, row, new
<1>6. Wrote(t, row)
  BY <1>2, <1>3, RefTypes DEF Wrote, TypeOK
<1>7. task[t].pending = "none" /\ task[t].link = None
  <2>1. task[t].pending \in {"none", "capture", "advance"}
    BY <1>2 DEF TaskRow
  <2> QED BY <1>1, <1>2, <2>1 DEF Shaped
<1>8. IsOpen(row) /\ IsOpen(task[t]) /\ Exists(row)
  BY <1>1, <1>4 DEF IsOpen, Exists, TaskStatuses, Closed
<1>9. Steady(t, task[t], row)
  <2>1. Shaped(t, row)
    BY <1>2, <1>4, <1>7, <1>8 DEF Shaped
  <2>2. Moved(t, task[t], row)
    BY <1>1, <1>2, <1>4, TableMoves DEF Moved
  <2>3. Untied(t, task[t], row) /\ Staffed(t, task[t], row)
    BY <1>4, <1>7, <1>8 DEF Untied, Staffed
  <2> QED BY <2>1, <2>2, <2>3 DEF Steady
<1>10. Owns(t, row, new) /\ Recorded(new)
  BY <1>1, <1>2, <1>4, <1>5, <1>7 DEF Owns, Live, Recorded
<1>11. /\ row.gen >= task[t].gen /\ agent' = agent /\ project' = project
       /\ task[t].run \in {None, r} /\ row.run \in {None, r} /\ row.run = r
       /\ run[r].task = t
  BY <1>1, <1>2, <1>4 DEF t
<1> QED BY <1>2, <1>3, <1>5, <1>6, <1>8, <1>9, <1>10, <1>11, ClaimStep

\* RequestOutcome puts a running row to finishing, with a capture intent when
\* there is a result.
LEMMA RequestOutcomeRows ==
    ASSUME LedgerInv, RuntimeInv', NEW r \in Runs, NEW o \in {"wait", "fail", "submit"},
           RequestOutcome(r, o)
    PROVE  LedgerInv' /\ RowsMoved
<1> DEFINE t == run[r].task
           plain == [task[t] EXCEPT !.status = "finishing", !.version = @ + 1]
           capture == [plain EXCEPT !.pending = "capture", !.pendRun = r,
                                    !.pendVer = plain.version]
           row == IF o = "submit" THEN capture ELSE plain
           new == [run[r] EXCEPT !.outcome = o, !.revoked = TRUE]
<1> USE LedgerAssumption
<1>1. /\ Live(run[r]) /\ run[r].state = "active"
      /\ task[t].status = "running" /\ task[t].pending = "none"
      /\ o = "submit" => Kind[t] # "conversation"
      /\ UNCHANGED <<agent, project>>
  BY DEF RequestOutcome, Authentic, Live
<1>2. /\ t \in Tasks /\ task[t].run = r
      /\ Owns(t, task[t], run[r]) /\ Recorded(run[r])
      /\ Shaped(t, task[t]) /\ task[t] \in TaskRow /\ run[r] \in RunRow
      /\ task[t].version \in Nat /\ task[t].gen \in Nat
  BY <1>1, LiveRow
<1>3. PICK A : Commit(WithTask(Acknowledged(Begin, A), t, row))
  BY DEF RequestOutcome
<1>4. run' = [run EXCEPT ![r] = new]
  BY <1>2, RefTypes DEF RequestOutcome, TypeOK, RunRow
<1>5. /\ plain.status = "finishing" /\ plain.run = r /\ plain.pending = "none"
      /\ plain.gen = task[t].gen /\ plain.version = task[t].version + 1
      /\ plain.link = task[t].link /\ plain.source = task[t].source
      /\ plain.srcHead = task[t].srcHead /\ plain.srcVer = task[t].srcVer
  BY <1>1, <1>2 DEF TaskRow
<1>6. /\ row.status = "finishing" /\ row.run = r
      /\ row.gen = task[t].gen /\ row.version = task[t].version + 1
      /\ row.link = task[t].link /\ row.source = task[t].source
      /\ row.srcHead = task[t].srcHead /\ row.srcVer = task[t].srcVer
      /\ \/ o # "submit" /\ row.pending = "none"
         \/ /\ o = "submit" /\ row.pending = "capture"
            /\ row.pendRun = r /\ row.pendVer = row.version
  <2>1. CASE o # "submit"
    BY <1>5, <2>1
  <2>2. CASE o = "submit"
    <3>1. /\ capture.status = "finishing" /\ capture.run = r
          /\ capture.gen = task[t].gen /\ capture.version = task[t].version + 1
          /\ capture.link = task[t].link /\ capture.source = task[t].source
          /\ capture.srcHead = task[t].srcHead /\ capture.srcVer = task[t].srcVer
          /\ capture.pending = "capture"
          /\ capture.pendRun = r /\ capture.pendVer = capture.version
      BY <1>1, <1>2 DEF TaskRow
    <3> QED BY <2>2, <3>1
  <2> QED BY <2>1, <2>2
<1>7. /\ new \in RunRow /\ new.state = "active" /\ new.task = t
      /\ new.gen = run[r].gen /\ new.outcome = o /\ new.revoked
  BY <1>1, <1>2 DEF RunRow
<1> HIDE DEF t, row, new
<1>8. Wrote(t, row)
  BY <1>2, <1>3, RefTypes, AcknowledgedRows, CommitWrote
<1>9. task[t].link = None
  BY <1>1, <1>2 DEF Shaped
<1>10. IsOpen(row) /\ IsOpen(task[t]) /\ Exists(row)
  BY <1>1, <1>6 DEF IsOpen, Exists, TaskStatuses, Closed
<1>11. Steady(t, task[t], row)
  <2>1. Shaped(t, row)
    BY <1>1, <1>2, <1>6, <1>9, <1>10 DEF Shaped
  <2>2. Moved(t, task[t], row)
    BY <1>1, <1>2, <1>6, TableMoves DEF Moved
  <2>3. Untied(t, task[t], row) /\ Staffed(t, task[t], row)
    BY <1>6, <1>9, <1>10 DEF Untied, Staffed
  <2> QED BY <2>1, <2>2, <2>3 DEF Steady
<1>12. Owns(t, row, new) /\ Recorded(new)
  BY <1>1, <1>2, <1>6, <1>7 DEF Owns, Live, Recorded
<1>13. /\ row.gen >= task[t].gen /\ agent' = agent /\ project' = project
       /\ task[t].run \in {None, r} /\ row.run \in {None, r} /\ row.run = r
       /\ run[r].task = t
  BY <1>1, <1>2, <1>6 DEF t
<1> QED BY <1>2, <1>4, <1>7, <1>8, <1>10, <1>11, <1>12, <1>13, ClaimStep

\* The steps that write messages alone.
LEMMA MailOnlyRows ==
    ASSUME LedgerInv, RuntimeInv', UNCHANGED <<task, run, agent, project>>
    PROVE  LedgerInv' /\ RowsMoved
BY CalmStep

\* A live run ends and its row lets go of it.
LEMMA ReleasedRow ==
    ASSUME LedgerInv, RuntimeInv', agent' = agent, project' = project,
           NEW r \in Runs, Live(run[r]), NEW t \in Tasks, t = run[r].task,
           NEW new \in RunRow, run' = [run EXCEPT ![r] = new],
           Terminal(new), new.task = t, new.gen = run[r].gen,
           NEW row, Wrote(t, row),
           row.run = None, row.pending = "none",
           row.status = "cancelled" <=> task[t].status = "cancelled",
           row.status \in {"queued", "waiting", "failed", "cancelled"},
           Fsm!RowStep(t, task[t].status, row.status),
           row.gen = task[t].gen, row.version = task[t].version + 1,
           row.link = task[t].link, row.source = task[t].source,
           row.srcHead = task[t].srcHead, row.srcVer = task[t].srcVer
    PROVE  LedgerInv' /\ RowsMoved
<1> USE LedgerAssumption
<1>1. /\ task[t].run = r /\ Owns(t, task[t], run[r]) /\ Recorded(run[r])
      /\ Shaped(t, task[t]) /\ Exists(task[t])
      /\ task[t].version \in Nat /\ task[t].gen \in Nat
  BY LiveRow
<1>2. task[t].status \in {"queued", "running", "finishing", "cancelled"}
  BY <1>1 DEF Shaped
<1>3. /\ Exists(row) /\ task[t].link = None
      /\ IsOpen(row) <=> IsOpen(task[t])
  BY <1>1, <1>2 DEF Shaped, Exists, IsOpen, TaskStatuses, Closed
<1>4. Steady(t, task[t], row)
  <2>1. Shaped(t, row)
    BY <1>1, <1>3 DEF Shaped
  <2>2. Moved(t, task[t], row)
    BY <1>1 DEF Moved
  <2>3. Untied(t, task[t], row) /\ Staffed(t, task[t], row)
    BY <1>3 DEF Untied, Staffed
  <2> QED BY <2>1, <2>2, <2>3 DEF Steady
<1>5. Recorded(new) /\ ~Live(new)
  BY DEF Recorded, Live, Terminal, AllTerminal
<1>6. /\ row.gen >= task[t].gen
      /\ task[t].run \in {None, r} /\ row.run \in {None, r} /\ row.run # r
  BY <1>1
<1> QED BY <1>1, <1>3, <1>4, <1>5, <1>6, ClaimStep

\* What projectTerminalTask writes.
LEMMA ProjectTerminalTaskRows ==
    ASSUME LedgerInv, NEW r \in Runs, Live(run[r]), NEW t \in Tasks, t = run[r].task,
           NEW s, NEW tx \in TxSet, tx.task = task, task[t].status # "cancelled",
           ProjectTerminalTask(tx, t, r, s)
    PROVE  \/ task' = task /\ run[r].outcome = "submit" /\ task[t].pending = "capture"
           \/ \E row : /\ Wrote(t, row)
                       /\ row.run = None /\ row.pending = "none"
                       /\ row.status \in {"queued", "waiting", "failed"}
                       /\ Fsm!RowStep(t, task[t].status, row.status)
                       /\ row.gen = task[t].gen /\ row.version = task[t].version + 1
                       /\ row.link = task[t].link /\ row.source = task[t].source
                       /\ row.srcHead = task[t].srcHead /\ row.srcVer = task[t].srcVer
<1> USE LedgerAssumption
<1> DEFINE old == task[t]
           left == [old EXCEPT !.run = None, !.version = @ + 1]
<1>1. /\ old.run = r /\ Owns(t, old, run[r]) /\ Shaped(t, old) /\ old \in TaskRow
      /\ old.version \in Nat /\ old.gen \in Nat
  BY LiveRow
<1>2. old.pending \in {"none", "capture", "advance"}
  BY <1>1 DEF TaskRow
<1>3. left \in TaskRow
  <2>1. \A v \in Nat : [old EXCEPT !.run = None, !.version = v] \in TaskRow
    BY <1>1 DEF TaskRow
  <2> QED BY <1>1, <2>1, Counters
<1>4. /\ left.run = None /\ left.version = old.version + 1 /\ left.gen = old.gen
      /\ left.pending = old.pending /\ left.status = old.status
      /\ left.link = old.link /\ left.source = old.source
      /\ left.srcHead = old.srcHead /\ left.srcVer = old.srcVer
  BY <1>1 DEF TaskRow
<1>5. \A x \in {"waiting", "queued", "failed"} : Fsm!RowStep(t, "finishing", x)
  BY TableMoves
<1> HIDE DEF left
<1>6. CASE /\ run[r].outcome = "wait" /\ old.status = "finishing"
           /\ Commit(WithTask(tx, t, [left EXCEPT !.status =
                       IF PendingWake(tx.msg, t) THEN "queued" ELSE "waiting"]))
  <2> DEFINE row == [left EXCEPT !.status =
                       IF PendingWake(tx.msg, t) THEN "queued" ELSE "waiting"]
  <2>1. /\ row.run = None /\ row.pending = old.pending
        /\ row.status \in {"queued", "waiting", "failed"}
        /\ row.gen = old.gen /\ row.version = old.version + 1
        /\ row.link = old.link /\ row.source = old.source
        /\ row.srcHead = old.srcHead /\ row.srcVer = old.srcVer
    BY <1>3, <1>4 DEF TaskRow
  <2>2. old.pending = "none"
    BY <1>1, <1>2, <1>6 DEF Owns, Shaped
  <2>3. Wrote(t, row)
    <3> HIDE DEF row
    <3> QED BY <1>6, CommitWrote DEF row
  <2> HIDE DEF row
  <2> QED BY <1>5, <1>6, <2>1, <2>2, <2>3
<1>7. CASE /\ run[r].outcome = "fail" /\ old.status = "finishing"
           /\ Settle(WithTask(tx, t, Cleared([left EXCEPT !.status = "failed",
                                                          !.failure = TRUE])), t)
  <2> DEFINE base == [left EXCEPT !.status = "failed", !.failure = TRUE]
             row == Cleared(base)
  <2>1. row \in TaskRow
    <3>1. base \in TaskRow
      BY <1>3 DEF TaskRow, TaskStatuses
    <3> HIDE DEF base
    <3> QED BY <3>1, ClearedType
  <2>2. /\ row.run = None /\ row.pending = "none" /\ row.status = "failed"
        /\ row.gen = old.gen /\ row.version = old.version + 1
        /\ row.link = old.link /\ row.source = old.source
        /\ row.srcHead = old.srcHead /\ row.srcVer = old.srcVer
    BY <1>3, <1>4 DEF Cleared, TaskRow
  <2>3. Settle(WithTask(tx, t, row), t)
    BY <1>7
  <2> HIDE DEF row
  <2>4. Wrote(t, row)
    BY <2>1, <2>2, <2>3, SettleWrote
  <2> QED BY <1>5, <1>7, <2>2, <2>4
<1>8. CASE /\ run[r].outcome = "submit" /\ old.pending = "capture" /\ Commit(tx)
  BY <1>8 DEF Commit
<1>9. CASE /\ run[r].outcome = "none" /\ old.status \in {"queued", "running"}
           /\ \/ /\ RuntimeFailure(old, s).status = "failed"
                 /\ Settle(WithTask(tx, t, RuntimeFailure(old, s)), t)
              \/ Commit(WithTask(tx, t, RuntimeFailure(old, s)))
  <2> DEFINE row == RuntimeFailure(old, s)
             decided == IF s \in {"timed_out", "interrupted"}
                        THEN [old EXCEPT !.status = "queued"]
                        ELSE RetryDecision(old)
  <2>1. row \in TaskRow
    BY <1>1, RuntimeFailureType
  <2>2. decided \in TaskRow
    <3>1. [old EXCEPT !.status = "queued"] \in TaskRow
      BY <1>1 DEF TaskRow, TaskStatuses
    <3> QED BY <1>1, <3>1, RetryDecisionType
  <2>3. /\ decided.status \in {"queued", "failed"} /\ decided.gen = old.gen
        /\ decided.version = old.version /\ decided.pending = old.pending
        /\ decided.link = old.link /\ decided.source = old.source
        /\ decided.srcHead = old.srcHead /\ decided.srcVer = old.srcVer
    BY <1>1 DEF RetryDecision, TaskRow
  <2>4. row = [decided EXCEPT !.run = None, !.failure = TRUE, !.version = @ + 1]
    BY DEF RuntimeFailure
  <2> HIDE DEF decided, row
  <2>5. /\ row.run = None /\ row.pending = old.pending
        /\ row.status \in {"queued", "failed"}
        /\ row.gen = old.gen /\ row.version = old.version + 1
        /\ row.link = old.link /\ row.source = old.source
        /\ row.srcHead = old.srcHead /\ row.srcVer = old.srcVer
    BY <2>2, <2>3, <2>4 DEF TaskRow
  <2>6. old.pending = "none"
    BY <1>1, <1>2, <1>9 DEF Shaped
  <2>7. Wrote(t, row)
    BY <1>9, <2>1, <2>5, SettleWrote, CommitWrote DEF row
  <2>8. Fsm!RowStep(t, old.status, row.status)
    <3>1. \A x \in {"queued", "running"}, y \in {"queued", "failed"} : Fsm!RowStep(t, x, y)
      BY TableMoves
    <3> QED BY <1>9, <2>5, <3>1
  <2> QED BY <2>5, <2>6, <2>7, <2>8
<1> QED BY <1>6, <1>7, <1>8, <1>9 DEF ProjectTerminalTask, left

\* Redelivering messages writes no row.
LEMMA RedeliveredRows ==
    ASSUME NEW tx \in TxSet, NEW r
    PROVE  Redelivered(tx, r).task = tx.task
<1> DEFINE ms == [m \in Msgs |->
                    IF tx.msg[m].state = "delivered" /\ tx.msg[m].run = r
                    THEN [tx.msg[m] EXCEPT !.state = "pending", !.run = None]
                    ELSE tx.msg[m]]
<1>1. Redelivered(tx, r) = [tx EXCEPT !.msg = ms]
  BY DEF Redelivered
<1> HIDE DEF ms
<1> QED BY <1>1 DEF TxSet

\* RecordRuntimeRunTerminal: the row of a run that ends lets go of it, or is
\* left to the capture that the run asked for.
LEMMA TerminalRows ==
    ASSUME LedgerInv, RuntimeInv', NEW r \in Runs, NEW s \in TerminalStates,
           RecordRuntimeRunTerminal(r, s)
    PROVE  LedgerInv' /\ RowsMoved
<1> DEFINE t == run[r].task
           tx == Redelivered(Begin, r)
           new == [run[r] EXCEPT !.state = s, !.revoked = TRUE]
           freed == [task[t] EXCEPT !.run = None, !.version = @ + 1]
<1> USE LedgerAssumption
<1>1. /\ Live(run[r]) /\ agent' = agent /\ project' = project
  BY DEF RecordRuntimeRunTerminal
<1>2. /\ t \in Tasks /\ task[t].run = r /\ Exists(task[t])
      /\ Owns(t, task[t], run[r]) /\ Recorded(run[r])
      /\ Shaped(t, task[t]) /\ task[t] \in TaskRow /\ run[r] \in RunRow
      /\ task[t].version \in Nat /\ task[t].gen \in Nat
  BY <1>1, LiveRow
<1>3. tx \in TxSet /\ tx.task = task
  <2>1. Begin \in TxSet /\ Begin.task = task
    BY RefTypes, BeginType DEF Begin
  <2> QED BY <2>1, RedeliveredType, RedeliveredRows
<1>4. run' = [run EXCEPT ![r] = new]
  BY <1>2, RefTypes DEF RecordRuntimeRunTerminal, TypeOK, RunRow
<1>5. /\ new \in RunRow /\ new.state = s /\ new.task = t
      /\ new.gen = run[r].gen /\ new.outcome = run[r].outcome /\ new.revoked
  BY <1>2 DEF RunRow
<1>6. Terminal(new) /\ Recorded(new) /\ ~Live(new)
  BY <1>5 DEF Terminal, Recorded, Live, AllTerminal
<1>7. \/ /\ task[t].status = "cancelled"
         /\ Commit(WithTask(tx, t, freed))
      \/ /\ task[t].status # "cancelled"
         /\ ProjectTerminalTask(tx, t, r, s)
  <2>1. task[t].status # "cancelled" => task[t].gen = run[r].gen
    BY <1>2 DEF Owns
  <2> QED BY <1>2, <2>1 DEF RecordRuntimeRunTerminal
<1>8. /\ freed.run = None /\ freed.version = task[t].version + 1
      /\ freed.gen = task[t].gen /\ freed.status = task[t].status
      /\ freed.pending = task[t].pending
      /\ freed.link = task[t].link /\ freed.source = task[t].source
      /\ freed.srcHead = task[t].srcHead /\ freed.srcVer = task[t].srcVer
  BY <1>2 DEF TaskRow
<1>9. t = run[r].task
  OBVIOUS
<1> HIDE DEF t, tx, new, freed
<1>10. CASE task[t].status = "cancelled" /\ Commit(WithTask(tx, t, freed))
  <2>1. Wrote(t, freed)
    BY <1>2, <1>3, <1>10, CommitWrote
  <2>2. task[t].pending = "none"
    <3>1. task[t].pending \in {"none", "capture", "advance"}
      BY <1>2 DEF TaskRow
    <3> QED BY <1>2, <1>10, <3>1 DEF Shaped
  <2>3. Fsm!RowStep(t, "cancelled", "cancelled")
    BY <1>2, TableMoves
  <2>4. /\ freed.status = "cancelled" /\ freed.pending = "none"
        /\ Fsm!RowStep(t, task[t].status, freed.status)
        /\ task[t].status = "cancelled"
    BY <1>8, <1>10, <2>2, <2>3
  <2> QED BY <1>1, <1>2, <1>4, <1>5, <1>6, <1>8, <1>9, <2>1, <2>4, ReleasedRow
<1>11. CASE task[t].status # "cancelled" /\ ProjectTerminalTask(tx, t, r, s)
  <2>1. \/ task' = task /\ run[r].outcome = "submit" /\ task[t].pending = "capture"
        \/ \E row : /\ Wrote(t, row)
                    /\ row.run = None /\ row.pending = "none"
                    /\ row.status \in {"queued", "waiting", "failed"}
                    /\ Fsm!RowStep(t, task[t].status, row.status)
                    /\ row.gen = task[t].gen /\ row.version = task[t].version + 1
                    /\ row.link = task[t].link /\ row.source = task[t].source
                    /\ row.srcHead = task[t].srcHead /\ row.srcVer = task[t].srcVer
    BY <1>1, <1>2, <1>3, <1>9, <1>11, ProjectTerminalTaskRows
  <2>2. CASE task' = task /\ run[r].outcome = "submit" /\ task[t].pending = "capture"
    <3>1. Wrote(t, task[t])
      BY <2>2 DEF Wrote
    <3>2. Owns(t, task[t], new)
      BY <1>2, <1>5, <1>6, <2>2 DEF Owns, Shaped
    <3>3. /\ task[t].gen >= task[t].gen /\ task[t].run \in {None, r}
      BY <1>2
    <3> QED BY <1>1, <1>2, <1>4, <1>5, <1>6, <1>9, <3>1, <3>2, <3>3, ClaimStep
  <2>3. CASE \E row : /\ Wrote(t, row)
                    /\ row.run = None /\ row.pending = "none"
                    /\ row.status \in {"queued", "waiting", "failed"}
                    /\ Fsm!RowStep(t, task[t].status, row.status)
                    /\ row.gen = task[t].gen /\ row.version = task[t].version + 1
                    /\ row.link = task[t].link /\ row.source = task[t].source
                    /\ row.srcHead = task[t].srcHead /\ row.srcVer = task[t].srcVer
    <3> PICK row : /\ Wrote(t, row)
                    /\ row.run = None /\ row.pending = "none"
                    /\ row.status \in {"queued", "waiting", "failed"}
                    /\ Fsm!RowStep(t, task[t].status, row.status)
                    /\ row.gen = task[t].gen /\ row.version = task[t].version + 1
                    /\ row.link = task[t].link /\ row.source = task[t].source
                    /\ row.srcHead = task[t].srcHead /\ row.srcVer = task[t].srcVer
      BY <2>3
    <3>1. row.status # "cancelled"
      OBVIOUS
    <3> QED BY <1>1, <1>2, <1>4, <1>5, <1>6, <1>9, <1>11, <3>1, ReleasedRow
  <2> QED BY <2>1, <2>2, <2>3
<1> QED BY <1>7, <1>10, <1>11

\* CancelTask: a live run keeps its claim on the cancelled row, and the source
\* of an integration task is released.
LEMMA CancelTaskRows ==
    ASSUME LedgerInv, RuntimeInv', NEW t \in Tasks, NEW A, CancelTask(t, A)
    PROVE  LedgerInv' /\ RowsMoved
<1> DEFINE r == task[t].run
           keep == r # None /\ Live(run[r])
           tx == Acknowledged(Begin, A)
           row == [task[t] EXCEPT !.status = "cancelled", !.gen = @ + 1,
                                  !.run = IF keep THEN r ELSE None,
                                  !.version = @ + 1]
           tk == [ReleaseSource(task, t) EXCEPT ![t] = row]
           full == [tx EXCEPT !.task = tk]
<1> USE LedgerAssumption
<1>1. /\ ActionAvailable(task[t])
      /\ task[t].status \in {"queued", "running", "waiting", "submitted", "failed"}
      /\ SourceReleasable(task, t)
      /\ run' = IF keep THEN [run EXCEPT ![r] = StopRequested(run[r])] ELSE run
      /\ Settle(full, t)
      /\ agent' = agent /\ project' = project
  BY RefTypes DEF CancelTask, TypeOK
<1>2. /\ task[t] \in TaskRow /\ Shaped(t, task[t])
      /\ task[t].version \in Nat /\ task[t].gen \in Nat
      /\ task[t].link = None /\ task[t].pending = "none"
      /\ IsOpen(task[t]) /\ Exists(task[t])
  BY <1>1, RefTypes, StillRow
     DEF ActionAvailable, IsOpen, Exists, TaskStatuses, Closed
<1>3. keep <=> r # None
  <2> SUFFICES ASSUME r # None PROVE Live(run[r])
    OBVIOUS
  <2>1. Owns(t, task[t], run[r])
    BY OwnerRow
  <2> QED BY <1>2, <2>1 DEF Owns
<1>4. /\ row.status = "cancelled" /\ row.gen = task[t].gen + 1
      /\ row.run = r /\ row.version = task[t].version + 1
      /\ row.pending = task[t].pending /\ row.link = task[t].link
      /\ row.source = task[t].source /\ row.srcHead = task[t].srcHead
      /\ row.srcVer = task[t].srcVer
  <2>1. (IF keep THEN r ELSE None) = r
    BY <1>3
  <2> HIDE DEF keep
  <2> QED BY <1>2, <2>1 DEF TaskRow
<1>5. row \in TaskRow
  <2>1. \A v, g \in Nat, x \in Runs \cup {None} :
          [task[t] EXCEPT !.status = "cancelled", !.gen = g, !.run = x,
                          !.version = v] \in TaskRow
    <3>1. task[t] \in TaskRow
      BY <1>2
    <3> QED BY <3>1 DEF TaskRow, TaskStatuses, Closed
  <2>2. task[t].version + 1 \in Nat /\ task[t].gen + 1 \in Nat
    BY <1>2
  <2>3. (IF keep THEN r ELSE None) \in Runs \cup {None}
    BY RefTypes
  <2> HIDE DEF keep, r
  <2> QED BY <2>1, <2>2, <2>3
<1>6. tx \in TxSet /\ tx.task = task
  BY RefTypes, AcknowledgedRows
<1>7. /\ ~IsOpen(row) /\ Exists(row) /\ Fsm!RowStep(t, task[t].status, row.status)
  <2>1. \A x \in {"queued", "running", "waiting", "failed"} : Fsm!RowStep(t, x, "cancelled")
    BY TableMoves
  <2>2. task[t].status = "submitted" => Fsm!RowStep(t, "submitted", "cancelled")
    BY <1>2, TableMoves DEF Shaped
  <2> QED BY <1>1, <1>4, <2>1, <2>2 DEF IsOpen, Exists, TaskStatuses, Closed
<1>8. Shaped(t, row)
  BY <1>2, <1>4, <1>7 DEF Shaped
<1>9. Moved(t, task[t], row)
  BY <1>2, <1>4, <1>7 DEF Moved
<1>10. r # None => /\ r \in Runs /\ run[r].task = t /\ Recorded(run[r])
                   /\ StopRequested(run[r]) \in RunRow
                   /\ StopRequested(run[r]).state = run[r].state
                   /\ StopRequested(run[r]).task = t
                   /\ StopRequested(run[r]).gen = run[r].gen
                   /\ Live(StopRequested(run[r])) /\ Recorded(StopRequested(run[r]))
                   /\ Owns(t, row, StopRequested(run[r]))
  <2> SUFFICES ASSUME r # None
               PROVE  /\ r \in Runs /\ run[r].task = t /\ Recorded(run[r])
                      /\ StopRequested(run[r]) \in RunRow
                      /\ StopRequested(run[r]).state = run[r].state
                      /\ StopRequested(run[r]).task = t
                      /\ StopRequested(run[r]).gen = run[r].gen
                      /\ Live(StopRequested(run[r])) /\ Recorded(StopRequested(run[r]))
                      /\ Owns(t, row, StopRequested(run[r]))
    OBVIOUS
  <2>1. r \in Runs /\ run[r].task = t /\ Recorded(run[r]) /\ run[r] \in RunRow
    BY OwnerRow
  <2>2. Live(run[r])
    BY <1>3
  <2> DEFINE new == StopRequested(run[r])
  <2>3. /\ new \in RunRow /\ new.state = run[r].state /\ new.task = run[r].task
        /\ new.gen = run[r].gen
    BY <2>1 DEF RunRow, StopRequested
  <2> HIDE DEF new, row, r
  <2>4. Live(new) /\ Recorded(new) /\ new.task = t
    BY <2>1, <2>2, <2>3 DEF Live, Recorded
  <2>5. Owns(t, row, new)
    BY <1>2, <1>4, <2>4 DEF Owns
  <2> QED BY <2>1, <2>3, <2>4, <2>5 DEF new
<1>11. task[t].run = r
  OBVIOUS
<1>12. r # None => run' = [run EXCEPT ![r] = StopRequested(run[r])]
  BY <1>1, <1>3
<1>13. r = None => run' = run
  BY <1>1, <1>3
<1>14. full.task = tk
  BY <1>6 DEF TxSet
<1> HIDE DEF row, keep, r
<1>15. CASE Kind[t] # "integration"
  <2>1. full = WithTask(tx, t, row)
    BY <1>6, <1>15 DEF ReleaseSource, WithTask, TxSet
  <2>2. Wrote(t, row)
    <3>1. Settle(WithTask(tx, t, row), t)
      BY <1>1, <2>1
    <3> HIDE DEF tx
    <3> QED BY <1>4, <1>5, <1>6, <3>1, SettleWrote
  <2>3. Steady(t, task[t], row)
    <3>1. Untied(t, task[t], row) /\ Staffed(t, task[t], row)
      BY <1>2, <1>4, <1>7, <1>15 DEF Untied, Staffed
    <3> QED BY <1>8, <1>9, <3>1 DEF Steady
  <2>4. CASE r = None
    <3>1. Unclaimed(task[t], row)
      BY <1>2, <1>4, <1>7, <1>11, <2>4 DEF Unclaimed
    <3> QED BY <1>1, <1>13, <2>2, <2>3, <2>4, <3>1, CalmWrite DEF Calm
  <2>5. CASE r # None
    <3> DEFINE new == StopRequested(run[r])
    <3>1. /\ r \in Runs /\ run[r].task = t /\ Recorded(run[r])
          /\ new \in RunRow /\ new.task = t /\ new.gen = run[r].gen
          /\ Live(new) /\ Recorded(new) /\ Owns(t, row, new)
          /\ run' = [run EXCEPT ![r] = new]
      BY <1>10, <1>12, <2>5
    <3> HIDE DEF new
    <3>2. /\ row.gen >= task[t].gen /\ row.run = r
          /\ task[t].run \in {None, r} /\ row.run \in {None, r}
          /\ agent' = agent /\ project' = project
      BY <1>1, <1>2, <1>4, <1>11
    <3> QED BY <1>7, <2>2, <2>3, <3>1, <3>2, ClaimStep
  <2> QED BY <2>4, <2>5
<1>16. CASE Kind[t] = "integration"
  <2> DEFINE s == task[t].source
             free == Released(task[s])
  <2>1. SourceFence(task, t)
    BY <1>2, <1>16 DEF LedgerInv, IntegrationLinked
  <2>2. /\ s \in Tasks /\ s # t /\ task[s].status = "submitted"
        /\ Exists(task[s]) /\ IsOpen(task[s]) /\ task[s].run = None
        /\ task[s].pending = "none" /\ task[s].source = None
        /\ Kind[s] # "integration" /\ Kind[s] # "conversation"
    BY <1>16, <2>1, SourceRow
  <2>3. /\ task[s] \in TaskRow /\ task[s].version \in Nat /\ task[s].gen \in Nat
    BY <2>2, RefTypes
  <2>4. free \in TaskRow
    BY <2>3, ReleasedType
  <2>5. /\ free.status = "submitted" /\ free.run = None /\ free.pending = "none"
        /\ free.gen = task[s].gen /\ free.version = task[s].version + 1
        /\ free.link = None /\ free.source = None
    BY <2>2, <2>3 DEF Released, TaskRow
  <2>6. tk = [task EXCEPT ![s] = free, ![t] = row]
    BY <1>16, <2>2 DEF ReleaseSource
  <2>7. s = task[t].source
    OBVIOUS
  <2> HIDE DEF s, free
  <2>8. /\ tk[t] = row /\ tk[s] = free /\ \A c \in Tasks \ {t, s} : tk[c] = task[c]
        /\ tk \in [Tasks -> TaskRow]
    BY <1>5, <2>2, <2>4, <2>6, RefTypes DEF TypeOK
  <2> HIDE DEF tk
  <2>9. full \in TxSet
    BY <1>6, <2>8 DEF TxSet
  <2>10. Passes(tk, task')
    <3> HIDE DEF full
    <3> QED BY <1>1, <1>14, <2>9, SettlePasses
  <2>11. /\ task'[t] = row /\ task'[s] = free
         /\ \A c \in Tasks \ {t, s} : task'[c] \in {task[c], Woken(task[c])}
    <3>1. Woken(row) = row /\ Woken(free) = free
      BY <1>4, <1>5, <2>4, <2>5, WokenRow
    <3> QED BY <2>2, <2>8, <2>10, <3>1 DEF Passes
  <2>12. Exists(free) /\ IsOpen(free)
    BY <2>5 DEF Exists, IsOpen, TaskStatuses, Closed
  <2>13. Shaped(s, free) /\ Moved(s, task[s], free)
    <3>1. Shaped(s, free)
      BY <2>2, <2>5, <2>12 DEF Shaped
    <3>2. Fsm!RowStep(s, "submitted", "submitted")
      BY <2>2, TableMoves
    <3> QED BY <2>2, <2>3, <2>5, <3>1, <3>2 DEF Moved
  <2>14. \A c \in Tasks \ {t} : task'[c] = task[c] \/ Unclaimed(task[c], task'[c])
    <3>1. Unclaimed(task[s], free)
      BY <2>2, <2>3, <2>5, <2>12 DEF Unclaimed
    <3> QED BY <2>11, <3>1, PassedCalm DEF Calm
  <2>15. OwnersAgree' /\ RunsAnswered' /\ FencingTokensUnique'
    <3>1. CASE r = None
      <4>1. Unclaimed(task[t], row)
        BY <1>2, <1>4, <1>7, <1>11, <3>1 DEF Unclaimed
      <4> QED BY <1>13, <2>11, <2>14, <3>1, <4>1, ClaimsKept DEF RuntimeInv
    <3>2. CASE r # None
      <4> DEFINE new == StopRequested(run[r])
      <4>1. /\ r \in Runs /\ run[r].task = t /\ Recorded(run[r])
            /\ new \in RunRow /\ new.task = t /\ new.gen = run[r].gen
            /\ Live(new) /\ Recorded(new) /\ Owns(t, row, new)
            /\ run' = [run EXCEPT ![r] = new]
        BY <1>10, <1>12, <3>2
      <4> HIDE DEF new
      <4>2. /\ task'[t].gen >= task[t].gen /\ task'[t].run = r /\ Exists(task'[t])
            /\ task[t].run \in {None, r} /\ task'[t].run \in {None, r}
            /\ Owns(t, task'[t], new)
        BY <1>2, <1>4, <1>7, <1>11, <2>11, <4>1
      <4> QED BY <2>14, <4>1, <4>2, ClaimMoves DEF RuntimeInv
    <3> QED BY <3>1, <3>2
  <2>16. /\ Shaped(t, task'[t]) /\ ~IsOpen(task'[t]) /\ Moved(t, task[t], task'[t])
         /\ task'[t].pending # "advance"
         /\ Shaped(s, task'[s]) /\ Moved(s, task[s], task'[s])
         /\ task'[s].pending # "advance" /\ task'[s].link = None
    BY <1>2, <1>4, <1>7, <1>8, <1>9, <2>5, <2>11, <2>13
  <2>17. UNCHANGED <<agent, project>>
    BY <1>1
  <2> QED BY <1>16, <2>1, <2>2, <2>7, <2>11, <2>15, <2>16, <2>17, CutStep
<1> QED BY <1>15, <1>16

-----------------------------------------------------------------------------
(* Deletion, and the agents and the project.                               *)

\* A blank row has the shape of a row that is not there.
LEMMA DeletedRow ==
    ASSUME NEW t \in Tasks
    PROVE  LET gone == NewTask("deleted", 0) IN
           /\ Shaped(t, gone) /\ ~IsOpen(gone) /\ ~Exists(gone)
           /\ gone.run = None /\ gone.pending = "none" /\ gone.status = "deleted"
<1> DEFINE gone == NewTask("deleted", 0)
<1>1. /\ gone.status = "deleted" /\ gone.run = None /\ gone.pending = "none"
      /\ gone.link = None /\ gone.source = None
  BY DEF NewTask
<1> HIDE DEF gone
<1>2. ~IsOpen(gone) /\ ~Exists(gone)
  BY <1>1 DEF IsOpen, Exists, TaskStatuses, Closed
<1>3. Shaped(t, gone)
  BY <1>1, <1>2 DEF Shaped
<1> QED BY <1>1, <1>2, <1>3 DEF gone

\* DeleteTask: the row was closed and untied, and its runs go with it.
LEMMA DeleteTaskRows ==
    ASSUME LedgerInv, RuntimeInv', NEW t \in Tasks, NEW A, DeleteTask(t, A)
    PROVE  LedgerInv' /\ RowsMoved
<1> DEFINE gone == NewTask("deleted", 0)
           s == task[t].source
<1> USE LedgerAssumption
<1>1. /\ Deletable(t)
      /\ run' = [r \in Runs |-> IF run[r].task = t
                                THEN [run[r] EXCEPT !.state = "deleted"] ELSE run[r]]
      /\ UNCHANGED <<agent, project>>
  BY DEF DeleteTask
<1>2. /\ task[t].status \in Closed /\ task[t].run = None
      /\ ~IsOpen(task[t]) /\ Shaped(t, task[t])
  BY <1>1, StillRow DEF Deletable, IsOpen, Closed
<1>3. ~(Kind[t] = "integration" /\ s # None /\ Exists(task[s]))
  <2> SUFFICES ASSUME Kind[t] = "integration", s # None, Exists(task[s]) PROVE FALSE
    OBVIOUS
  <2>1. SourceFence(task, t)
    BY <1>1 DEF Deletable, SourceReleasable
  <2>2. s \in Tasks /\ IsOpen(task[s]) /\ task[s].link = t
    BY <2>1, SourceRow
  <2>3. IsOpen(task[t])
    BY <2>2 DEF LedgerInv, IntegrationLinked
  <2> QED BY <1>2, <2>3
<1>4. task' = [task EXCEPT ![t] = gone]
  <2>1. CASE s = None
    BY <2>1 DEF DeleteTask, ReleaseSource
  <2>2. CASE s # None
    <3>1. ~Exists(task[s])
      BY <1>2, <1>3, <2>2 DEF Shaped
    <3> QED BY <2>2, <3>1 DEF DeleteTask
  <2> QED BY <2>1, <2>2
<1>5. task'[t] = gone /\ \A c \in Tasks \ {t} : task'[c] = task[c]
  BY <1>4, RefTypes DEF TypeOK
<1>6. /\ Shaped(t, gone) /\ ~IsOpen(gone) /\ ~Exists(gone)
      /\ gone.run = None /\ gone.pending = "none" /\ gone.status = "deleted"
  BY DeletedRow
<1> HIDE DEF gone
<1>7. RowsShaped' /\ RowsMoved
  <2>1. Fsm!RowStep(t, task[t].status, "deleted")
    BY <1>2, TableMoves
  <2>2. Moved(t, task[t], gone)
    BY <1>6, <2>1 DEF Moved
  <2> QED BY <1>5, <1>6, <2>2, StillRow DEF RowsShaped, RowsMoved
<1>8. /\ \A r \in Runs : run[r].task # t => run'[r] = run[r]
      /\ \A r \in Runs : run[r].task = t => run'[r].state = "deleted"
  BY <1>1, RefTypes DEF RunRow
<1>9. OwnersAgree'
  <2> SUFFICES ASSUME NEW c \in Tasks, task'[c].run # None
               PROVE  Owns(c, task'[c], run'[task'[c].run])
    BY DEF OwnersAgree
  <2>1. c # t /\ task'[c] = task[c]
    BY <1>5, <1>6
  <2>2. /\ task[c].run \in Runs /\ Owns(c, task[c], run[task[c].run])
        /\ run[task[c].run].task = c
    BY <2>1, OwnerRow
  <2> QED BY <1>8, <2>1, <2>2
<1>10. ASSUME NEW r \in Runs, Recorded(run'[r])
       PROVE  /\ run'[r] = run[r] /\ run[r].task \in Tasks
              /\ task'[run[r].task] = task[run[r].task]
  BY <1>5, <1>8, <1>10, RefTypes DEF Recorded
<1>11. RunsAnswered'
  <2> SUFFICES ASSUME NEW r \in Runs, Recorded(run'[r])
               PROVE  /\ Exists(task'[run'[r].task])
                      /\ Live(run'[r]) => task'[run'[r].task].run = r
    BY DEF RunsAnswered, Recorded, Live, Exists
  <2> QED BY <1>10 DEF LedgerInv, RunsAnswered
<1>12. FencingTokensUnique'
  <2> SUFFICES ASSUME NEW r \in Runs, Recorded(run'[r])
               PROVE  /\ run'[r].gen <= task'[run'[r].task].gen
                      /\ \A x \in Runs : /\ Recorded(run'[x])
                                         /\ run'[x].task = run'[r].task
                                         /\ run'[x].gen = run'[r].gen
                                         => x = r
    BY DEF FencingTokensUnique, Recorded
  <2> QED BY <1>10 DEF LedgerInv, FencingTokensUnique, Recorded
<1>13. IntegrationLinked'
  <2> DEFINE E == {t}
  <2>1. \A c \in Tasks \ E : task'[c] = task[c]
    BY <1>5
  <2>2. \A c \in E : ~IsOpen(task'[c])
    BY <1>5, <1>6
  <2>3. \A c \in Tasks \ E : IsOpen(task[c]) => task[c].link \notin E
    BY <1>2 DEF LedgerInv, IntegrationLinked
  <2>4. \A c \in Tasks \ E : Kind[c] = "integration" /\ IsOpen(task[c])
                                => task[c].source \notin E
    BY <1>2 DEF LedgerInv, IntegrationLinked, SourceFence, Closed
  <2>5. E \in SUBSET Tasks
    OBVIOUS
  <2> HIDE DEF E
  <2> QED BY <1>7, <2>1, <2>2, <2>3, <2>4, <2>5, TiesCut DEF RuntimeInv
<1>14. AgentsPresent' /\ BooksClosed'
  <2>1. Staffed(t, task[t], gone)
    BY <1>6 DEF Staffed
  <2> QED BY <1>1, <1>5, <2>1, StaffKept
<1> QED BY <1>7, <1>9, <1>11, <1>12, <1>13, <1>14 DEF LedgerInv

\* DeleteProject: the books were closed, and nothing is left on record.
LEMMA DeleteProjectRows ==
    ASSUME LedgerInv, RuntimeInv', DeleteProject
    PROVE  LedgerInv' /\ RowsMoved
<1> DEFINE gone == NewTask("deleted", 0)
<1> USE LedgerAssumption
<1>1. \A c \in Tasks : /\ Exists(task[c]) => task'[c] = gone
                       /\ ~Exists(task[c]) => task'[c] = task[c]
  BY DEF DeleteProject
<1>2. \A r \in Runs : run'[r].state \in {"none", "deleted"}
  BY RefTypes DEF DeleteProject, RunRow
<1>3. \A c \in Tasks : /\ Shaped(c, gone) /\ ~IsOpen(gone) /\ ~Exists(gone)
                       /\ gone.run = None /\ gone.pending = "none"
                       /\ gone.status = "deleted"
  BY DeletedRow
<1> HIDE DEF gone
<1>4. \A c \in Tasks : ~IsOpen(task[c])
  BY DEF LedgerInv, BooksClosed, DeleteProject
<1>5. \A c \in Tasks : /\ Shaped(c, task'[c]) /\ ~IsOpen(task'[c])
                       /\ task'[c].run = None /\ task'[c].pending = "none"
  BY <1>1, <1>3, <1>4, StillRow DEF Shaped
<1>6. RowsMoved
  <2> SUFFICES ASSUME NEW c \in Tasks PROVE Moved(c, task[c], task'[c])
    BY DEF RowsMoved
  <2>1. CASE Exists(task[c])
    <3>1. task[c].status \in Closed
      BY <1>4, <2>1 DEF Exists, IsOpen
    <3>2. Fsm!RowStep(c, task[c].status, "deleted")
      BY <3>1, TableMoves
    <3> QED BY <1>1, <1>3, <2>1, <3>2 DEF Moved
  <2>2. CASE ~Exists(task[c])
    BY <1>1, <2>2, StillRow
  <2> QED BY <2>1, <2>2
<1>7. RowsShaped' /\ OwnersAgree' /\ RunsAnswered' /\ FencingTokensUnique'
  BY <1>2, <1>5
     DEF RowsShaped, OwnersAgree, RunsAnswered, FencingTokensUnique, Recorded
<1>8. IntegrationLinked' /\ AgentsPresent' /\ BooksClosed'
  BY <1>5 DEF IntegrationLinked, AgentsPresent, BooksClosed
<1> QED BY <1>6, <1>7, <1>8 DEF LedgerInv

\* The agents and the project: AgentBlockers and ProjectBlockers see to it
\* that nobody leaves who is still needed.
LEMMA StatusRows ==
    ASSUME LedgerInv, RuntimeInv', UNCHANGED <<task, run>>,
           \/ \E a \in Agents : PauseOrResumeAgent(a) \/ ArchiveAgent(a)
           \/ \E ok \in BOOLEAN : FinishProjectAction(ok)
           \/ FailActiveVerification
           \/ RepairProject
           \/ ArchiveProject
    PROVE  LedgerInv' /\ RowsMoved
<1> USE LedgerAssumption
<1>1. /\ RowsShaped' /\ RowsMoved /\ IntegrationLinked' /\ OwnersAgree'
      /\ RunsAnswered' /\ FencingTokensUnique'
  <2>1. RowsMoved
    BY StillRow DEF RowsMoved
  <2>2. RowsShaped' /\ OwnersAgree' /\ RunsAnswered' /\ FencingTokensUnique'
    BY DEF LedgerInv, RowsShaped, OwnersAgree, RunsAnswered, FencingTokensUnique
  <2>3. IntegrationLinked'
    BY DEF LedgerInv, IntegrationLinked, SourceFence
  <2> QED BY <2>1, <2>2, <2>3
<1>2. BooksClosed'
  BY DEF LedgerInv, BooksClosed, PauseOrResumeAgent, ArchiveAgent, FinishProjectAction,
         FailActiveVerification, RepairProject, ArchiveProject
<1>3. AgentsPresent'
  <2>1. CASE UNCHANGED agent
    BY <2>1 DEF LedgerInv, AgentsPresent
  <2>2. CASE \E a \in Agents : PauseOrResumeAgent(a)
    <3>1. \A b \in Agents : agent[b] # "archived" => agent'[b] # "archived"
      BY <2>2, RefTypes DEF PauseOrResumeAgent, TypeOK
    <3>2. \A t \in Tasks : task[t].pending = "advance" =>
             task[t].accepted \in Agents
      BY RefTypes, StillRow DEF TaskRow, Shaped
    <3> QED BY <3>1, <3>2 DEF LedgerInv, AgentsPresent
  <2>3. CASE \E a \in Agents : ArchiveAgent(a)
    <3> PICK a \in Agents : ArchiveAgent(a)
      BY <2>3
    <3>1. \A b : b # a => agent'[b] = agent[b]
      BY RefTypes DEF ArchiveAgent, TypeOK
    <3>2. \A t \in Tasks : IsOpen(task[t]) => a # Assignee[t] /\ a # task[t].accepted
      BY DEF ArchiveAgent, AgentBlockers
    <3>3. \A t \in Tasks : task[t].pending = "advance" => IsOpen(task[t])
      BY StillRow DEF Shaped, IsOpen, TaskStatuses, Closed
    <3> QED BY <3>1, <3>2, <3>3 DEF LedgerInv, AgentsPresent
  <2> QED BY <2>1, <2>2, <2>3
       DEF FinishProjectAction, FailActiveVerification, RepairProject, ArchiveProject
<1> QED BY <1>1, <1>2, <1>3 DEF LedgerInv

-----------------------------------------------------------------------------
(* The theorems.                                                           *)

\* The empty ledger satisfies the invariant.
LEMMA LedgerInit == Init => LedgerInv
<1> SUFFICES ASSUME Init PROVE LedgerInv
  OBVIOUS
<1>1. RuntimeInv
  BY RuntimeInit
<1>2. \A t \in Tasks : /\ task[t].status = "none" /\ task[t].run = None
                       /\ task[t].pending = "none" /\ task[t].link = None
                       /\ task[t].source = None
  BY DEF Init, NewTask
<1>3. \A r \in Runs : run[r].state = "none"
  BY DEF Init, NoRun
<1>4. \A t \in Tasks : ~Exists(task[t]) /\ ~IsOpen(task[t])
  BY <1>2 DEF Exists, IsOpen, TaskStatuses, Closed
<1>5. RowsShaped
  BY <1>2, <1>4 DEF RowsShaped, Shaped
<1>6. OwnersAgree /\ RunsAnswered /\ FencingTokensUnique
  BY <1>2, <1>3 DEF OwnersAgree, RunsAnswered, FencingTokensUnique, Recorded
<1>7. IntegrationLinked /\ AgentsPresent /\ BooksClosed
  BY <1>2, <1>4 DEF IntegrationLinked, AgentsPresent, BooksClosed
<1> QED BY <1>1, <1>5, <1>6, <1>7 DEF LedgerInv

\* Every transaction keeps the invariant and moves rows as fsm.go says.
LEMMA LedgerStep ==
    ASSUME LedgerInv, [Next]_vars
    PROVE  LedgerInv' /\ RowsMoved
<1>1. RuntimeInv'
  BY RuntimeStep DEF LedgerInv
<1>2. CASE \E r \in Runs : RunStep(r)
  <2> PICK r \in Runs : RunStep(r)
    BY <1>2
  <2>1. CASE RecordMessagesDelivered(r) \/ AcknowledgeAgentMessages(r)
    <3>1. UNCHANGED <<task, run, agent, project>>
      BY <2>1, AcknowledgedRows, RefTypes
         DEF RecordMessagesDelivered, AcknowledgeAgentMessages, Commit
    <3> QED BY <1>1, <3>1, MailOnlyRows
  <2> QED BY <1>1, <2>1, RunColumnsRows, ActivateRows, RequestOutcomeRows, TerminalRows
          DEF RunStep
<1>3. CASE \E t \in Tasks : TaskStep(t)
  BY <1>1, <1>3, ClaimNextRows, CreateWorkTaskRows, WakeTaskRows, RetryTaskRows,
     CancelTaskRows, ReworkTaskRows, DeleteTaskRows, RequestAcceptRows, SendToTaskRows,
     SendToNewConversationRows, CompleteTaskRows, CloseConversationRows DEF TaskStep
<1>4. CASE \E t \in Tasks : GitStep(t)
  BY <1>1, <1>4, FinalizeCaptureRows, ProjectCaptureFailureRows,
     FinalizeSuccessfulAdvanceRows, RequeueStaleIntegrationRows, CreateIntegrationRows,
     ProjectAdvanceInvariantFailureRows DEF GitStep
<1>5. CASE AdminStep
  <2>1. CASE \E m \in Msgs : RetryMessage(m)
    BY <1>1, <2>1, RetryMessageRows
  <2>2. CASE DeleteProject
    BY <1>1, <2>2, DeleteProjectRows
  <2>3. CASE \/ \E a \in Agents : PauseOrResumeAgent(a) \/ ArchiveAgent(a)
             \/ \E ok \in BOOLEAN : FinishProjectAction(ok)
             \/ FailActiveVerification
             \/ RepairProject
             \/ ArchiveProject
    <3>1. UNCHANGED <<task, run>>
      BY <2>3 DEF PauseOrResumeAgent, ArchiveAgent, FinishProjectAction,
                  FailActiveVerification, RepairProject, ArchiveProject
    <3> QED BY <1>1, <2>3, <3>1, StatusRows
  <2> QED BY <1>5, <2>1, <2>2, <2>3 DEF AdminStep
<1>6. CASE UNCHANGED vars
  BY <1>1, <1>6, MailOnlyRows DEF vars
<1> QED BY <1>2, <1>3, <1>4, <1>5, <1>6 DEF Next

\* The invariant contains OwnershipAgrees.
LEMMA OwnershipFromInv == LedgerInv => OwnershipAgrees
<1> SUFFICES ASSUME LedgerInv PROVE OwnershipAgrees
  OBVIOUS
<1>1. ASSUME NEW r \in Runs, Live(run[r])
      PROVE  LET row == task[run[r].task] IN
             row.run = r /\ (row.status = "cancelled" \/ row.gen = run[r].gen)
  BY <1>1, LiveRow DEF Owns
<1>2. ASSUME NEW t \in Tasks, task[t].run # None
      PROVE  LET owner == run[task[t].run] IN
             /\ owner.task = t
             /\ Live(owner) \/ (Terminal(owner) /\ task[t].pending = "capture")
             /\ task[t].status = "queued" => owner.state = "starting"
             /\ task[t].status = "running" =>
                   owner.state = "active" /\ owner.outcome = "none"
             /\ task[t].status = "finishing" => owner.revoked /\ owner.outcome # "none"
  BY <1>2, OwnerRow DEF Owns
<1>3. ASSUME NEW t \in Tasks
      PROVE  /\ task[t].status \in {"running", "finishing"} => task[t].run # None
             /\ task[t].run # None =>
                   task[t].status \in {"queued", "running", "finishing", "cancelled"}
  BY StillRow DEF Shaped
<1> QED BY <1>1, <1>2, <1>3 DEF OwnershipAgrees

\* The invariant contains IntentNeverStuck.
LEMMA IntentFromInv == LedgerInv => IntentNeverStuck
<1> SUFFICES ASSUME LedgerInv, NEW t \in Tasks
             PROVE  /\ task[t].status = "finishing" /\ Terminal(run[task[t].run])
                          => CaptureFence(t)
                    /\ task[t].pending = "advance" =>
                          /\ AdvanceFence(t)
                          /\ task[t].accepted # None
                          /\ agent[task[t].accepted] # "archived"
                          /\ Kind[t] = "integration" => SourceFence(task, t)
  BY DEF IntentNeverStuck
<1>1. Shaped(t, task[t])
  BY StillRow
<1>2. ASSUME task[t].status = "finishing", Terminal(run[task[t].run])
      PROVE  CaptureFence(t)
  <2>1. task[t].run # None
    BY <1>1, <1>2 DEF Shaped
  <2>2. Owns(t, task[t], run[task[t].run])
    BY <2>1, OwnerRow
  <2>3. task[t].pending = "capture"
    BY <1>2, <2>2 DEF Owns, Live, Terminal, AllTerminal
  <2>4. task[t].pendRun = task[t].run /\ task[t].version = task[t].pendVer
    BY <1>1, <2>3 DEF Shaped
  <2> QED BY <1>2, <2>1, <2>2, <2>3, <2>4 DEF Owns, CaptureFence
<1>3. ASSUME task[t].pending = "advance"
      PROVE  /\ AdvanceFence(t)
             /\ task[t].accepted # None
             /\ agent[task[t].accepted] # "archived"
             /\ Kind[t] = "integration" => SourceFence(task, t)
  <2>1. /\ task[t].status = "submitted" /\ task[t].pendVer = task[t].version
        /\ task[t].accepted # None /\ IsOpen(task[t])
    BY <1>1, <1>3 DEF Shaped, IsOpen, TaskStatuses, Closed
  <2> QED BY <1>3, <2>1 DEF LedgerInv, AgentsPresent, IntegrationLinked, AdvanceFence
<1> QED BY <1>2, <1>3

\* LedgerInv holds of every reachable state.
LEMMA LedgerAlways == Spec => []LedgerInv
<1>1. LedgerInv /\ [Next]_vars => LedgerInv'
  BY LedgerStep
<1> QED BY <1>1, LedgerInit, PTL DEF Spec

\* For any number of tasks, runs and agents, task rows and run rows never
\* disagree about who is executing what: a run's end always finds the row that
\* is waiting for it (OwnershipAgrees).
THEOREM OwnershipKept == Spec => []OwnershipAgrees
BY LedgerAlways, OwnershipFromInv, PTL

\* A generation is a fencing token: whatever claims, cancellations, retries
\* and deletions a task goes through, it names one run of the task
\* (FencingTokensUnique).
THEOREM GenerationsFence == Spec => []FencingTokensUnique
<1>1. LedgerInv => FencingTokensUnique
  BY DEF LedgerInv
<1> QED BY <1>1, LedgerAlways, PTL

\* A stale result stays locked to the open integration task made for it, and
\* an open integration task always passes integrationSourceFence
\* (IntegrationLinked).
THEOREM LinksHold == Spec => []IntegrationLinked
<1>1. LedgerInv => IntegrationLinked
  BY DEF LedgerInv
<1> QED BY <1>1, LedgerAlways, PTL

\* No capture and no advance is ever refused by its own fence, and the
\* promised integrator is still there (IntentNeverStuck).
THEOREM IntentsProjectable == Spec => []IntentNeverStuck
BY LedgerAlways, IntentFromInv, PTL

\* Every transaction that changes a row moves its version forward, on the rows
\* it writes and on those it only wakes (VersionMovesWithRow).
THEOREM VersionsCount == Spec => VersionMovesWithRow
<1> DEFINE Counts == \A t \in Tasks :
                        Exists(task[t]) /\ Exists(task'[t]) /\ task'[t] # task[t]
                           => task'[t].version > task[t].version
<1>1. LedgerInv /\ [Next]_vars => [Counts]_vars
  <2> SUFFICES ASSUME LedgerInv, [Next]_vars PROVE Counts
    OBVIOUS
  <2>1. RowsMoved
    BY LedgerStep
  <2> QED BY <2>1 DEF RowsMoved, Moved
<1> QED BY <1>1, LedgerAlways, PTL DEF Spec, VersionMovesWithRow

\* The ledger implements the table of fsm.go, with the two exceptions it
\* names: every transaction, however many rows it touches, moves each row
\* along the table, and no late result reopens a closed task (FollowsTaskFsm).
THEOREM ImplementsTaskFsm == Spec => FollowsTaskFsm
<1>1. Init => Fsm!Init
  BY DEF Init, NewTask, Fsm!Init, Statuses
<1>2. LedgerInv /\ [Next]_vars => [Fsm!Next]_Statuses
  <2> SUFFICES ASSUME LedgerInv, [Next]_vars PROVE Fsm!Next
    OBVIOUS
  <2>1. RowsMoved
    BY LedgerStep
  <2>2. \A t \in Tasks : /\ Statuses[t] = task[t].status
                         /\ Statuses'[t] = task'[t].status
    BY DEF Statuses
  <2>3. \A t \in Tasks : Fsm!RowStep(t, Statuses[t], Statuses'[t])
    BY <2>1, <2>2 DEF RowsMoved, Moved
  <2>4. DOMAIN Statuses' = Tasks
    BY DEF Statuses
  <2> QED BY <2>3, <2>4 DEF Fsm!Next
<1> QED BY <1>1, <1>2, LedgerAlways, PTL DEF Spec, FollowsTaskFsm, Fsm!Spec

=============================================================================
