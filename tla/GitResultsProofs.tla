--------------------------- MODULE GitResultsProofs ---------------------------
(***************************************************************************)
(* Proofs about GitResults: no step of the Git reconciler, of the garbage  *)
(* collector or of a request, in any interleaving and with any number of   *)
(* crashes, loses a result, moves the canonical branch backwards or leaves *)
(* a ref behind that nobody answers for.                                   *)
(*                                                                         *)
(* A row that a worker has read may change under it.  The first part says  *)
(* what stays true of it nevertheless; the second what a step may do to    *)
(* the rows and runs it is not about, so that a worker that looks on keeps *)
(* what it knows; the third takes the steps one by one.                    *)
(***************************************************************************)
EXTENDS GitResults, TLAPS

-----------------------------------------------------------------------------
(* The inductive invariant.                                                *)

\* A row by itself.
RowSound(t, row) ==
    /\ row.status \in {"none", "deleted"} =>
          /\ row.run = None /\ row.head = None /\ row.source = None
          /\ row.base = {} /\ row.pending = "none"
    /\ row.pending = "capture" <=> row.status = "finishing"
    /\ row.pending = "advance" => row.status = "submitted"
    /\ row.status = "finishing" => row.run # None
    /\ row.status = "submitted" => row.run = None
    /\ row.status \in {"submitted", "completed"} => row.head # None
    /\ t \in Integrations /\ row.status \notin {"none", "deleted"} => row.source # None

RowsSound == \A t \in Tasks : RowSound(t, task[t])

\* The runs that rows name, and the tasks that runs name.
RunsSound ==
    /\ \A t \in Tasks : task[t].run # None =>
          run[task[t].run].task = t /\ run[task[t].run].state # "none"
    /\ \A r \in Runs : run[r].state # "none" =>
          run[r].task \in Tasks /\ task[run[r].task].status # "none"
    /\ \A r \in Runs : run[r].state = "none" => ~run[r].started

\* Run h has ended and its task has let go of it: the commit it submitted
\* never changes again.
Spent(h) ==
    /\ h \in Runs
    /\ run[h].state = "ended"
    /\ run[h].task \in Tasks
    /\ task[run[h].task].run # h

\* What a row says of its commits.
ResultSound(t, row) ==
    /\ row.head # None => /\ Spent(row.head)
                          /\ run[row.head].task = t
                          /\ ContainsInputs(row, Head(row))
    /\ row.source # None => Spent(row.source)
    /\ row.base \subseteq canon
    /\ row.status = "completed" => Head(row) \subseteq canon

ResultsSound == \A t \in Tasks : ResultSound(t, task[t])

\* What a handoff or a ref holds has passed validateCapturedAncestry; an
\* import ref is made from a handoff.
HeldSound ==
    /\ imports \subseteq handoff
    /\ \A r \in handoff \cup refs :
          /\ run[r].state = "ended"
          /\ ContainsInputs(task[run[r].task], run[r].sha)

\* A run that is past prepareWorkspace has a workspace.
WorkspacesSound ==
    /\ WorkspaceKept
    /\ \A r \in Runs : run[r].state \in {"prepared", "live", "wrote"} =>
          ws[run[r].task].there

GitPcs == {"check", "helper", "refused", "import", "publish", "unimport",
           "captured", "cleanup", "advance", "advanced", "stale"}
BossPcs == {"source", "insert", "accept", "delws", "delref"}
LockPcs == {"rmws", "rmref", "insert", "publish", "unimport"}
CapturePcs == {"check", "helper", "refused", "import", "publish", "unimport", "captured"}
AdvancePcs == {"advance", "advanced", "stale"}
CollectPcs == {"rmws", "rmref", "delws", "delref"}

\* Worker w stands where it may, with the lock it needs.
Placed(w, a) ==
    /\ a.pc # "idle" => a.task \in Tasks
    /\ a.pc \in GitPcs => w = "git"
    /\ a.pc \in BossPcs => w = "boss"
    /\ a.pc \in {"rmws", "rmref", "release"} => w \in {"gc", "boss"}
    /\ a.pc \in LockPcs => lock = w

\* While a capture is pending nobody else writes the row, and its run's
\* handoff and import ref are the reconciler's alone.
Capturing(a) ==
    /\ a.pc \in CapturePcs =>
          /\ task[a.task] = a.row
          /\ a.row.pending = "capture"
          /\ a.row.run \in Runs /\ run[a.row.run].state = "ended"
    /\ a.pc = "refused" => a.row.run \notin handoff
    /\ a.pc \in {"import", "publish", "unimport"} => a.row.run \in handoff
    /\ a.pc \in {"unimport", "captured"} => a.row.run \in refs
    /\ a.pc \in {"captured", "cleanup"} => a.row.run \notin imports

\* While an advance is pending nobody else writes the row, and nobody else
\* moves the canonical branch.
Advancing(a) ==
    /\ a.pc \in AdvancePcs => task[a.task] = a.row /\ a.row.pending = "advance"
    /\ a.pc \in {"advanced", "stale"} => a.sha = canon
    /\ a.pc = "advanced" => Head(a.row) \subseteq canon

\* What a request has read still holds, or the row it compares has changed.
Requesting(a) ==
    /\ a.pc \in {"source", "insert"} => a.sha \subseteq canon /\ IsSource(a.row)
    /\ a.pc = "insert" => a.row.head \in refs
    /\ a.pc = "accept" => a.row.status = "submitted" /\ a.row.pending = "none"

\* A task that is being collected stays closed, with the result that was read,
\* or is deleted and its result given up; nobody starts to use either.
Collecting(a) ==
    /\ a.pc \in CollectPcs =>
          /\ a.row.head # None => Spent(a.row.head) /\ run[a.row.head].task = a.task
          /\ a.row.base \subseteq canon
          /\ \/ task[a.task].status \in Closed /\ task[a.task].head = a.row.head
             \/ /\ task[a.task].status = "deleted"
                /\ a.row.head # None => a.row.head \in dropped
    /\ a.pc \in {"rmws", "delws"} => ~\E r \in Runs : run[r].task = a.task /\ Live(r)
    /\ a.pc \in {"delws", "delref"} => task[a.task].status = "deleted"
    /\ a.pc \in {"rmref", "delref"} => a.row.head # None
    /\ a.pc = "rmref" => \A x \in Tasks : task[x].source = a.row.head => task[x].released

WorkerSound(w) ==
    /\ Placed(w, at[w])
    /\ Capturing(at[w])
    /\ Advancing(at[w])
    /\ Requesting(at[w])
    /\ Collecting(at[w])

GitInv ==
    /\ TypeOK
    /\ RowsSound
    /\ RunsSound
    /\ ResultsSound
    /\ HeldSound
    /\ RefsKept
    /\ WorkspacesSound
    /\ RefsExplained
    /\ \A w \in Workers : WorkerSound(w)

-----------------------------------------------------------------------------
(* What a step does to the rows and runs.                                  *)

\* The row goes on with the commits it has.
Stays(x) ==
    /\ task'[x].base = task[x].base
    /\ task'[x].source = task[x].source
    /\ task'[x].head = task[x].head
    /\ task[x].released => task'[x].released
    /\ task'[x].status = "none" <=> task[x].status = "none"
    /\ task'[x].status = "deleted" <=> task[x].status = "deleted"
    /\ task[x].status \in Closed => task'[x].status \in Closed
    /\ task'[x].status = "completed" =>
          task[x].status = "completed" \/ Head(task[x]) \subseteq canon

\* The row is inserted; its source, if it has one, is a result that nobody is
\* about to collect.
Made(x) ==
    /\ task[x].status = "none" /\ task'[x].status = "queued"
    /\ task'[x].head = None
    /\ task'[x].base \subseteq canon
    /\ task'[x].source # None =>
          /\ Spent(task'[x].source)
          /\ task'[x].source \in refs
          /\ at["boss"].pc = "insert" \/ task[run[task'[x].source].task].status = "submitted"

\* The row receives the result of its run.
Gains(x) ==
    /\ task[x].status = "finishing" /\ task'[x].status = "submitted"
    /\ task'[x].head = task[x].run /\ task'[x].run = None
    /\ task[x].run \in refs
    /\ task'[x].base = task[x].base
    /\ task'[x].source = task[x].source
    /\ task'[x].released = task[x].released

\* The row is deleted and its result given up.
Erased(x) ==
    /\ task[x].status \in Closed
    /\ task'[x] = [NoTask EXCEPT !.status = "deleted"]
    /\ task[x].head # None => task[x].head \in dropped'

RowMoves(x) ==
    /\ \/ task'[x].run \in {task[x].run, None}
       \/ /\ task'[x].run \in Runs
          /\ run[task'[x].run].state = "none"
          /\ run'[task'[x].run].state = "claimed"
          /\ run'[task'[x].run].task = x
    /\ Stays(x) \/ Made(x) \/ Gains(x) \/ Erased(x)

RunMoves(r) ==
    /\ run[r].state = "ended" => run'[r] = run[r]
    /\ run[r].state # "none" => run'[r].task = run[r].task /\ run'[r].state # "none"
    /\ run[r].state = "none" =>
          \/ run'[r] = run[r]
          \/ /\ run'[r].state = "claimed" /\ ~run'[r].started
             /\ run'[r].task \in Tasks
             /\ task[run'[r].task].status = "queued"

Moves ==
    /\ \A x \in Tasks : RowMoves(x)
    /\ \A r \in Runs : RunMoves(r)
    /\ canon \subseteq canon'
    /\ dropped \subseteq dropped'

\* The types of the fields.
LEMMA FieldTypes ==
    ASSUME TypeOK
    PROVE  /\ \A t \in Tasks : /\ task[t] \in TaskRow
                               /\ task[t].status \in {"none", "deleted"} \cup Open \cup Closed
                               /\ task[t].run \in Runs \cup {None}
                               /\ task[t].head \in Runs \cup {None}
                               /\ task[t].source \in Runs \cup {None}
                               /\ task[t].link \in Integrations \cup {None}
                               /\ task[t].base \in Commits
                               /\ task[t].released \in BOOLEAN
                               /\ task[t].pending \in {"none", "capture", "advance"}
           /\ \A r \in Runs : /\ run[r] \in RunRow
                              /\ run[r].state \in {"none", "claimed", "prepared", "live",
                                                   "wrote", "ended"}
                              /\ run[r].sha \in Commits
           /\ \A w \in Workers : /\ at[w] \in Work
                                 /\ at[w].pc \in Steps
                                 /\ at[w].task \in Tasks \cup {None}
                                 /\ at[w].row \in TaskRow
                                 /\ at[w].sha \in Commits
           /\ None \notin Tasks /\ None \notin Runs /\ None \notin Workers
<1>1. /\ \A t \in Tasks : task[t] \in TaskRow
      /\ \A r \in Runs : run[r] \in RunRow
      /\ \A w \in Workers : at[w] \in Work
  BY DEF TypeOK
<1>2. \A t \in Tasks : /\ task[t].status \in {"none", "deleted"} \cup Open \cup Closed
                       /\ task[t].run \in Runs \cup {None}
                       /\ task[t].head \in Runs \cup {None}
                       /\ task[t].source \in Runs \cup {None}
                       /\ task[t].link \in Integrations \cup {None}
                       /\ task[t].base \in Commits
                       /\ task[t].released \in BOOLEAN
                       /\ task[t].pending \in {"none", "capture", "advance"}
  BY <1>1 DEF TaskRow
<1>3. \A r \in Runs : /\ run[r].state \in {"none", "claimed", "prepared", "live",
                                           "wrote", "ended"}
                      /\ run[r].sha \in Commits
  BY <1>1 DEF RunRow
<1>4. \A w \in Workers : /\ at[w].pc \in Steps
                         /\ at[w].task \in Tasks \cup {None}
                         /\ at[w].row \in TaskRow
                         /\ at[w].sha \in Commits
  BY <1>1 DEF Work
<1> QED BY <1>1, <1>2, <1>3, <1>4, GitAssumption

\* What a spent run submitted stays what it was.
LEMMA SpentKept ==
    ASSUME GitInv, Moves, NEW h, Spent(h)
    PROVE  Spent(h)' /\ run'[h] = run[h]
<1> DEFINE t == run[h].task
<1>1. h \in Runs /\ t \in Tasks /\ run[h].state = "ended" /\ task[t].run # h
  BY DEF Spent
<1>2. run'[h] = run[h]
  BY <1>1 DEF Moves, RunMoves
<1>3. /\ RowMoves(t) /\ h # None
  BY <1>1, GitAssumption DEF Moves
<1>4. task'[t].run # h
  BY <1>1, <1>3 DEF RowMoves
<1> QED BY <1>1, <1>2, <1>4 DEF Spent

\* The runs that rows name are still the ones they were.
LEMMA RunsSoundKept ==
    ASSUME GitInv, TypeOK', Moves
    PROVE  RunsSound'
<1>1. ASSUME NEW t \in Tasks, task'[t].run # None
      PROVE  run'[task'[t].run].task = t /\ run'[task'[t].run].state # "none"
  <2>1. RowMoves(t) /\ task[t].run \in Runs \cup {None}
    BY FieldTypes DEF Moves, GitInv
  <2>2. CASE task'[t].run = task[t].run
    <3>1. /\ task[t].run \in Runs
          /\ run[task[t].run].task = t /\ run[task[t].run].state # "none"
      BY <1>1, <2>1, <2>2 DEF GitInv, RunsSound
    <3> QED BY <2>2, <3>1 DEF Moves, RunMoves
  <2> QED BY <1>1, <2>1, <2>2 DEF RowMoves
<1>2. ASSUME NEW r \in Runs, run'[r].state # "none"
      PROVE  run'[r].task \in Tasks /\ task'[run'[r].task].status # "none"
  <2>1. RunMoves(r)
    BY DEF Moves
  <2>2. run'[r].task \in Tasks /\ task[run'[r].task].status # "none"
    BY <1>2, <2>1 DEF RunMoves, GitInv, RunsSound
  <2>3. RowMoves(run'[r].task)
    BY <2>2 DEF Moves
  <2>4. [NoTask EXCEPT !.status = "deleted"].status = "deleted"
    BY DEF NoTask
  <2> QED BY <2>2, <2>3, <2>4 DEF RowMoves, Stays, Made, Gains, Erased
<1>3. ASSUME NEW r \in Runs, run'[r].state = "none" PROVE ~run'[r].started
  BY <1>3 DEF Moves, RunMoves, GitInv, RunsSound
<1> QED BY <1>1, <1>2, <1>3 DEF RunsSound

\* A blank row has no commits.
LEMMA ErasedRow ==
    LET row == [NoTask EXCEPT !.status = "deleted"] IN
    /\ row \in TaskRow
    /\ row.status = "deleted" /\ row.run = None /\ row.head = None
    /\ row.source = None /\ row.base = {} /\ row.pending = "none"
    /\ row.link = None /\ row.released = FALSE
BY DEF NoTask, TaskRow, Commits

\* Rows keep what they say of their commits.
LEMMA ResultsKept ==
    ASSUME GitInv, TypeOK', RowsSound', Moves
    PROVE  ResultsSound'
<1> SUFFICES ASSUME NEW t \in Tasks PROVE ResultSound(t, task[t])'
  BY DEF ResultsSound
<1>1. /\ RowMoves(t) /\ ResultSound(t, task[t]) /\ RowSound(t, task[t])
      /\ canon \subseteq canon' /\ RowSound(t, task'[t])
  BY DEF Moves, GitInv, ResultsSound, RowsSound
<1>2. PICK h : h = task'[t].head
  OBVIOUS
<1>3. PICK s : s = task'[t].source
  OBVIOUS
<1>4. CASE Stays(t)
  <2>1. task[t].head = h /\ task[t].source = s /\ task'[t].base = task[t].base
    BY <1>2, <1>3, <1>4 DEF Stays
  <2>2. s # None => Spent(s)' /\ run'[s] = run[s]
    BY <1>1, <2>1, SpentKept DEF ResultSound
  <2>3. h # None => /\ Spent(h) /\ run[h].task = t /\ ContainsInputs(task[t], run[h].sha)
    BY <1>1, <2>1 DEF ResultSound, Head
  <2>4. h # None => Spent(h)' /\ run'[h] = run[h]
    BY <2>3, SpentKept
  <2>5. h # None => ContainsInputs(task[t], Head(task[t]))'
    BY <1>2, <1>3, <2>1, <2>2, <2>3, <2>4 DEF ContainsInputs, Head, Source
  <2>6. task'[t].base \subseteq canon'
    BY <1>1, <2>1 DEF ResultSound
  <2>7. ASSUME task'[t].status = "completed" PROVE run'[h].sha \subseteq canon'
    <3>1. h # None
      BY <1>1, <1>2, <2>7 DEF RowSound
    <3>2. run[h].sha \subseteq canon
      BY <1>1, <1>4, <2>1, <2>7 DEF Stays, ResultSound, Head
    <3> QED BY <1>1, <2>4, <3>1, <3>2
  <2> QED BY <1>2, <1>3, <2>2, <2>3, <2>4, <2>5, <2>6, <2>7 DEF ResultSound, Head
<1>5. CASE Made(t)
  <2>1. h = None /\ (s # None => Spent(s))
    BY <1>2, <1>3, <1>5 DEF Made
  <2>2. s # None => Spent(s)'
    BY <2>1, SpentKept
  <2> QED BY <1>1, <1>2, <1>3, <1>5, <2>1, <2>2 DEF Made, ResultSound
<1>6. CASE Gains(t)
  <2>1. /\ task[t].run = h /\ task'[t].run = None /\ task'[t].base = task[t].base
        /\ task[t].source = s /\ task'[t].status = "submitted"
        /\ task[t].status = "finishing" /\ h \in refs
    BY <1>2, <1>3, <1>6 DEF Gains
  <2>2. h \in Runs /\ run[h].task = t /\ h # None
    BY <1>1, <2>1, FieldTypes DEF RowSound, GitInv, RunsSound
  <2>3. run[h].state = "ended" /\ ContainsInputs(task[t], run[h].sha)
    BY <2>1, <2>2 DEF GitInv, HeldSound
  <2>4. run'[h] = run[h]
    BY <2>2, <2>3 DEF Moves, RunMoves
  <2>5. s # None => Spent(s)' /\ run'[s] = run[s]
    BY <1>1, <2>1, SpentKept DEF ResultSound
  <2>6. Spent(h)'
    BY <2>1, <2>2, <2>3, <2>4 DEF Spent
  <2>7. ContainsInputs(task[t], Head(task[t]))'
    BY <1>2, <1>3, <2>1, <2>3, <2>4, <2>5 DEF ContainsInputs, Head, Source
  <2>8. task'[t].base \subseteq canon'
    BY <1>1, <2>1 DEF ResultSound
  <2> QED BY <1>2, <1>3, <2>1, <2>2, <2>4, <2>5, <2>6, <2>7, <2>8 DEF ResultSound
<1>7. CASE Erased(t)
  <2>1. /\ task'[t].head = None /\ task'[t].source = None /\ task'[t].base = {}
        /\ task'[t].status = "deleted"
    BY <1>7, ErasedRow DEF Erased
  <2> QED BY <2>1 DEF ResultSound
<1> QED BY <1>1, <1>4, <1>5, <1>6, <1>7 DEF RowMoves

\* The inputs a row was made with do not change while it is there.
LEMMA InputsKept ==
    ASSUME GitInv, Moves, NEW x \in Tasks, task[x].status # "none", NEW c,
           ContainsInputs(task[x], c)
    PROVE  ContainsInputs(task[x], c)'
<1>1. RowMoves(x) /\ ResultSound(x, task[x])
  BY DEF Moves, GitInv, ResultsSound
<1>2. PICK s : s = task[x].source
  OBVIOUS
<1>3. s # None => run'[s] = run[s]
  BY <1>1, <1>2, SpentKept DEF ResultSound
<1>4. CASE task'[x].base = task[x].base /\ task'[x].source = s
  BY <1>2, <1>3, <1>4 DEF ContainsInputs, Source
<1>5. CASE Erased(x)
  <2>1. task'[x].source = None /\ task'[x].base = {}
    BY <1>5, ErasedRow DEF Erased
  <2> QED BY <2>1 DEF ContainsInputs
<1> QED BY <1>1, <1>2, <1>4, <1>5 DEF RowMoves, Stays, Made, Gains

\* What is held goes on to contain its inputs.
LEMMA HeldKept ==
    ASSUME GitInv, Moves, imports' \subseteq handoff',
           handoff' \cup refs' \subseteq handoff \cup refs
    PROVE  HeldSound'
<1> SUFFICES ASSUME NEW r \in handoff' \cup refs'
             PROVE  run'[r].state = "ended" /\ ContainsInputs(task[run[r].task], run[r].sha)'
  BY DEF HeldSound
<1>1. /\ r \in Runs /\ run[r].state = "ended" /\ r \in handoff \cup refs
  BY DEF GitInv, TypeOK, HeldSound
<1>2. run'[r] = run[r]
  BY <1>1 DEF Moves, RunMoves
<1>3. PICK x : x = run[r].task
  OBVIOUS
<1>4. PICK c : c = run[r].sha
  OBVIOUS
<1>5. /\ x \in Tasks /\ task[x].status # "none" /\ ContainsInputs(task[x], c)
  BY <1>1, <1>3, <1>4 DEF GitInv, RunsSound, HeldSound
<1>6. ContainsInputs(task[x], c)'
  BY <1>5, InputsKept
<1>7. run'[r].task = x /\ run'[r].sha = c
  BY <1>2, <1>3, <1>4
<1> QED BY <1>1, <1>2, <1>6, <1>7 DEF ContainsInputs, Source

\* No step that removes no ref loses a result.
LEMMA RefsGrow ==
    ASSUME GitInv, TypeOK', RowsSound', Moves, refs \subseteq refs'
    PROVE  RefsKept'
<1> SUFFICES ASSUME NEW t \in Tasks, task'[t].status \notin {"none", "deleted"}
             PROVE  /\ task'[t].head # None =>
                          \/ task'[t].head \in refs'
                          \/ /\ task'[t].status \in Closed
                             /\ \/ run'[task'[t].head].sha \subseteq canon'
                                \/ task'[t].head \in dropped'
                    /\ task'[t].source # None /\ ~task'[t].released =>
                          \/ task'[t].source \in refs'
                          \/ task'[run'[task'[t].source].task].status = "deleted"
  BY DEF RefsKept, Exists, Head
<1>1. /\ RowMoves(t) /\ ResultSound(t, task[t]) /\ RowSound(t, task[t])
      /\ canon \subseteq canon' /\ dropped \subseteq dropped'
  BY DEF Moves, GitInv, ResultsSound, RowsSound
<1>2. PICK h : h = task'[t].head
  OBVIOUS
<1>3. PICK s : s = task'[t].source
  OBVIOUS
<1>4. CASE Stays(t)
  <2>1. task[t].head = h /\ task[t].source = s /\ Exists(t)
    BY <1>2, <1>3, <1>4 DEF Stays, Exists
  <2>2. /\ h # None => run'[h] = run[h]
        /\ s # None => run'[s] = run[s] /\ run[s].task \in Tasks
    BY <1>1, <2>1, SpentKept DEF ResultSound, Spent
  <2>3. /\ h # None => \/ h \in refs
                       \/ /\ task[t].status \in Closed
                          /\ run[h].sha \subseteq canon \/ h \in dropped
        /\ s # None /\ ~task[t].released =>
              s \in refs \/ task[run[s].task].status = "deleted"
    BY <2>1 DEF GitInv, RefsKept, Head
  <2>4. ASSUME s # None, task[run[s].task].status = "deleted"
        PROVE  task'[run'[s].task].status = "deleted"
    <3>1. RowMoves(run[s].task)
      BY <2>2, <2>4 DEF Moves
    <3> QED BY <2>2, <2>4, <3>1 DEF RowMoves, Stays, Made, Gains, Erased, Closed
  <2> QED BY <1>1, <1>2, <1>3, <1>4, <2>2, <2>3, <2>4 DEF Stays
<1>5. CASE Made(t)
  BY <1>5 DEF Made
<1>6. CASE Gains(t)
  <2>1. /\ h \in refs /\ task[t].source = s /\ Exists(t)
        /\ task'[t].released = task[t].released
    BY <1>2, <1>3, <1>6 DEF Gains, Exists
  <2>2. s # None => run'[s] = run[s] /\ run[s].task \in Tasks
    BY <1>1, <2>1, SpentKept DEF ResultSound, Spent
  <2>3. s # None /\ ~task[t].released =>
              s \in refs \/ task[run[s].task].status = "deleted"
    BY <2>1 DEF GitInv, RefsKept
  <2>4. ASSUME s # None, task[run[s].task].status = "deleted"
        PROVE  task'[run'[s].task].status = "deleted"
    <3>1. RowMoves(run[s].task)
      BY <2>2, <2>4 DEF Moves
    <3> QED BY <2>2, <2>4, <3>1 DEF RowMoves, Stays, Made, Gains, Erased, Closed
  <2> QED BY <1>2, <1>3, <2>1, <2>2, <2>3, <2>4
<1>7. CASE Erased(t)
  BY <1>7, ErasedRow DEF Erased
<1> QED BY <1>1, <1>4, <1>5, <1>6, <1>7 DEF RowMoves

\* Workspaces that stay serve the runs and the tasks they served.
LEMMA WorkspacesStay ==
    ASSUME GitInv, TypeOK', Moves,
           \A x \in Tasks : ws[x].there => ws'[x].there,
           \A r \in Runs : run'[r].state \in {"prepared", "live", "wrote"} =>
              \/ run[r].state \in {"prepared", "live", "wrote"}
              \/ ws'[run[r].task].there,
           \A r \in Runs : run'[r].started =>
              \/ run[r].started
              \/ run[r].state \in {"prepared", "live", "wrote"}
    PROVE  WorkspacesSound'
<1>1. ASSUME NEW r \in Runs, run'[r].state \in {"prepared", "live", "wrote"}
      PROVE  ws'[run'[r].task].there
  <2>1. run[r].state # "none" /\ run'[r].task = run[r].task
    BY <1>1 DEF Moves, RunMoves
  <2>2. run[r].task \in Tasks
    BY <2>1 DEF GitInv, RunsSound
  <2> QED BY <1>1, <2>1, <2>2 DEF GitInv, WorkspacesSound
<1>2. ASSUME NEW t \in Tasks, task'[t].status \in Open, NEW r \in Runs,
             run'[r].task = t, run'[r].started
      PROVE  ws'[t].there
  <2>1. run[r].state # "none" /\ run[r].task = t
    BY <1>2 DEF Moves, RunMoves, GitInv, RunsSound
  <2>2. CASE run[r].state \in {"prepared", "live", "wrote"}
    BY <2>1, <2>2 DEF GitInv, WorkspacesSound
  <2>3. CASE run[r].started
    <3>1. task[t].status # "none" /\ RowMoves(t)
      BY <2>1 DEF GitInv, RunsSound, Moves
    <3>2. task[t].status \in Open
      <4>1. task[t].status \in {"none", "deleted"} \cup Open \cup Closed
        BY FieldTypes DEF GitInv
      <4>2. task'[t].status \notin Closed /\ task'[t].status # "deleted"
        BY <1>2 DEF Open, Closed
      <4> QED BY <3>1, <4>1, <4>2, ErasedRow
              DEF RowMoves, Stays, Made, Gains, Erased, Open
    <3> QED BY <2>1, <2>3, <3>2 DEF GitInv, WorkspacesSound, WorkspaceKept, HasStarted
  <2> QED BY <1>2, <2>2, <2>3
<1> QED BY <1>1, <1>2 DEF WorkspacesSound, WorkspaceKept, HasStarted

\* Intents that stay pending explain the refs they explained.
LEMMA ExplainedKept ==
    ASSUME GitInv, Moves, saved' = saved, canon' = canon, imports' \subseteq imports,
           \A x \in Tasks : task[x].pending # "none" => task'[x] = task[x]
    PROVE  RefsExplained'
<1>1. ASSUME NEW x \in Tasks, task[x].pending = "advance"
      PROVE  task'[x] = task[x] /\ run'[task[x].head] = run[task[x].head]
  <2>1. PICK h : h = task[x].head
    OBVIOUS
  <2>2. Spent(h)
    BY <1>1, <2>1 DEF GitInv, RowsSound, RowSound, ResultsSound, ResultSound
  <2> QED BY <1>1, <2>1, <2>2, SpentKept
<1>2. saved # canon =>
        \E t \in Tasks : task'[t].pending = "advance" /\ run'[task'[t].head].sha \subseteq canon
  <2> SUFFICES ASSUME saved # canon
               PROVE  \E t \in Tasks : /\ task'[t].pending = "advance"
                                       /\ run'[task'[t].head].sha \subseteq canon
    OBVIOUS
  <2>1. PICK t \in Tasks : task[t].pending = "advance" /\ Head(task[t]) \subseteq canon
    BY DEF GitInv, RefsExplained
  <2> QED BY <1>1, <2>1 DEF Head
<1>3. \A r \in imports' : \E t \in Tasks : task'[t].pending = "capture" /\ task'[t].run = r
  <2> SUFFICES ASSUME NEW r \in imports'
               PROVE  \E t \in Tasks : task'[t].pending = "capture" /\ task'[t].run = r
    OBVIOUS
  <2>1. PICK t \in Tasks : task[t].pending = "capture" /\ task[t].run = r
    BY DEF GitInv, RefsExplained
  <2> QED BY <2>1
<1> QED BY <1>2, <1>3 DEF GitInv, RefsExplained, Head

-----------------------------------------------------------------------------
(* Workers that look on.                                                   *)

\* A step leaves worker w's own business alone.
Looks(w) ==
    /\ at'[w] = at[w]
    /\ lock = w => lock' = w
    /\ w = "git" =>
          /\ handoff' = handoff /\ imports' = imports /\ canon' = canon
          /\ \A x \in Tasks : task[x].pending # "none" => task'[x] = task[x]
    /\ \A r \in refs \ refs' : Spent(r) /\ lock # w

\* The reconciler finds its capture as it left it.
LEMMA CapturingKept ==
    ASSUME GitInv, Moves, Looks("git"), NEW a, a = at["git"]
    PROVE  Capturing(a)'
<1>1. Capturing(a) /\ Placed("git", a)
  BY DEF GitInv, WorkerSound, Workers
<1>2. /\ handoff' = handoff /\ imports' = imports
      /\ \A x \in Tasks : task[x].pending # "none" => task'[x] = task[x]
      /\ \A r \in refs \ refs' : Spent(r)
  BY DEF Looks
<1>3. ASSUME a.pc \in CapturePcs
      PROVE  /\ task'[a.task] = a.row
             /\ a.row.pending = "capture"
             /\ a.row.run \in Runs /\ run'[a.row.run].state = "ended"
             /\ ~Spent(a.row.run)
  <2>1. /\ task[a.task] = a.row /\ a.row.pending = "capture" /\ a.row.run \in Runs
        /\ run[a.row.run].state = "ended"
    BY <1>1, <1>3 DEF Capturing
  <2>2. a.task \in Tasks
    BY <1>1, <1>3 DEF Placed, CapturePcs
  <2>3. run[a.row.run].task = a.task
    BY <2>1, <2>2, GitAssumption DEF GitInv, RunsSound
  <2> QED BY <1>2, <2>1, <2>2, <2>3 DEF Moves, RunMoves, Spent
<1>4. a.pc \in {"unimport", "captured"} => a.row.run \in refs'
  <2>1. {"unimport", "captured"} \subseteq CapturePcs
    BY DEF CapturePcs
  <2> QED BY <1>1, <1>2, <1>3, <2>1 DEF Capturing
<1> QED BY <1>1, <1>2, <1>3, <1>4 DEF Capturing

\* The reconciler finds its advance as it left it.
LEMMA AdvancingKept ==
    ASSUME GitInv, Moves, Looks("git"), NEW a, a = at["git"]
    PROVE  Advancing(a)'
<1>1. Advancing(a) /\ Placed("git", a)
  BY DEF GitInv, WorkerSound, Workers
<1>2. /\ canon' = canon
      /\ \A x \in Tasks : task[x].pending # "none" => task'[x] = task[x]
  BY DEF Looks
<1>3. ASSUME a.pc \in AdvancePcs
      PROVE  /\ task'[a.task] = a.row
             /\ a.row.pending = "advance"
             /\ run'[a.row.head] = run[a.row.head]
  <2>1. task[a.task] = a.row /\ a.row.pending = "advance"
    BY <1>1, <1>3 DEF Advancing
  <2>2. a.task \in Tasks
    BY <1>1, <1>3 DEF Placed, AdvancePcs
  <2>3. Spent(a.row.head)
    BY <2>1, <2>2 DEF GitInv, RowsSound, RowSound, ResultsSound, ResultSound
  <2> QED BY <1>2, <2>1, <2>2, <2>3, SpentKept
<1> QED BY <1>1, <1>2, <1>3 DEF Advancing, AdvancePcs, Head

\* A request finds what it has read, or finds that it has changed.
LEMMA RequestingKept ==
    ASSUME GitInv, Moves, Looks("boss"), NEW a, a = at["boss"]
    PROVE  Requesting(a)'
<1>1. Requesting(a) /\ Placed("boss", a)
  BY DEF GitInv, WorkerSound, Workers
<1>2. a.pc = "insert" => lock = "boss"
  BY <1>1 DEF Placed, LockPcs
<1>3. canon \subseteq canon' /\ \A r \in refs \ refs' : lock # "boss"
  BY DEF Looks, Moves
<1> QED BY <1>1, <1>2, <1>3 DEF Requesting, IsSource

\* A closed task has no new run, and its row keeps its result until it is
\* deleted and the result given up.
LEMMA ClosedKept ==
    ASSUME GitInv, Moves, NEW t \in Tasks, NEW h,
           \/ task[t].status \in Closed /\ task[t].head = h
           \/ task[t].status = "deleted" /\ (h # None => h \in dropped)
    PROVE  /\ \/ task'[t].status \in Closed /\ task'[t].head = h
              \/ task'[t].status = "deleted" /\ (h # None => h \in dropped')
           /\ task[t].status = "deleted" => task'[t].status = "deleted"
           /\ (~\E r \in Runs : run[r].task = t /\ Live(r)) =>
                 ~\E r \in Runs : run'[r].task = t /\ Live(r)'
<1>1. RowMoves(t) /\ dropped \subseteq dropped'
  BY DEF Moves
<1>2. Stays(t) \/ Erased(t)
  BY <1>1 DEF RowMoves, Made, Gains, Closed
<1>3. /\ \/ task'[t].status \in Closed /\ task'[t].head = h
         \/ task'[t].status = "deleted" /\ (h # None => h \in dropped')
      /\ task[t].status = "deleted" => task'[t].status = "deleted"
  <2>1. CASE Stays(t)
    BY <1>1, <2>1 DEF Stays, Closed
  <2>2. CASE Erased(t)
    BY <2>2, ErasedRow DEF Erased, Closed
  <2> QED BY <1>2, <2>1, <2>2
<1>4. ASSUME NEW r \in Runs, run'[r].task = t, Live(r)',
             ~\E x \in Runs : run[x].task = t /\ Live(x)
      PROVE  FALSE
  <2>1. RunMoves(r) /\ run[r].state \in {"none", "claimed", "prepared", "live", "wrote", "ended"}
    BY FieldTypes DEF Moves, GitInv
  <2>2. task[t].status # "queued"
    BY DEF Closed
  <2> QED BY <1>4, <2>1, <2>2 DEF RunMoves, Live
<1> QED BY <1>3, <1>4

\* A collector finds that what it removes is still nobody's.
LEMMA CollectingKept ==
    ASSUME GitInv, Moves, NEW w \in Workers, Looks(w), NEW a, a = at[w]
    PROVE  Collecting(a)'
<1>1. Collecting(a) /\ Placed(w, a) /\ canon \subseteq canon'
  BY DEF GitInv, WorkerSound, Moves
<1>2. ASSUME a.pc \in CollectPcs
      PROVE  /\ a.row.head # None =>
                   /\ Spent(a.row.head)' /\ run'[a.row.head] = run[a.row.head]
                   /\ run[a.row.head].task = a.task
             /\ a.row.base \subseteq canon'
             /\ \/ task'[a.task].status \in Closed /\ task'[a.task].head = a.row.head
                \/ /\ task'[a.task].status = "deleted"
                   /\ a.row.head # None => a.row.head \in dropped'
             /\ task[a.task].status = "deleted" => task'[a.task].status = "deleted"
             /\ (~\E r \in Runs : run[r].task = a.task /\ Live(r)) =>
                   ~\E r \in Runs : run'[r].task = a.task /\ Live(r)'
             /\ a.task \in Tasks /\ task[a.task].status # "submitted"
  <2>1. a.task \in Tasks
    BY <1>1, <1>2 DEF Placed, CollectPcs
  <2>2. /\ a.row.head # None => Spent(a.row.head) /\ run[a.row.head].task = a.task
        /\ a.row.base \subseteq canon
        /\ \/ task[a.task].status \in Closed /\ task[a.task].head = a.row.head
           \/ /\ task[a.task].status = "deleted"
              /\ a.row.head # None => a.row.head \in dropped
    BY <1>1, <1>2 DEF Collecting
  <2>3. a.row.head # None => Spent(a.row.head)' /\ run'[a.row.head] = run[a.row.head]
    BY <2>2, SpentKept
  <2>4. task[a.task].status # "submitted"
    BY <2>2 DEF Closed
  <2>5. PICK t \in Tasks : t = a.task
    BY <2>1
  <2>6. PICK h : h = a.row.head
    OBVIOUS
  <2>7. /\ \/ task'[t].status \in Closed /\ task'[t].head = h
           \/ task'[t].status = "deleted" /\ (h # None => h \in dropped')
        /\ task[t].status = "deleted" => task'[t].status = "deleted"
        /\ (~\E r \in Runs : run[r].task = t /\ Live(r)) =>
              ~\E r \in Runs : run'[r].task = t /\ Live(r)'
    BY <2>2, <2>5, <2>6, ClosedKept
  <2> QED BY <1>1, <2>1, <2>2, <2>3, <2>4, <2>5, <2>6, <2>7
<1>3. ASSUME a.pc = "rmref", NEW x \in Tasks, task'[x].source = a.row.head
      PROVE  task'[x].released
  <2>1. /\ RowMoves(x) /\ lock = w /\ w \in {"gc", "boss"} /\ a.row.head # None
        /\ task[x].source = a.row.head => task[x].released
    BY <1>1, <1>3 DEF Moves, Placed, LockPcs, Collecting
  <2>2. Stays(x) => task'[x].released
    BY <1>3, <2>1 DEF Stays
  <2>3. ~Erased(x)
    BY <1>3, <2>1, ErasedRow DEF Erased
  <2>4. Gains(x) => task'[x].released
    BY <1>3, <2>1 DEF Gains
  <2>5. ~Made(x)
    <3>1. run[a.row.head].task = a.task /\ task[a.task].status # "submitted"
      BY <1>2, <1>3, <2>1 DEF CollectPcs
    <3>2. at["boss"].pc = "insert" => lock = "boss"
      BY DEF GitInv, WorkerSound, Workers, Placed, LockPcs
    <3>3. at["boss"].pc = "insert" => w = "boss"
      BY <2>1, <3>2
    <3> QED BY <1>3, <2>1, <3>1, <3>3 DEF Made
  <2> QED BY <2>1, <2>2, <2>3, <2>4, <2>5 DEF RowMoves
<1>4. {"rmws", "delws", "rmref", "delref"} = CollectPcs
  BY DEF CollectPcs
<1> QED BY <1>1, <1>2, <1>3, <1>4 DEF Collecting

\* A worker whose business a step leaves alone stays sound.
LEMMA Bystander ==
    ASSUME GitInv, Moves, NEW w \in Workers, Looks(w)
    PROVE  WorkerSound(w)'
<1>1. PICK a : a = at[w]
  OBVIOUS
<1>2. at'[w] = a
  BY <1>1 DEF Looks
<1>3. Placed(w, a) /\ Placed(w, a)'
  BY <1>1 DEF GitInv, WorkerSound, Looks, Placed
<1>4. Capturing(a)'
  <2>1. CASE w = "git"
    BY <1>1, <2>1, CapturingKept
  <2>2. CASE w # "git"
    <3>1. a.pc \notin GitPcs
      BY <1>3, <2>2 DEF Placed
    <3> QED BY <3>1 DEF Capturing, GitPcs, CapturePcs
  <2> QED BY <2>1, <2>2
<1>5. Advancing(a)'
  <2>1. CASE w = "git"
    BY <1>1, <2>1, AdvancingKept
  <2>2. CASE w # "git"
    <3>1. a.pc \notin GitPcs
      BY <1>3, <2>2 DEF Placed
    <3> QED BY <3>1 DEF Advancing, GitPcs, AdvancePcs
  <2> QED BY <2>1, <2>2
<1>6. Requesting(a)'
  <2>1. CASE w = "boss"
    BY <1>1, <2>1, RequestingKept
  <2>2. CASE w # "boss"
    <3>1. a.pc \notin BossPcs
      BY <1>3, <2>2 DEF Placed
    <3> QED BY <3>1 DEF Requesting, BossPcs
  <2> QED BY <2>1, <2>2
<1>7. Collecting(a)'
  BY <1>1, CollectingKept
<1> QED BY <1>2, <1>3, <1>4, <1>5, <1>6, <1>7
        DEF WorkerSound, Placed, Capturing, Advancing, Requesting, Collecting

\* A worker at rest owes nothing.
LEMMA IdleSound ==
    ASSUME NEW w \in Workers, at'[w] = Idle
    PROVE  WorkerSound(w)'
<1>1. at'[w].pc = "idle"
  BY DEF Idle
<1> QED BY <1>1 DEF WorkerSound, Placed, Capturing, Advancing, Requesting, Collecting,
                    GitPcs, BossPcs, LockPcs, CapturePcs, AdvancePcs, CollectPcs

\* The shape of every case below: worker w acts, or a transaction that is no
\* worker's (w = None), and the others look on.
LEMMA StepKeeps ==
    ASSUME GitInv, Moves, TypeOK', RowsSound', HeldSound', RefsKept', WorkspacesSound',
           RefsExplained', NEW w, w \in Workers => WorkerSound(w)',
           \A v \in Workers \ {w} : Looks(v)
    PROVE  GitInv'
<1>1. RunsSound' /\ ResultsSound'
  BY RunsSoundKept, ResultsKept
<1>2. ASSUME NEW v \in Workers PROVE WorkerSound(v)'
  BY Bystander
<1> QED BY <1>1, <1>2 DEF GitInv

-----------------------------------------------------------------------------
(* Steps that change neither rows nor refs nor workspaces.                 *)

\* A worker goes on with what it is doing.
LEMMA GotoStep ==
    ASSUME TypeOK, NEW w \in Workers, NEW pc \in Steps, Goto(w, pc)
    PROVE  /\ at' \in [Workers -> Work]
           /\ at'[w].pc = pc /\ at'[w].task = at[w].task
           /\ at'[w].row = at[w].row /\ at'[w].sha = at[w].sha
           /\ \A v \in Workers \ {w} : at'[v] = at[v]
BY DEF TypeOK, Goto, Work

\* A worker is done.
LEMMA LeaveStep ==
    ASSUME TypeOK, NEW w \in Workers, Leave(w)
    PROVE  /\ at' \in [Workers -> Work]
           /\ at'[w] = Idle
           /\ \A v \in Workers \ {w} : at'[v] = at[v]
<1>1. Idle \in Work
  BY DEF Idle, Work, Steps, NoTask, TaskRow, Commits
<1> QED BY <1>1 DEF TypeOK, Leave

\* A worker begins, with the row as it is.
LEMMA BeginStep ==
    ASSUME TypeOK, NEW w \in Workers, NEW pc \in Steps, NEW t \in Tasks, NEW sha \in Commits,
           Begin(w, pc, t, sha)
    PROVE  /\ at' \in [Workers -> Work]
           /\ at'[w].pc = pc /\ at'[w].task = t
           /\ at'[w].row = task[t] /\ at'[w].sha = sha
           /\ \A v \in Workers \ {w} : at'[v] = at[v]
           /\ at[w].pc = "idle"
<1>1. [pc |-> pc, task |-> t, row |-> task[t], sha |-> sha] \in Work
  BY DEF TypeOK, Work
<1> QED BY <1>1 DEF TypeOK, Begin, Doing

\* A step that writes no row moves nothing.
LEMMA StillMoves ==
    ASSUME GitInv, UNCHANGED <<task, run>>, canon \subseteq canon', dropped \subseteq dropped'
    PROVE  Moves /\ RowsSound'
<1>1. ASSUME NEW x \in Tasks PROVE RowMoves(x)
  <2>1. Stays(x)
    BY DEF Stays
  <2> QED BY <2>1 DEF RowMoves
<1>2. ASSUME NEW r \in Runs PROVE RunMoves(r)
  BY DEF RunMoves
<1>3. RowsSound'
  BY DEF GitInv, RowsSound, RowSound
<1> QED BY <1>1, <1>2, <1>3 DEF Moves

\* Such a step of worker w keeps the invariant if w stays sound, and if what
\* it does to handoffs and imports is.
LEMMA QuietKeeps ==
    ASSUME GitInv, UNCHANGED <<task, run, saved, ws, refs, canon, dropped, crashes>>,
           at' \in [Workers -> Work], lock' \in Workers \cup {None},
           handoff' \subseteq Runs, imports' \subseteq Runs, HeldSound', RefsExplained',
           NEW w \in Workers, WorkerSound(w)',
           \A v \in Workers \ {w} : at'[v] = at[v] /\ (lock = v => lock' = v),
           w # "git" => UNCHANGED <<handoff, imports>>
    PROVE  GitInv'
<1>1. Moves /\ RowsSound'
  BY StillMoves
<1>2. TypeOK'
  BY DEF GitInv, TypeOK
<1>3. RefsKept'
  BY <1>1, <1>2, RefsGrow
<1>4. WorkspacesSound'
  BY DEF GitInv, WorkspacesSound, WorkspaceKept, HasStarted
<1>5. ASSUME NEW v \in Workers \ {w} PROVE Looks(v)
  BY DEF Looks
<1> QED BY <1>1, <1>2, <1>3, <1>4, <1>5, StepKeeps

\* ... which it is when it adds none.
LEMMA PlainKeeps ==
    ASSUME GitInv, UNCHANGED <<task, run, saved, ws, refs, canon, dropped, crashes>>,
           at' \in [Workers -> Work], lock' \in Workers \cup {None},
           handoff' \subseteq handoff, imports' \subseteq imports, imports' \subseteq handoff',
           NEW w \in Workers, WorkerSound(w)',
           \A v \in Workers \ {w} : at'[v] = at[v] /\ (lock = v => lock' = v),
           w # "git" => UNCHANGED <<handoff, imports>>
    PROVE  GitInv'
<1>1. Moves
  BY StillMoves
<1>2. HeldSound' /\ RefsExplained'
  BY <1>1, HeldKept, ExplainedKept
<1>3. handoff' \subseteq Runs /\ imports' \subseteq Runs
  BY DEF GitInv, TypeOK
<1> QED BY <1>2, <1>3, QuietKeeps

\* What the invariant says of the lock and of imports.
LEMMA Plainly ==
    ASSUME GitInv
    PROVE  /\ TypeOK /\ lock \in Workers \cup {None} /\ imports \subseteq handoff
           /\ canon \in Commits /\ saved \in Commits /\ {} \in Commits
           /\ "git" \in Workers /\ "gc" \in Workers /\ "boss" \in Workers
           /\ None \notin Workers
           /\ \A w \in Workers : WorkerSound(w)
BY GitAssumption DEF GitInv, TypeOK, HeldSound, Workers, Commits

\* createWorkTask reads its source.
LEMMA KeepReadSource ==
    ASSUME GitInv, NEW s \in Tasks, ReadSource(s)
    PROVE  GitInv'
<1>1. UNCHANGED <<task, run, saved, ws, handoff, refs, imports, canon, dropped, crashes, lock>>
  BY DEF ReadSource, rows, repository, NoLock
<1>2. /\ at' \in [Workers -> Work] /\ at'["boss"].pc = "source"
      /\ at'["boss"].task = s /\ at'["boss"].row = task[s] /\ at'["boss"].sha = canon
      /\ \A v \in Workers \ {"boss"} : at'[v] = at[v]
  <2>1. Begin("boss", "source", s, canon) /\ "source" \in Steps
    BY DEF ReadSource, Steps
  <2> QED BY <2>1, Plainly, BeginStep
<1>3. IsSource(task[s])
  BY DEF ReadSource
<1>4. WorkerSound("boss")'
  BY <1>1, <1>2, <1>3
     DEF WorkerSound, Placed, Capturing, Advancing, Requesting, Collecting, IsSource,
         GitPcs, BossPcs, LockPcs, CapturePcs, AdvancePcs, CollectPcs
<1> QED BY <1>1, <1>2, <1>4, Plainly, PlainKeeps

\* UseTaskRef finds the ref and keeps the lock, or gives up.
LEMMA KeepUseTaskRef ==
    ASSUME GitInv, UseTaskRef
    PROVE  GitInv'
<1>1. /\ UNCHANGED <<task, run, saved, ws, handoff, refs, imports, canon, dropped, crashes>>
      /\ at["boss"].pc = "source" /\ lock = None /\ lock' \in {None, "boss"}
  BY DEF UseTaskRef, rows, repository, Acquire, Locked, Doing
<1>2. CASE at["boss"].row.head \in refs
  <2>1. lock' = "boss" /\ Goto("boss", "insert")
    BY <1>2 DEF UseTaskRef, Acquire
  <2>2. /\ at' \in [Workers -> Work] /\ at'["boss"].pc = "insert"
        /\ at'["boss"].task = at["boss"].task /\ at'["boss"].row = at["boss"].row
        /\ at'["boss"].sha = at["boss"].sha
        /\ \A v \in Workers \ {"boss"} : at'[v] = at[v]
    BY <2>1, Plainly, GotoStep DEF Steps
  <2>3. /\ at["boss"].task \in Tasks /\ at["boss"].sha \subseteq canon
        /\ IsSource(at["boss"].row)
    BY <1>1, Plainly DEF WorkerSound, Placed, Requesting
  <2>4. WorkerSound("boss")'
    BY <1>1, <1>2, <2>1, <2>2, <2>3
       DEF WorkerSound, Placed, Capturing, Advancing, Requesting, Collecting, IsSource,
           GitPcs, BossPcs, LockPcs, CapturePcs, AdvancePcs, CollectPcs
  <2> QED BY <1>1, <2>2, <2>4, Plainly, PlainKeeps
<1>3. CASE at["boss"].row.head \notin refs
  <2>1. Leave("boss")
    BY <1>3 DEF UseTaskRef
  <2> QED BY <1>1, <2>1, Plainly, LeaveStep, IdleSound, PlainKeeps
<1> QED BY <1>2, <1>3

\* The reconciler takes a pending capture of an ended run.
LEMMA KeepTakeCapture ==
    ASSUME GitInv, NEW t \in Tasks, TakeCapture(t)
    PROVE  GitInv'
<1>1. /\ UNCHANGED <<task, run, saved, ws, handoff, refs, imports, canon, dropped, crashes, lock>>
      /\ task[t].pending = "capture" /\ run[task[t].run].state = "ended"
  BY DEF TakeCapture, rows, repository
<1>2. /\ at' \in [Workers -> Work] /\ at'["git"].pc = "check"
      /\ at'["git"].task = t /\ at'["git"].row = task[t]
      /\ \A v \in Workers \ {"git"} : at'[v] = at[v]
  <2>1. Begin("git", "check", t, {}) /\ "check" \in Steps
    BY DEF TakeCapture, Steps
  <2> QED BY <2>1, Plainly, BeginStep
<1>3. task[t].run \in Runs
  BY <1>1, Plainly, FieldTypes DEF GitInv, RowsSound, RowSound
<1>4. WorkerSound("git")'
  BY <1>1, <1>2, <1>3
     DEF WorkerSound, Placed, Capturing, Advancing, Requesting, Collecting,
         GitPcs, BossPcs, LockPcs, CapturePcs, AdvancePcs, CollectPcs
<1> QED BY <1>1, <1>2, <1>4, Plainly, PlainKeeps

\* What the reconciler knows of the capture it is at.
LEMMA AtCapture ==
    ASSUME GitInv, at["git"].pc \in CapturePcs
    PROVE  /\ at["git"].task \in Tasks
           /\ task[at["git"].task] = at["git"].row
           /\ at["git"].row.pending = "capture"
           /\ Captured \in Runs /\ run[Captured].state = "ended"
           /\ run[Captured].task = at["git"].task
           /\ at["git"].row.run = Captured
           /\ \A w \in Workers \ {"git"} : w # "git"
<1>1. Placed("git", at["git"]) /\ Capturing(at["git"])
  BY Plainly DEF WorkerSound
<1>2. at["git"].task \in Tasks
  BY <1>1 DEF Placed, CapturePcs
<1>3. /\ task[at["git"].task] = at["git"].row /\ at["git"].row.pending = "capture"
      /\ Captured \in Runs /\ run[Captured].state = "ended"
      /\ at["git"].row.run = Captured
  BY <1>1 DEF Capturing, Captured
<1>4. run[Captured].task = at["git"].task
  BY <1>2, <1>3, GitAssumption DEF GitInv, RunsSound
<1> QED BY <1>2, <1>3, <1>4

\* A step of a capture takes the reconciler to another step of it.
LEMMA CaptureGoes ==
    ASSUME GitInv, UNCHANGED <<task, run>>,
           at["git"].pc \in CapturePcs, NEW pc \in CapturePcs, Goto("git", pc),
           pc \in LockPcs => lock' = "git",
           pc = "refused" => Captured \notin handoff',
           pc \in {"import", "publish", "unimport"} => Captured \in handoff',
           pc \in {"unimport", "captured"} => Captured \in refs',
           pc = "captured" => Captured \notin imports'
    PROVE  /\ at' \in [Workers -> Work]
           /\ \A v \in Workers \ {"git"} : at'[v] = at[v]
           /\ WorkerSound("git")'
<1>1. /\ at' \in [Workers -> Work] /\ at'["git"].pc = pc
      /\ at'["git"].task = at["git"].task /\ at'["git"].row = at["git"].row
      /\ \A v \in Workers \ {"git"} : at'[v] = at[v]
  <2>1. pc \in Steps
    BY DEF CapturePcs, Steps
  <2> QED BY <2>1, Plainly, GotoStep
<1>2. pc \in GitPcs /\ pc \notin BossPcs \cup AdvancePcs \cup CollectPcs \cup {"release", "cleanup", "idle"}
  BY DEF GitPcs, BossPcs, CapturePcs, AdvancePcs, CollectPcs
<1>3. Placed("git", at["git"])'
  BY <1>1, <1>2, AtCapture DEF Placed, CollectPcs
<1>4. Capturing(at["git"])'
  BY <1>1, <1>2, AtCapture DEF Capturing
<1>5. Advancing(at["git"])' /\ Requesting(at["git"])' /\ Collecting(at["git"])'
  BY <1>1, <1>2 DEF Advancing, Requesting, Collecting, AdvancePcs, BossPcs, CollectPcs
<1> QED BY <1>1, <1>3, <1>4, <1>5 DEF WorkerSound

\* An earlier attempt has made the ref, or the helper is called.
LEMMA KeepCheckExisting ==
    ASSUME GitInv, CheckExisting
    PROVE  GitInv'
<1>1. /\ UNCHANGED <<task, run, saved, ws, handoff, refs, canon, dropped, crashes, lock>>
      /\ at["git"].pc = "check"
      /\ imports' \subseteq imports
      /\ \/ Goto("git", "captured") /\ Captured \in refs /\ Captured \notin imports'
         \/ Goto("git", "helper")
  BY DEF CheckExisting, rows, Locked, Doing, DropImport
<1>2. /\ at["git"].pc \in CapturePcs /\ "captured" \in CapturePcs /\ "helper" \in CapturePcs
      /\ "captured" \notin LockPcs /\ "helper" \notin LockPcs
  BY <1>1 DEF CapturePcs, LockPcs
<1>3. /\ at' \in [Workers -> Work]
      /\ \A v \in Workers \ {"git"} : at'[v] = at[v]
      /\ WorkerSound("git")'
  BY <1>1, <1>2, CaptureGoes
<1> QED BY <1>1, <1>3, Plainly, PlainKeeps

\* The helper publishes a handoff that has passed its checks, or fails.
LEMMA KeepRunHelper ==
    ASSUME GitInv, RunHelper
    PROVE  GitInv'
<1>1. /\ UNCHANGED <<task, run, saved, ws, refs, imports, canon, dropped, crashes, lock>>
      /\ at["git"].pc = "helper"
  BY DEF RunHelper, rows, repository, Doing
<1>2. /\ at["git"].pc \in CapturePcs /\ "import" \in CapturePcs /\ "refused" \in CapturePcs
      /\ "import" \notin LockPcs /\ "refused" \notin LockPcs
  BY <1>1 DEF CapturePcs, LockPcs
<1>3. Moves
  BY <1>1, StillMoves
<1>4. CASE /\ Captured \in handoff \/ Capturable(at["git"].task)
           /\ Goto("git", "import") /\ handoff' = handoff \cup {Captured}
  <2>1. /\ at' \in [Workers -> Work]
        /\ \A v \in Workers \ {"git"} : at'[v] = at[v]
        /\ WorkerSound("git")'
    BY <1>1, <1>2, <1>4, CaptureGoes
  <2>2. ContainsInputs(task[run[Captured].task], run[Captured].sha)
    <3>1. CASE Captured \in handoff
      BY <3>1 DEF GitInv, HeldSound
    <3>2. CASE Capturable(at["git"].task)
      BY <1>2, <3>2, AtCapture DEF Capturable
    <3> QED BY <1>4, <3>1, <3>2
  <2>3. HeldSound'
    BY <1>1, <1>2, <1>4, <2>2, AtCapture DEF GitInv, HeldSound, ContainsInputs, Source
  <2>4. RefsExplained'
    BY <1>1, <1>3, ExplainedKept
  <2>5. handoff' \subseteq Runs /\ imports' \subseteq Runs
    BY <1>1, <1>2, <1>4, AtCapture DEF GitInv, TypeOK
  <2> QED BY <1>1, <2>1, <2>3, <2>4, <2>5, Plainly, QuietKeeps
<1>5. CASE Captured \notin handoff /\ Goto("git", "refused") /\ UNCHANGED handoff
  <2>1. /\ at' \in [Workers -> Work]
        /\ \A v \in Workers \ {"git"} : at'[v] = at[v]
        /\ WorkerSound("git")'
    BY <1>1, <1>2, <1>5, CaptureGoes
  <2> QED BY <1>1, <1>5, <2>1, Plainly, PlainKeeps
<1> QED BY <1>4, <1>5 DEF RunHelper

\* importCapture makes the import ref of a pending capture, under the lock.
LEMMA KeepImportCapture ==
    ASSUME GitInv, ImportCapture
    PROVE  GitInv'
<1>1. /\ UNCHANGED <<task, run, saved, ws, handoff, refs, canon, dropped, crashes>>
      /\ at["git"].pc = "import" /\ lock = None /\ lock' = "git"
      /\ imports' = imports \cup {Captured} /\ Goto("git", "publish")
  BY DEF ImportCapture, rows, Acquire, Doing
<1>2. /\ at["git"].pc \in CapturePcs /\ "publish" \in CapturePcs
  BY <1>1 DEF CapturePcs
<1>3. Captured \in handoff
  BY <1>1, Plainly DEF WorkerSound, Capturing, Captured
<1>4. /\ at' \in [Workers -> Work]
      /\ \A v \in Workers \ {"git"} : at'[v] = at[v]
      /\ WorkerSound("git")'
  BY <1>1, <1>2, <1>3, CaptureGoes
<1>5. HeldSound'
  BY <1>1, <1>3 DEF GitInv, HeldSound, ContainsInputs, Source
<1>6. RefsExplained'
  <2>1. task[at["git"].task].pending = "capture" /\ task[at["git"].task].run = Captured
    BY <1>2, AtCapture
  <2> QED BY <1>1, <1>2, <2>1, AtCapture DEF GitInv, RefsExplained, Head
<1>7. handoff' \subseteq Runs /\ imports' \subseteq Runs
  BY <1>1, <1>2, AtCapture DEF GitInv, TypeOK
<1> QED BY <1>1, <1>4, <1>5, <1>6, <1>7, Plainly, QuietKeeps

\* The import ref is deleted again and the lock released.
LEMMA KeepDeleteImport ==
    ASSUME GitInv, DeleteImport
    PROVE  GitInv'
<1>1. /\ UNCHANGED <<task, run, saved, ws, handoff, refs, canon, dropped, crashes>>
      /\ at["git"].pc = "unimport" /\ lock' = None
      /\ imports' = imports \ {Captured} /\ Goto("git", "captured")
  BY DEF DeleteImport, rows, Release, Doing
<1>2. /\ at["git"].pc \in CapturePcs /\ "captured" \in CapturePcs /\ "captured" \notin LockPcs
  BY <1>1 DEF CapturePcs, LockPcs
<1>3. Captured \in refs /\ lock = "git"
  BY <1>1, Plainly DEF WorkerSound, Placed, LockPcs, Capturing, Captured
<1>4. /\ at' \in [Workers -> Work]
      /\ \A v \in Workers \ {"git"} : at'[v] = at[v]
      /\ WorkerSound("git")'
  BY <1>1, <1>2, <1>3, CaptureGoes
<1> QED BY <1>1, <1>3, <1>4, Plainly, PlainKeeps

\* The handoff of a finished capture is removed; its import ref is gone.
LEMMA KeepCleanupCapture ==
    ASSUME GitInv, CleanupCapture
    PROVE  GitInv'
<1>1. /\ UNCHANGED <<task, run, saved, ws, refs, imports, canon, dropped, crashes, lock>>
      /\ at["git"].pc = "cleanup" /\ handoff' = handoff \ {Captured} /\ Leave("git")
  BY DEF CleanupCapture, rows, repository, Doing
<1>2. Captured \notin imports
  BY <1>1, Plainly DEF WorkerSound, Capturing, Captured
<1> QED BY <1>1, <1>2, Plainly, LeaveStep, IdleSound, PlainKeeps

\* RequestAccept reads the row it will compare.
LEMMA KeepReadAccept ==
    ASSUME GitInv, NEW t \in Tasks, ReadAccept(t)
    PROVE  GitInv'
<1>1. /\ UNCHANGED <<task, run, saved, ws, handoff, refs, imports, canon, dropped, crashes, lock>>
      /\ task[t].status = "submitted" /\ task[t].pending = "none"
  BY DEF ReadAccept, Acceptable, ActionAvailable, Locked, rows, repository
<1>2. /\ at' \in [Workers -> Work] /\ at'["boss"].pc = "accept"
      /\ at'["boss"].task = t /\ at'["boss"].row = task[t]
      /\ \A v \in Workers \ {"boss"} : at'[v] = at[v]
  <2>1. Begin("boss", "accept", t, saved) /\ "accept" \in Steps
    BY DEF ReadAccept, Steps
  <2> QED BY <2>1, Plainly, BeginStep
<1>3. WorkerSound("boss")'
  BY <1>1, <1>2
     DEF WorkerSound, Placed, Capturing, Advancing, Requesting, Collecting,
         GitPcs, BossPcs, LockPcs, CapturePcs, AdvancePcs, CollectPcs
<1> QED BY <1>1, <1>2, <1>3, Plainly, PlainKeeps

\* The reconciler takes a pending advance.
LEMMA KeepTakeAdvance ==
    ASSUME GitInv, NEW t \in Tasks, TakeAdvance(t)
    PROVE  GitInv'
<1>1. /\ UNCHANGED <<task, run, saved, ws, handoff, refs, imports, canon, dropped, crashes, lock>>
      /\ task[t].pending = "advance"
  BY DEF TakeAdvance, rows, repository
<1>2. /\ at' \in [Workers -> Work] /\ at'["git"].pc = "advance"
      /\ at'["git"].task = t /\ at'["git"].row = task[t]
      /\ \A v \in Workers \ {"git"} : at'[v] = at[v]
  <2>1. Begin("git", "advance", t, {}) /\ "advance" \in Steps
    BY DEF TakeAdvance, Steps
  <2> QED BY <2>1, Plainly, BeginStep
<1>3. WorkerSound("git")'
  BY <1>1, <1>2
     DEF WorkerSound, Placed, Capturing, Advancing, Requesting, Collecting,
         GitPcs, BossPcs, LockPcs, CapturePcs, AdvancePcs, CollectPcs
<1> QED BY <1>1, <1>2, <1>3, Plainly, PlainKeeps

\* What the row of a closed task gives its collector.
LEMMA ClosedRow ==
    ASSUME GitInv, NEW t \in Tasks
    PROVE  /\ task[t].head # None => Spent(task[t].head) /\ run[task[t].head].task = t
           /\ task[t].base \subseteq canon
BY DEF GitInv, ResultsSound, ResultSound

\* A collection of a closed task's workspace is authorized under the lock.
LEMMA KeepAuthorizeWorkspace ==
    ASSUME GitInv, NEW w \in {"gc", "boss"}, NEW t \in Tasks, AuthorizeWorkspace(w, t)
    PROVE  GitInv'
<1>1. /\ UNCHANGED <<task, run, saved, ws, handoff, refs, imports, canon, dropped, crashes>>
      /\ lock = None /\ lock' = w /\ task[t].status \in Closed
      /\ ~\E r \in Runs : run[r].task = t /\ Live(r)
  BY DEF AuthorizeWorkspace, WorkspaceEligible, Acquire, rows, repository
<1>2. w \in Workers /\ w # "git"
  BY DEF Workers
<1>3. /\ at' \in [Workers -> Work] /\ at'[w].pc = "rmws"
      /\ at'[w].task = t /\ at'[w].row = task[t]
      /\ \A v \in Workers \ {w} : at'[v] = at[v]
  <2>1. Begin(w, "rmws", t, {}) /\ "rmws" \in Steps
    BY DEF AuthorizeWorkspace, Steps
  <2> QED BY <1>2, <2>1, Plainly, BeginStep
<1>4. Collecting(at[w])'
  BY <1>1, <1>3, ClosedRow DEF Collecting, CollectPcs, Spent, Live
<1>5. WorkerSound(w)'
  BY <1>1, <1>3, <1>4
     DEF WorkerSound, Placed, Capturing, Advancing, Requesting,
         GitPcs, BossPcs, LockPcs, CapturePcs, AdvancePcs
<1> QED BY <1>1, <1>2, <1>3, <1>5, Plainly, PlainKeeps

\* A collection of a ref that no task depends on is authorized under the lock.
LEMMA KeepAuthorizeRef ==
    ASSUME GitInv, NEW w \in {"gc", "boss"}, NEW t \in Tasks, AuthorizeRef(w, t)
    PROVE  GitInv'
<1>1. /\ UNCHANGED <<task, run, saved, ws, handoff, refs, imports, canon, dropped, crashes>>
      /\ lock = None /\ lock' = w /\ task[t].status \in Closed /\ task[t].head # None
      /\ \A x \in Tasks : task[x].source = task[t].head => task[x].released
  BY DEF AuthorizeRef, TaskRefEligible, Acquire, rows, repository
<1>2. w \in Workers /\ w # "git"
  BY DEF Workers
<1>3. /\ at' \in [Workers -> Work] /\ at'[w].pc = "rmref"
      /\ at'[w].task = t /\ at'[w].row = task[t]
      /\ \A v \in Workers \ {w} : at'[v] = at[v]
  <2>1. Begin(w, "rmref", t, {}) /\ "rmref" \in Steps
    BY DEF AuthorizeRef, Steps
  <2> QED BY <1>2, <2>1, Plainly, BeginStep
<1>4. Collecting(at[w])'
  BY <1>1, <1>3, ClosedRow DEF Collecting, CollectPcs, Spent
<1>5. WorkerSound(w)'
  BY <1>1, <1>3, <1>4
     DEF WorkerSound, Placed, Capturing, Advancing, Requesting,
         GitPcs, BossPcs, LockPcs, CapturePcs, AdvancePcs
<1> QED BY <1>1, <1>2, <1>3, <1>5, Plainly, PlainKeeps

\* A crash leaves everything durable, and the handoffs that imports come from.
LEMMA KeepCrash ==
    ASSUME GitInv, Crash
    PROVE  GitInv'
<1>1. /\ UNCHANGED <<task, run, saved, ws, refs, imports, canon, dropped>>
      /\ handoff' \subseteq handoff /\ lock' = None /\ at' = [w \in Workers |-> Idle]
      /\ crashes < MaxCrashes /\ crashes' = crashes + 1
  BY DEF Crash, rows, repository
<1>2. Moves /\ RowsSound'
  BY <1>1, StillMoves
<1>3. TypeOK'
  <2>1. Idle \in Work
    BY DEF Idle, Work, Steps, NoTask, TaskRow, Commits
  <2>2. crashes' \in 0..MaxCrashes
    BY <1>1, GitAssumption DEF GitInv, TypeOK
  <2> QED BY <1>1, <2>1, <2>2 DEF GitInv, TypeOK
<1>4. imports' \subseteq handoff'
  BY <1>1 DEF Crash, GitInv, HeldSound, RefsExplained
<1>5. HeldSound' /\ RefsExplained' /\ RefsKept' /\ RunsSound' /\ ResultsSound'
  BY <1>1, <1>2, <1>3, <1>4, HeldKept, ExplainedKept, RefsGrow, RunsSoundKept, ResultsKept
<1>6. WorkspacesSound'
  BY <1>1 DEF GitInv, WorkspacesSound, WorkspaceKept, HasStarted
<1>7. \A w \in Workers : WorkerSound(w)'
  BY <1>1, IdleSound
<1> QED BY <1>2, <1>3, <1>5, <1>6, <1>7 DEF GitInv

-----------------------------------------------------------------------------
(* Steps that change refs.                                                 *)

\* A step of worker w that changes only refs keeps the invariant if no result
\* is lost and w stays sound.
LEMMA RefStep ==
    ASSUME GitInv, UNCHANGED <<task, run, saved, ws, handoff, imports, canon, crashes>>,
           dropped \subseteq dropped', dropped' \subseteq Runs,
           refs' \subseteq handoff \cup refs, RefsKept',
           at' \in [Workers -> Work], lock' \in Workers \cup {None},
           NEW w \in Workers, WorkerSound(w)',
           \A v \in Workers \ {w} : at'[v] = at[v] /\ (lock = v => lock' = v),
           \A r \in refs \ refs' : Spent(r) /\ lock \in {None, w}
    PROVE  GitInv'
<1>1. Moves /\ RowsSound'
  BY StillMoves
<1>2. TypeOK'
  BY DEF GitInv, TypeOK
<1>3. HeldSound' /\ RefsExplained'
  <2>1. imports \subseteq handoff
    BY Plainly
  <2> QED BY <1>1, <2>1, HeldKept, ExplainedKept
<1>4. WorkspacesSound'
  BY DEF GitInv, WorkspacesSound, WorkspaceKept, HasStarted
<1>5. ASSUME NEW v \in Workers \ {w} PROVE Looks(v)
  <2>1. v # None
    BY GitAssumption
  <2> QED BY <2>1 DEF Looks
<1> QED BY <1>1, <1>2, <1>3, <1>4, <1>5, StepKeeps

\* The task ref is created from a handoff.
LEMMA KeepPublishRef ==
    ASSUME GitInv, PublishRef
    PROVE  GitInv'
<1>1. /\ UNCHANGED <<task, run, saved, ws, handoff, imports, canon, dropped, crashes, lock>>
      /\ at["git"].pc = "publish" /\ refs' = refs \cup {Captured} /\ Goto("git", "unimport")
  BY DEF PublishRef, rows, Doing
<1>2. at["git"].pc \in CapturePcs /\ "unimport" \in CapturePcs
  BY <1>1 DEF CapturePcs
<1>3. Captured \in handoff /\ lock = "git"
  BY <1>1, Plainly DEF WorkerSound, Placed, LockPcs, Capturing, Captured
<1>4. /\ at' \in [Workers -> Work]
      /\ \A v \in Workers \ {"git"} : at'[v] = at[v]
      /\ WorkerSound("git")'
  BY <1>1, <1>2, <1>3, CaptureGoes
<1>5. Moves /\ RowsSound'
  BY <1>1, StillMoves
<1>6. TypeOK'
  BY <1>1, <1>3, <1>4 DEF GitInv, TypeOK
<1>7. RefsKept'
  BY <1>1, <1>5, <1>6, RefsGrow
<1>8. dropped' \subseteq Runs
  BY <1>6 DEF TypeOK
<1> QED BY <1>1, <1>3, <1>4, <1>7, <1>8, Plainly, RefStep

\* A ref may go if its task is deleted, or closed with the result included or
\* given up and no task depending on it.
LEMMA RefRemoved ==
    ASSUME GitInv, UNCHANGED <<task, run, canon>>, dropped \subseteq dropped',
           NEW h, refs' = refs \ {h}, Spent(h), NEW t \in Tasks, run[h].task = t,
           \/ task[t].status = "deleted"
           \/ /\ task[t].status \in Closed
              /\ run[h].sha \subseteq canon \/ h \in dropped'
              /\ \A x \in Tasks : task[x].source = h => task[x].released
    PROVE  RefsKept'
<1> SUFFICES ASSUME NEW x \in Tasks, Exists(x)
             PROVE  /\ task[x].head # None =>
                          \/ task[x].head \in refs'
                          \/ /\ task[x].status \in Closed
                             /\ \/ run[task[x].head].sha \subseteq canon
                                \/ task[x].head \in dropped'
                    /\ task[x].source # None /\ ~task[x].released =>
                          \/ task[x].source \in refs'
                          \/ task[run[task[x].source].task].status = "deleted"
  BY DEF RefsKept, Exists, Head
<1>1. /\ task[x].head # None => \/ task[x].head \in refs
                                \/ /\ task[x].status \in Closed
                                   /\ \/ run[task[x].head].sha \subseteq canon
                                      \/ task[x].head \in dropped
      /\ task[x].source # None /\ ~task[x].released =>
            \/ task[x].source \in refs
            \/ task[run[task[x].source].task].status = "deleted"
  BY DEF GitInv, RefsKept, Head
<1>2. task[x].head = h => x = t
  BY ClosedRow, GitAssumption DEF Spent
<1>3. task[x].status # "deleted"
  BY DEF Exists
<1> QED BY <1>1, <1>2, <1>3

\* The ref of a deleted task is removed, whoever else names it.
LEMMA KeepDeleteRef ==
    ASSUME GitInv, DeleteRef
    PROVE  GitInv'
<1> DEFINE a == at["boss"]
           h == a.row.head
<1>1. /\ UNCHANGED <<task, run, saved, ws, handoff, imports, canon, dropped, crashes, lock>>
      /\ a.pc = "delref" /\ lock = None /\ refs' = refs \ {h} /\ Leave("boss")
  BY DEF DeleteRef, rows, Doing, Locked
<1>2. Placed("boss", a) /\ Collecting(a)
  BY Plainly DEF WorkerSound
<1>3. a.task \in Tasks
  BY <1>1, <1>2 DEF Placed
<1>4. Spent(h) /\ run[h].task = a.task /\ task[a.task].status = "deleted"
  BY <1>1, <1>2 DEF Collecting, CollectPcs
<1>5. RefsKept'
  BY <1>1, <1>3, <1>4, RefRemoved
<1>6. dropped' \subseteq Runs
  BY <1>1 DEF GitInv, TypeOK
<1> QED BY <1>1, <1>4, <1>5, <1>6, Plainly, LeaveStep, IdleSound, RefStep

\* The ref of a closed task is removed, if canonical holds its result or the
\* operator gives it up.
LEMMA KeepRemoveRef ==
    ASSUME GitInv, NEW w \in {"gc", "boss"}, RemoveRef(w)
    PROVE  GitInv'
<1> DEFINE a == at[w]
           h == a.row.head
<1>1. /\ UNCHANGED <<task, run, saved, ws, handoff, imports, canon, crashes>>
      /\ a.pc = "rmref" /\ lock' = None /\ Leave(w)
      /\ refs' = IF run[h].sha \subseteq canon \/ w = "boss" THEN refs \ {h} ELSE refs
      /\ dropped' = IF w = "boss" THEN dropped \cup {h} ELSE dropped
  BY DEF RemoveRef, rows, Doing, Release, Included, Head
<1>2. Placed(w, a) /\ Collecting(a) /\ w \in Workers
  BY Plainly DEF WorkerSound, Workers
<1>3. a.task \in Tasks /\ lock = w
  BY <1>1, <1>2 DEF Placed, LockPcs
<1>4. /\ Spent(h) /\ run[h].task = a.task
      /\ task[a.task].status \in Closed \/ task[a.task].status = "deleted"
      /\ \A x \in Tasks : task[x].source = h => task[x].released
  BY <1>1, <1>2 DEF Collecting, CollectPcs
<1>5. dropped \subseteq dropped' /\ dropped' \subseteq Runs
  BY <1>1, <1>4 DEF GitInv, TypeOK, Spent
<1>6. RefsKept'
  <2>1. CASE refs' = refs \ {h} /\ (run[h].sha \subseteq canon \/ w = "boss")
    <3>1. run[h].sha \subseteq canon \/ h \in dropped'
      BY <1>1, <2>1
    <3> QED BY <1>1, <1>3, <1>4, <1>5, <2>1, <3>1, RefRemoved
  <2>2. CASE refs' = refs
    BY <1>1, <1>5, <2>2 DEF GitInv, RefsKept, Exists, Head
  <2> QED BY <1>1, <2>1, <2>2
<1> HIDE DEF a, h
<1>7. refs' \subseteq refs /\ \A r \in refs \ refs' : r = h
  BY <1>1
<1>8. /\ at' \in [Workers -> Work] /\ at'[w] = Idle
      /\ \A v \in Workers \ {w} : at'[v] = at[v]
  BY <1>1, <1>2, Plainly, LeaveStep
<1>9. WorkerSound(w)'
  BY <1>2, <1>8, IdleSound
<1> QED BY <1>1, <1>2, <1>3, <1>4, <1>5, <1>6, <1>7, <1>8, <1>9, RefStep

\* The canonical branch moves forward to a result whose advance is pending.
LEMMA KeepAdvance ==
    ASSUME GitInv, Advance
    PROVE  GitInv'
<1> DEFINE a == at["git"]
           h == a.row.head
<1>1. /\ UNCHANGED <<task, run, saved, ws, handoff, refs, imports, dropped, crashes, lock>>
      /\ a.pc = "advance" /\ canon \subseteq canon'
      /\ \/ /\ canon' = run[h].sha \/ (canon' = canon /\ run[h].sha \subseteq canon)
            /\ at' = [at EXCEPT !["git"].pc = "advanced", !["git"].sha = canon']
         \/ /\ canon' = canon
            /\ at' = [at EXCEPT !["git"].pc = "stale", !["git"].sha = canon']
  BY DEF Advance, rows, Doing, Locked, AlreadyIncluded, FastForward, Head
<1>2. Placed("git", a) /\ Advancing(a)
  BY Plainly DEF WorkerSound
<1>3. a.task \in Tasks /\ task[a.task] = a.row /\ a.row.pending = "advance"
  BY <1>1, <1>2 DEF Placed, Advancing, AdvancePcs
<1>4. h \in Runs /\ run[h].sha \in Commits
  <2>1. Spent(h)
    BY <1>3 DEF GitInv, RowsSound, RowSound, ResultsSound, ResultSound
  <2> QED BY <2>1, Plainly, FieldTypes DEF Spent
<1>5. canon' \in Commits
  BY <1>1, <1>4, Plainly
<1>6. /\ at' \in [Workers -> Work] /\ at'["git"].pc \in {"advanced", "stale"}
      /\ at'["git"].task = a.task /\ at'["git"].row = a.row /\ at'["git"].sha = canon'
      /\ \A v \in Workers \ {"git"} : at'[v] = at[v]
      /\ at'["git"].pc = "advanced" => run[h].sha \subseteq canon'
  BY <1>1, <1>5, Plainly DEF TypeOK, Work, Steps
<1>7. Moves /\ RowsSound'
  BY <1>1, StillMoves
<1>8. TypeOK'
  BY <1>1, <1>5, <1>6 DEF GitInv, TypeOK
<1>9. RefsExplained'
  <2>1. CASE canon' = canon
    BY <1>1, <1>7, <2>1, ExplainedKept
  <2>2. CASE canon' = run[h].sha
    BY <1>1, <1>3, <2>2 DEF GitInv, RefsExplained, Head
  <2> QED BY <1>1, <2>1, <2>2
<1>10. HeldSound' /\ RefsKept' /\ WorkspacesSound'
  <2>1. HeldSound' /\ RefsKept'
    BY <1>1, <1>7, <1>8, Plainly, HeldKept, RefsGrow
  <2>2. WorkspacesSound'
    BY <1>1 DEF GitInv, WorkspacesSound, WorkspaceKept, HasStarted
  <2> QED BY <2>1, <2>2
<1>11. WorkerSound("git")'
  BY <1>1, <1>3, <1>6
     DEF WorkerSound, Placed, Capturing, Advancing, Requesting, Collecting, Head,
         GitPcs, BossPcs, LockPcs, CapturePcs, AdvancePcs, CollectPcs
<1>12. ASSUME NEW v \in Workers \ {"git"} PROVE Looks(v)
  BY <1>1, <1>6 DEF Looks
<1> QED BY <1>7, <1>8, <1>9, <1>10, <1>11, <1>12, StepKeeps

-----------------------------------------------------------------------------
(* Steps that remove a workspace.                                          *)

\* The workspace of a task that is closed or deleted and has no live run may
\* go.
LEMMA WorkspaceGoes ==
    ASSUME GitInv,
           UNCHANGED <<task, run, saved, handoff, refs, imports, canon, dropped, crashes>>,
           NEW t \in Tasks, ws' \in {ws, [ws EXCEPT ![t] = NoWorkspace]},
           task[t].status \in Closed \/ task[t].status = "deleted",
           ~\E r \in Runs : run[r].task = t /\ Live(r),
           at' \in [Workers -> Work], lock' \in Workers \cup {None},
           NEW w \in Workers, WorkerSound(w)',
           \A v \in Workers \ {w} : at'[v] = at[v] /\ (lock = v => lock' = v)
    PROVE  GitInv'
<1>1. Moves /\ RowsSound'
  BY StillMoves
<1>2. ws' \in [Tasks -> Workspaces] /\ \A x \in Tasks \ {t} : ws'[x] = ws[x]
  <2>1. NoWorkspace \in Workspaces
    BY DEF NoWorkspace, Workspaces, Commits
  <2>2. ws \in [Tasks -> Workspaces]
    BY DEF GitInv, TypeOK
  <2>3. CASE ws' = ws
    BY <2>2, <2>3
  <2>4. CASE ws' = [ws EXCEPT ![t] = NoWorkspace]
    BY <2>1, <2>2, <2>4
  <2> QED BY <2>3, <2>4
<1>3. TypeOK'
  BY <1>2 DEF GitInv, TypeOK
<1>4. RefsKept' /\ HeldSound' /\ RefsExplained'
  BY <1>1, <1>3, Plainly, RefsGrow, HeldKept, ExplainedKept
<1>5. WorkspacesSound'
  <2>1. task[t].status \notin Open
    BY DEF Open, Closed
  <2>2. \A r \in Runs : run[r].state \in {"prepared", "live", "wrote"} =>
           run[r].task # t /\ run[r].task \in Tasks
    BY DEF Live, GitInv, RunsSound
  <2> QED BY <1>2, <2>1, <2>2 DEF GitInv, WorkspacesSound, WorkspaceKept, HasStarted
<1>6. ASSUME NEW v \in Workers \ {w} PROVE Looks(v)
  BY DEF Looks
<1> QED BY <1>1, <1>3, <1>4, <1>5, <1>6, StepKeeps

\* WorkspaceManager.Delete and Discard.
LEMMA KeepRemoveWorkspace ==
    ASSUME GitInv, NEW w \in {"gc", "boss"}, RemoveWorkspace(w)
    PROVE  GitInv'
<1> DEFINE a == at[w]
           t == a.task
<1>1. /\ UNCHANGED <<task, run, saved, handoff, refs, imports, canon, dropped, crashes>>
      /\ a.pc = "rmws" /\ lock' = None
      /\ \/ ws' = [ws EXCEPT ![t] = NoWorkspace] /\ Goto(w, "release")
         \/ ws' = ws /\ Leave(w)
  BY DEF RemoveWorkspace, rows, repository, Doing, Release
<1>2. Placed(w, a) /\ Collecting(a) /\ w \in Workers
  BY Plainly DEF WorkerSound, Workers
<1>3. t \in Tasks /\ lock = w
  BY <1>1, <1>2 DEF Placed, LockPcs
<1>4. /\ task[t].status \in Closed \/ task[t].status = "deleted"
      /\ ~\E r \in Runs : run[r].task = t /\ Live(r)
  BY <1>1, <1>2 DEF Collecting, CollectPcs
<1>5. CASE Goto(w, "release")
  <2>1. /\ at' \in [Workers -> Work] /\ at'[w].pc = "release" /\ at'[w].task = t
        /\ \A v \in Workers \ {w} : at'[v] = at[v]
    <3>1. "release" \in Steps
      BY DEF Steps
    <3> QED BY <1>2, <1>5, <3>1, Plainly, GotoStep
  <2>2. WorkerSound(w)'
    BY <1>3, <2>1
       DEF WorkerSound, Placed, Capturing, Advancing, Requesting, Collecting,
           GitPcs, BossPcs, LockPcs, CapturePcs, AdvancePcs, CollectPcs
  <2> HIDE DEF a, t
  <2> QED BY <1>1, <1>2, <1>3, <1>4, <2>1, <2>2, Plainly, WorkspaceGoes
<1>6. CASE Leave(w)
  <2>1. /\ at' \in [Workers -> Work] /\ WorkerSound(w)'
        /\ \A v \in Workers \ {w} : at'[v] = at[v]
    BY <1>2, <1>6, Plainly, LeaveStep, IdleSound
  <2> HIDE DEF a, t
  <2> QED BY <1>1, <1>2, <1>3, <1>4, <2>1, Plainly, WorkspaceGoes
<1> QED BY <1>1, <1>5, <1>6

\* cleanupDeletedTaskResources, the workspace.
LEMMA KeepDeleteWorkspace ==
    ASSUME GitInv, DeleteWorkspace
    PROVE  GitInv'
<1> DEFINE a == at["boss"]
           t == a.task
<1>1. /\ UNCHANGED <<task, run, saved, handoff, refs, imports, canon, dropped, crashes, lock>>
      /\ a.pc = "delws"
      /\ Leave("boss") \/ (Goto("boss", "delref") /\ a.row.head # None)
  BY DEF DeleteWorkspace, rows, repository, Doing, Locked
<1>2. Placed("boss", a) /\ Collecting(a)
  BY Plainly DEF WorkerSound
<1>3. t \in Tasks
  BY <1>1, <1>2 DEF Placed
<1>4. /\ task[t].status = "deleted"
      /\ ~\E r \in Runs : run[r].task = t /\ Live(r)
      /\ a.row.head # None => /\ Spent(a.row.head) /\ run[a.row.head].task = t
                              /\ a.row.head \in dropped
      /\ a.row.base \subseteq canon
  BY <1>1, <1>2 DEF Collecting, CollectPcs, Closed
<1>5. ws' \in {ws, [ws EXCEPT ![t] = NoWorkspace]}
  <2>1. \/ ws' = ws
        \/ ws' = [ws EXCEPT ![t] = IF @.clean /\ @.head = ExpectedHead(a.row)
                                   THEN NoWorkspace ELSE @]
    BY DEF DeleteWorkspace
  <2>2. [ws EXCEPT ![t] = ws[t]] = ws
    BY DEF GitInv, TypeOK
  <2> QED BY <2>1, <2>2
<1>6. CASE Goto("boss", "delref") /\ a.row.head # None
  <2>1. /\ at' \in [Workers -> Work] /\ at'["boss"].pc = "delref" /\ at'["boss"].task = t
        /\ at'["boss"].row = a.row
        /\ \A v \in Workers \ {"boss"} : at'[v] = at[v]
    <3>1. "delref" \in Steps
      BY DEF Steps
    <3> QED BY <1>6, <3>1, Plainly, GotoStep
  <2>2. WorkerSound("boss")'
    <3>1. PICK h : h = a.row.head
      OBVIOUS
    <3>2. Spent(h)'
      BY <1>1, <1>4, <1>6, <3>1 DEF Spent
    <3> QED BY <1>1, <1>3, <1>4, <1>6, <2>1, <3>1, <3>2
       DEF WorkerSound, Placed, Capturing, Advancing, Requesting, Collecting,
           GitPcs, BossPcs, LockPcs, CapturePcs, AdvancePcs, CollectPcs
  <2> HIDE DEF a, t
  <2> QED BY <1>1, <1>3, <1>4, <1>5, <2>1, <2>2, Plainly, WorkspaceGoes
<1>7. CASE Leave("boss")
  <2>1. /\ at' \in [Workers -> Work] /\ WorkerSound("boss")'
        /\ \A v \in Workers \ {"boss"} : at'[v] = at[v]
    BY <1>7, Plainly, LeaveStep, IdleSound
  <2> HIDE DEF a, t
  <2> QED BY <1>1, <1>3, <1>4, <1>5, <2>1, Plainly, WorkspaceGoes
<1> QED BY <1>1, <1>6, <1>7

-----------------------------------------------------------------------------
(* Transactions.                                                           *)

\* A transaction of worker w, or of none, that leaves Git alone: what is left
\* to show of it is the moves of its rows and what becomes of w.
LEMMA TransactionKeeps ==
    ASSUME GitInv, Moves, TypeOK', RowsSound', RefsExplained',
           UNCHANGED <<ws, handoff, refs, imports, canon>>,
           \A r \in Runs : run'[r].state \in {"prepared", "live", "wrote"} =>
              run[r].state \in {"prepared", "live", "wrote"},
           \A r \in Runs : run'[r].started =>
              run[r].started \/ run[r].state \in {"prepared", "live", "wrote"},
           NEW w, w \in Workers => WorkerSound(w)',
           \A v \in Workers \ {w} : at'[v] = at[v] /\ (lock = v => lock' = v),
           w = "git" \/ \A x \in Tasks : task[x].pending # "none" => task'[x] = task[x]
    PROVE  GitInv'
<1>1. RefsKept' /\ HeldSound'
  BY Plainly, RefsGrow, HeldKept
<1>2. WorkspacesSound'
  BY WorkspacesStay
<1>3. ASSUME NEW v \in Workers \ {w} PROVE Looks(v)
  BY DEF Looks
<1> QED BY <1>1, <1>2, <1>3, StepKeeps

\* A transaction about the row of t and perhaps a second row.
LEMMA RowsWritten ==
    ASSUME GitInv, TypeOK', \A r \in Runs : RunMoves(r),
           canon \subseteq canon', dropped \subseteq dropped',
           NEW D \in SUBSET Tasks, \A x \in Tasks \ D : task'[x] = task[x],
           \A x \in D : RowMoves(x) /\ RowSound(x, task[x])'
    PROVE  Moves /\ RowsSound'
<1>1. ASSUME NEW x \in Tasks PROVE RowMoves(x) /\ RowSound(x, task[x])'
  <2>1. CASE x \in D
    BY <2>1
  <2>2. CASE x \notin D
    <3>1. task'[x] = task[x]
      BY <2>2
    <3>2. Stays(x)
      BY <3>1 DEF Stays
    <3>3. RowSound(x, task[x])
      BY DEF GitInv, RowsSound
    <3>4. RowSound(x, task[x])'
      BY <3>1, <3>3 DEF RowSound
    <3> QED BY <3>1, <3>2, <3>4 DEF RowMoves
  <2> QED BY <2>1, <2>2
<1> QED BY <1>1 DEF Moves, RowsSound

\* Runs that nobody writes.
LEMMA RunsStill ==
    ASSUME UNCHANGED run
    PROVE  \A r \in Runs : RunMoves(r)
BY DEF RunMoves

\* A transaction about one row.
LEMMA RowWritten ==
    ASSUME GitInv, TypeOK', \A r \in Runs : RunMoves(r),
           canon \subseteq canon', dropped \subseteq dropped',
           NEW t \in Tasks, \A x \in Tasks \ {t} : task'[x] = task[x],
           RowMoves(t), RowSound(t, task[t])'
    PROVE  Moves /\ RowsSound'
<1>1. PICK D \in SUBSET Tasks : D = {t}
  OBVIOUS
<1>2. \A x \in D : RowMoves(x) /\ RowSound(x, task[x])'
  BY <1>1
<1>3. \A x \in Tasks \ D : task'[x] = task[x]
  BY <1>1
<1> QED BY <1>2, <1>3, RowsWritten

\* The fields of a new row.
LEMMA NewRow ==
    ASSUME NEW base \in Commits, NEW source \in Runs \cup {None},
           NEW row, row = NewTask(base, source)
    PROVE  /\ row \in TaskRow
           /\ row.status = "queued" /\ row.run = None /\ row.head = None
           /\ row.base = base /\ row.source = source /\ row.pending = "none"
BY DEF NewTask, NoTask, TaskRow, Open

\* createWorkTask without a source.
LEMMA KeepCreateTask ==
    ASSUME GitInv, NEW t \in Tasks, CreateTask(t)
    PROVE  GitInv'
<1>1. /\ UNCHANGED <<run, saved, ws, handoff, refs, imports, canon, lock, at, dropped, crashes>>
      /\ t \in WorkTasks /\ task[t] = NoTask
      /\ task' = [task EXCEPT ![t] = NewTask(canon, None)]
  BY DEF CreateTask, repository
<1>2. /\ task[t].status = "none" /\ task[t].pending = "none" /\ task[t].run = None
      /\ t \notin Integrations
  BY <1>1, GitAssumption DEF NoTask
<1>3. /\ task'[t] \in TaskRow
      /\ task'[t].status = "queued" /\ task'[t].run = None /\ task'[t].head = None
      /\ task'[t].base = canon /\ task'[t].source = None /\ task'[t].pending = "none"
  <2>1. task'[t] = NewTask(canon, None)
    BY <1>1, Plainly DEF TypeOK
  <2>2. canon \in Commits /\ None \in Runs \cup {None}
    BY Plainly
  <2>3. PICK row : row = NewTask(canon, None)
    OBVIOUS
  <2>4. /\ row \in TaskRow
        /\ row.status = "queued" /\ row.run = None /\ row.head = None
        /\ row.base = canon /\ row.source = None /\ row.pending = "none"
    BY <2>2, <2>3, NewRow
  <2> QED BY <2>1, <2>3, <2>4
<1>4. \A x \in Tasks \ {t} : task'[x] = task[x]
  BY <1>1
<1>5. TypeOK'
  BY <1>1, <1>3 DEF GitInv, TypeOK
<1>6. RowMoves(t)
  BY <1>1, <1>2, <1>3 DEF RowMoves, Made
<1>7. RowSound(t, task[t])'
  BY <1>2, <1>3 DEF RowSound
<1>8. Moves /\ RowsSound'
  BY <1>1, <1>4, <1>5, <1>6, <1>7, RunsStill, RowWritten
<1>9. \A x \in Tasks : task[x].pending # "none" => task'[x] = task[x]
  BY <1>2, <1>4
<1>10. RefsExplained'
  BY <1>1, <1>8, <1>9, ExplainedKept
<1> QED BY <1>1, <1>5, <1>8, <1>9, <1>10, Plainly, TransactionKeeps

\* createWorkTask inserts a task from a source whose ref it protects.
LEMMA KeepInsertSourced ==
    ASSUME GitInv, InsertSourced
    PROVE  GitInv'
<1> DEFINE a == at["boss"]
           s == a.task
           h == a.row.head
<1>1. /\ UNCHANGED <<run, saved, ws, handoff, refs, imports, canon, dropped, crashes>>
      /\ a.pc = "insert" /\ lock' = None /\ Leave("boss")
  BY DEF InsertSourced, repository, Doing, Release
<1>2. /\ s \in Tasks /\ lock = "boss" /\ a.sha \subseteq canon /\ IsSource(a.row)
      /\ h \in refs /\ a.sha \in Commits
  <2>1. Placed("boss", a) /\ Requesting(a)
    BY Plainly DEF WorkerSound
  <2>2. a.sha \in Commits
    BY Plainly, FieldTypes
  <2> QED BY <1>1, <2>1, <2>2 DEF Placed, LockPcs, Requesting
<1>3. /\ at' \in [Workers -> Work] /\ WorkerSound("boss")'
      /\ \A v \in Workers \ {"boss"} : at'[v] = at[v]
  BY <1>1, Plainly, LeaveStep, IdleSound
<1>4. CASE task[s] # a.row
  <2>1. task' = task
    BY <1>4 DEF InsertSourced
  <2> QED BY <1>1, <1>2, <1>3, <2>1, Plainly, PlainKeeps
<1>5. CASE task[s] = a.row
  <2>1. PICK t \in WorkTasks : /\ task[t] = NoTask
                               /\ task' = [task EXCEPT ![t] = NewTask(a.sha, task[s].head)]
    BY <1>5 DEF InsertSourced
  <2>2. /\ t \in Tasks /\ t \notin Integrations
        /\ task[t].status = "none" /\ task[t].pending = "none" /\ task[t].run = None
    BY <2>1, GitAssumption DEF NoTask, Tasks
  <2>3. Spent(h) /\ h \in Runs
    BY <1>2, <1>5, ClosedRow DEF IsSource, Spent
  <2>4. /\ task'[t] \in TaskRow
        /\ task'[t].status = "queued" /\ task'[t].run = None /\ task'[t].head = None
        /\ task'[t].base = a.sha /\ task'[t].source = h /\ task'[t].pending = "none"
    <3>1. task'[t] = NewTask(a.sha, h)
      BY <1>5, <2>1, <2>2, Plainly DEF TypeOK
    <3>2. PICK row : row = NewTask(a.sha, h)
      OBVIOUS
    <3>3. /\ row \in TaskRow
          /\ row.status = "queued" /\ row.run = None /\ row.head = None
          /\ row.base = a.sha /\ row.source = h /\ row.pending = "none"
      BY <1>2, <2>3, <3>2, NewRow
    <3> QED BY <3>1, <3>2, <3>3
  <2>5. \A x \in Tasks \ {t} : task'[x] = task[x]
    BY <2>1
  <2>6. TypeOK'
    BY <1>1, <1>3, <2>1, <2>2, <2>4 DEF GitInv, TypeOK
  <2>7. RowMoves(t)
    <3>1. Made(t)
      BY <1>1, <1>2, <2>2, <2>3, <2>4 DEF Made
    <3> QED BY <2>4, <3>1 DEF RowMoves
  <2>8. RowSound(t, task[t])'
    BY <2>2, <2>4 DEF RowSound
  <2>9. Moves /\ RowsSound'
    BY <1>1, <2>2, <2>5, <2>6, <2>7, <2>8, RunsStill, RowWritten
  <2>10. \A x \in Tasks : task[x].pending # "none" => task'[x] = task[x]
    BY <2>2, <2>5
  <2>11. RefsExplained'
    BY <1>1, <2>9, <2>10, ExplainedKept
  <2> QED BY <1>1, <1>2, <1>3, <2>6, <2>9, <2>10, <2>11, Plainly, TransactionKeeps
<1> QED BY <1>4, <1>5

\* The end of a pending capture whose import ref is gone.
LEMMA CaptureExplained ==
    ASSUME GitInv, Moves, UNCHANGED <<saved, canon, imports>>, NEW t \in Tasks,
           task[t].pending = "capture", task[t].run \notin imports,
           \A x \in Tasks \ {t} : task'[x] = task[x]
    PROVE  RefsExplained'
<1>1. saved # canon =>
        \E x \in Tasks : task'[x].pending = "advance" /\ run'[task'[x].head].sha \subseteq canon
  <2> SUFFICES ASSUME saved # canon
               PROVE  \E x \in Tasks : /\ task'[x].pending = "advance"
                                       /\ run'[task'[x].head].sha \subseteq canon
    OBVIOUS
  <2>1. PICK x \in Tasks : task[x].pending = "advance" /\ run[task[x].head].sha \subseteq canon
    BY DEF GitInv, RefsExplained, Head
  <2>2. task'[x] = task[x]
    BY <2>1
  <2>3. PICK h : h = task[x].head
    OBVIOUS
  <2>4. Spent(h)
    BY <2>1, <2>3 DEF GitInv, RowsSound, RowSound, ResultsSound, ResultSound
  <2>5. run'[h] = run[h]
    BY <2>4, SpentKept
  <2> QED BY <2>1, <2>2, <2>3, <2>5
<1>2. \A r \in imports : \E x \in Tasks : task'[x].pending = "capture" /\ task'[x].run = r
  BY DEF GitInv, RefsExplained
<1> QED BY <1>1, <1>2 DEF GitInv, RefsExplained, Head

\* finalizeCapture makes the captured commit the result.
LEMMA KeepFinalizeCapture ==
    ASSUME GitInv, FinalizeCapture
    PROVE  GitInv'
<1>t. PICK t : t = at["git"].task
  OBVIOUS
<1>c. PICK c : c = Captured
  OBVIOUS
<1>1. /\ UNCHANGED <<run, saved, ws, handoff, refs, imports, canon, lock, dropped, crashes>>
      /\ at["git"].pc = "captured"
  BY DEF FinalizeCapture, repository, Doing
<1>2. at["git"].pc \in CapturePcs
  BY <1>1 DEF CapturePcs
<1>3. /\ t \in Tasks /\ task[t].pending = "capture" /\ task[t].run = c
      /\ c \in Runs /\ at["git"].row.run = c
  BY <1>t, <1>c, <1>2, AtCapture
<1>4. c \in refs /\ c \notin imports
  BY <1>c, <1>1, Plainly DEF WorkerSound, Capturing, Captured
<1>5. CASE UNCHANGED task /\ Leave("git")
  BY <1>1, <1>5, Plainly, LeaveStep, IdleSound, PlainKeeps
<1>6. CASE /\ task' = [task EXCEPT ![t].status = "submitted", ![t].head = c, ![t].run = None,
                  ![t].pending = IF Kind(t) = "integration" THEN "advance" ELSE "none"]
           /\ Goto("git", "cleanup")
  <2>1. /\ at' \in [Workers -> Work] /\ at'["git"].pc = "cleanup" /\ at'["git"].task = t
        /\ at'["git"].row = at["git"].row
        /\ \A v \in Workers \ {"git"} : at'[v] = at[v]
    <3>1. "cleanup" \in Steps
      BY DEF Steps
    <3> QED BY <1>t, <1>6, <3>1, Plainly, GotoStep
  <2>2. WorkerSound("git")'
    BY <1>1, <1>3, <1>4, <2>1
       DEF WorkerSound, Placed, Capturing, Advancing, Requesting, Collecting,
           GitPcs, BossPcs, LockPcs, CapturePcs, AdvancePcs, CollectPcs
  <2>3. task[t] \in TaskRow /\ RowSound(t, task[t]) /\ task[t].status = "finishing"
    BY <1>3, Plainly, FieldTypes DEF GitInv, RowsSound, RowSound
  <2>4. /\ task'[t].status = "submitted" /\ task'[t].head = c /\ task'[t].run = None
        /\ task'[t].pending \in {"none", "advance"} /\ task'[t] \in TaskRow
        /\ task'[t].base = task[t].base /\ task'[t].source = task[t].source
        /\ task'[t].released = task[t].released
    BY <1>3, <1>6, <2>3, Plainly DEF TypeOK, TaskRow, Open
  <2>5. \A x \in Tasks \ {t} : task'[x] = task[x]
    BY <1>6, Plainly DEF TypeOK
  <2>6. TypeOK'
    BY <1>1, <1>6, <2>1, <2>4 DEF GitInv, TypeOK
  <2>7. RowMoves(t)
    BY <1>3, <1>4, <2>3, <2>4 DEF RowMoves, Gains
  <2>8. RowSound(t, task[t])'
    BY <1>3, <2>3, <2>4, GitAssumption DEF RowSound
  <2>9. Moves /\ RowsSound'
    BY <1>1, <1>3, <2>5, <2>6, <2>7, <2>8, RunsStill, RowWritten
  <2>10. RefsExplained'
    BY <1>1, <1>3, <1>4, <2>5, <2>9, CaptureExplained
  <2> QED BY <1>1, <2>1, <2>2, <2>6, <2>9, <2>10, Plainly, TransactionKeeps
<1> QED BY <1>t, <1>c, <1>5, <1>6 DEF FinalizeCapture

\* projectCaptureFailure sends the task back, or fails it.
LEMMA KeepRefuseCapture ==
    ASSUME GitInv, RefuseCapture
    PROVE  GitInv'
<1>t. PICK t : t = at["git"].task
  OBVIOUS
<1>c. PICK c : c = Captured
  OBVIOUS
<1>1. /\ UNCHANGED <<run, saved, ws, handoff, refs, imports, canon, lock, dropped, crashes>>
      /\ at["git"].pc = "refused" /\ Leave("git")
  BY DEF RefuseCapture, repository, Doing
<1>2. at["git"].pc \in CapturePcs
  BY <1>1 DEF CapturePcs
<1>3. /\ t \in Tasks /\ task[t].pending = "capture" /\ task[t].run = c /\ c \in Runs
  BY <1>t, <1>c, <1>2, AtCapture
<1>4. c \notin imports
  BY <1>c, <1>1, Plainly DEF WorkerSound, Capturing, Captured
<1>5. /\ at' \in [Workers -> Work] /\ WorkerSound("git")'
      /\ \A v \in Workers \ {"git"} : at'[v] = at[v]
  BY <1>1, Plainly, LeaveStep, IdleSound
<1>6. CASE UNCHANGED task
  BY <1>1, <1>5, <1>6, Plainly, PlainKeeps
<1>7. ASSUME NEW z \in Retried,
             task' = [task EXCEPT ![t].status = z, ![t].run = None, ![t].pending = "none"]
      PROVE  GitInv'
  <2>1. task[t] \in TaskRow /\ RowSound(t, task[t]) /\ task[t].status = "finishing"
    BY <1>3, Plainly, FieldTypes DEF GitInv, RowsSound, RowSound
  <2>2. z \in {"queued", "failed"}
    BY DEF Retried
  <2>3. /\ task'[t].status = z /\ task'[t].run = None
        /\ task'[t].pending = "none" /\ task'[t] \in TaskRow
        /\ task'[t].base = task[t].base /\ task'[t].source = task[t].source
        /\ task'[t].released = task[t].released /\ task'[t].head = task[t].head
    BY <1>3, <1>7, <2>1, <2>2, Plainly DEF TypeOK, TaskRow, Open
  <2>4. \A x \in Tasks \ {t} : task'[x] = task[x]
    BY <1>7, Plainly DEF TypeOK
  <2>5. TypeOK'
    BY <1>1, <1>5, <1>7, <2>3 DEF GitInv, TypeOK
  <2>6. RowMoves(t)
    <3>1. Stays(t)
      BY <2>1, <2>2, <2>3 DEF Stays, Closed
    <3> QED BY <2>3, <3>1 DEF RowMoves
  <2>7. RowSound(t, task[t])'
    BY <2>1, <2>2, <2>3 DEF RowSound
  <2>8. Moves /\ RowsSound'
    BY <1>1, <1>3, <2>4, <2>5, <2>6, <2>7, RunsStill, RowWritten
  <2>9. RefsExplained'
    BY <1>1, <1>3, <1>4, <2>4, <2>8, CaptureExplained
  <2> QED BY <1>1, <1>5, <2>5, <2>8, <2>9, Plainly, TransactionKeeps
<1> QED BY <1>t, <1>c, <1>6, <1>7 DEF RefuseCapture

\* A transaction that writes one row without a pending intent, and keeps its
\* commits.
LEMMA PlainRowKeeps ==
    ASSUME GitInv, UNCHANGED <<run, saved, ws, handoff, refs, imports, canon, lock, dropped, crashes>>,
           NEW t \in Tasks, task' = [task EXCEPT ![t] = task'[t]], task'[t] \in TaskRow,
           task[t].pending = "none" \/ task'[t] = task[t], RowMoves(t), RowSound(t, task[t])',
           at' \in [Workers -> Work], NEW w, w \in Workers => WorkerSound(w)',
           \A v \in Workers \ {w} : at'[v] = at[v]
    PROVE  GitInv'
<1>1. \A x \in Tasks \ {t} : task'[x] = task[x]
  BY Plainly DEF TypeOK
<1>2. TypeOK'
  BY DEF GitInv, TypeOK
<1>3. Moves /\ RowsSound'
  BY <1>1, <1>2, RunsStill, RowWritten
<1>4. \A x \in Tasks : task[x].pending # "none" => task'[x] = task[x]
  BY <1>1
<1>5. RefsExplained'
  BY <1>3, <1>4, ExplainedKept
<1> QED BY <1>2, <1>3, <1>4, <1>5, TransactionKeeps

\* RequestAccept records the intent on the row that it has read.
LEMMA KeepRequestAdvance ==
    ASSUME GitInv, RequestAdvance
    PROVE  GitInv'
<1>t. PICK t : t = at["boss"].task
  OBVIOUS
<1>1. /\ UNCHANGED <<run, saved, ws, handoff, refs, imports, canon, lock, dropped, crashes>>
      /\ at["boss"].pc = "accept" /\ Leave("boss")
  BY DEF RequestAdvance, repository, Doing
<1>2. /\ at' \in [Workers -> Work] /\ WorkerSound("boss")'
      /\ \A v \in Workers \ {"boss"} : at'[v] = at[v]
  BY <1>1, Plainly, LeaveStep, IdleSound
<1>3. /\ t \in Tasks /\ at["boss"].row.status = "submitted" /\ at["boss"].row.pending = "none"
  BY <1>t, <1>1, Plainly DEF WorkerSound, Placed, Requesting
<1>4. CASE task' = task
  BY <1>1, <1>2, <1>4, Plainly, PlainKeeps
<1>5. CASE /\ task[t] = at["boss"].row
           /\ task' = [task EXCEPT ![t].pending = "advance"]
  <2>1. task[t] \in TaskRow /\ RowSound(t, task[t])
    BY <1>3, Plainly, FieldTypes DEF GitInv, RowsSound
  <2>2. /\ task'[t].status = task[t].status /\ task'[t].run = task[t].run
        /\ task'[t].pending = "advance" /\ task'[t] \in TaskRow
        /\ task'[t].base = task[t].base /\ task'[t].source = task[t].source
        /\ task'[t].released = task[t].released /\ task'[t].head = task[t].head
        /\ task' = [task EXCEPT ![t] = task'[t]]
    BY <1>3, <1>5, <2>1, Plainly DEF TypeOK, TaskRow
  <2>3. RowMoves(t)
    <3>1. Stays(t)
      BY <2>2 DEF Stays
    <3> QED BY <2>2, <3>1 DEF RowMoves
  <2>4. RowSound(t, task[t])'
    BY <1>3, <1>5, <2>1, <2>2 DEF RowSound
  <2>5. task[t].pending = "none"
    BY <1>3, <1>5
  <2> QED BY <1>1, <1>2, <1>3, <2>2, <2>3, <2>4, <2>5, PlainRowKeeps
<1> QED BY <1>t, <1>4, <1>5 DEF RequestAdvance

\* What the reconciler knows of the advance it is at.
LEMMA AtAdvance ==
    ASSUME GitInv, at["git"].pc \in {"advanced", "stale"}, NEW t, t = at["git"].task
    PROVE  /\ t \in Tasks /\ task[t] \in TaskRow /\ RowSound(t, task[t])
           /\ task[t] = at["git"].row
           /\ task[t].pending = "advance" /\ task[t].status = "submitted"
           /\ task[t].head # None /\ Spent(task[t].head) /\ run[task[t].head].task = t
           /\ ContainsInputs(task[t], run[task[t].head].sha)
           /\ task[t].head \in refs
           /\ at["git"].sha = canon
           /\ at["git"].pc = "advanced" => run[task[t].head].sha \subseteq canon
<1>1. Placed("git", at["git"]) /\ Advancing(at["git"])
  BY Plainly DEF WorkerSound
<1>2. /\ t \in Tasks /\ task[t] = at["git"].row
      /\ task[t].pending = "advance" /\ at["git"].sha = canon
      /\ at["git"].pc = "advanced" => run[task[t].head].sha \subseteq canon
  BY <1>1 DEF Placed, Advancing, AdvancePcs, Head
<1>3. task[t] \in TaskRow /\ RowSound(t, task[t]) /\ ResultSound(t, task[t])
  BY <1>2, Plainly, FieldTypes DEF GitInv, RowsSound, ResultsSound
<1>4. task[t].status = "submitted" /\ task[t].head # None
  BY <1>2, <1>3 DEF RowSound
<1>5. /\ Spent(task[t].head) /\ run[task[t].head].task = t
      /\ ContainsInputs(task[t], run[task[t].head].sha)
  BY <1>3, <1>4 DEF ResultSound, Head
<1>6. task[t].head \in refs
  BY <1>2, <1>4 DEF GitInv, RefsKept, Exists, Closed
<1> QED BY <1>2, <1>3, <1>4, <1>5, <1>6

\* What an integration's fence says of its source.
LEMMA AtSource ==
    ASSUME GitInv, NEW t \in Tasks, Kind(t) = "integration", Exists(t), SourceFence(t),
           NEW s, s = run[task[t].source].task
    PROVE  /\ s \in Tasks /\ task[s] \in TaskRow /\ RowSound(s, task[s])
           /\ task[s].status = "submitted" /\ task[s].link = t
           /\ task[s].head = task[t].source /\ task[s].head # None
<1>1. t \in Integrations
  BY DEF Kind
<1>2. task[t].source # None /\ Spent(task[t].source)
  BY <1>1 DEF GitInv, RowsSound, RowSound, ResultsSound, ResultSound, Exists
<1>3. s \in Tasks
  BY <1>2 DEF Spent
<1>4. task[s] \in TaskRow /\ RowSound(s, task[s])
  BY <1>3, Plainly, FieldTypes DEF GitInv, RowsSound
<1> QED BY <1>2, <1>3, <1>4 DEF SourceFence

\* With the canonical commit recorded, only captures have refs to explain.
LEMMA SavedExplained ==
    ASSUME GitInv, UNCHANGED <<run, canon, imports>>, saved' = canon,
           \A x \in Tasks : task[x].pending = "capture" => task'[x] = task[x]
    PROVE  RefsExplained'
<1>1. \A r \in imports : \E x \in Tasks : task'[x].pending = "capture" /\ task'[x].run = r
  <2> SUFFICES ASSUME NEW r \in imports
               PROVE  \E x \in Tasks : task'[x].pending = "capture" /\ task'[x].run = r
    OBVIOUS
  <2>1. PICK x \in Tasks : task[x].pending = "capture" /\ task[x].run = r
    BY DEF GitInv, RefsExplained
  <2> QED BY <2>1
<1> QED BY <1>1 DEF RefsExplained

\* finalizeSuccessfulAdvance completes the task and, of an integration, the
\* source, whose result the integration's holds.
LEMMA KeepFinalizeAdvance ==
    ASSUME GitInv, FinalizeAdvance
    PROVE  GitInv'
<1>t. PICK t : t = at["git"].task
  OBVIOUS
<1>d. PICK done : done = {t} \cup (IF Kind(t) = "integration"
                                   THEN {run[task[t].source].task} ELSE {})
  OBVIOUS
<1>1. /\ UNCHANGED <<run, ws, handoff, refs, imports, canon, lock, dropped, crashes>>
      /\ at["git"].pc = "advanced" /\ Leave("git")
  BY DEF FinalizeAdvance, repository, Doing
<1>2. /\ at' \in [Workers -> Work] /\ WorkerSound("git")'
      /\ \A v \in Workers \ {"git"} : at'[v] = at[v]
  BY <1>1, Plainly, LeaveStep, IdleSound
<1>3. CASE UNCHANGED <<task, saved>>
  BY <1>1, <1>2, <1>3, Plainly, PlainKeeps
<1>4. CASE /\ Kind(t) = "integration" => SourceFence(t)
           /\ task' = [x \in Tasks |-> IF x \in done
                         THEN [task[x] EXCEPT !.status = "completed", !.pending = "none"]
                         ELSE task[x]]
           /\ saved' = at["git"].sha
  <2>1. /\ t \in Tasks /\ task[t].status = "submitted" /\ task[t].head # None
        /\ ContainsInputs(task[t], run[task[t].head].sha)
        /\ run[task[t].head].sha \subseteq canon /\ at["git"].sha = canon
    BY <1>t, <1>1, AtAdvance
  <2>2. ASSUME NEW x \in done
        PROVE  /\ x \in Tasks /\ task[x].status = "submitted" /\ task[x].head # None
               /\ run[task[x].head].sha \subseteq canon
    <3>1. CASE x = t
      BY <2>1, <3>1
    <3>2. CASE Kind(t) = "integration" /\ x = run[task[t].source].task
      <4>1. /\ x \in Tasks /\ task[x].status = "submitted"
            /\ task[x].head = task[t].source /\ task[x].head # None
        BY <1>4, <2>1, <3>2, AtSource DEF Exists
      <4>2. run[task[t].source].sha \subseteq run[task[t].head].sha
        BY <2>1, <4>1 DEF ContainsInputs, Source
      <4> QED BY <2>1, <4>1, <4>2
    <3> QED BY <1>d, <2>2, <3>1, <3>2
  <2>3. ASSUME NEW x \in done
        PROVE  /\ x \in Tasks /\ task'[x] \in TaskRow /\ task[x] \in TaskRow
               /\ task'[x].status = "completed" /\ task'[x].run = task[x].run
               /\ task'[x].pending = "none" /\ task'[x].link = task[x].link
               /\ task'[x].base = task[x].base /\ task'[x].source = task[x].source
               /\ task'[x].released = task[x].released /\ task'[x].head = task[x].head
    <3>1. x \in Tasks /\ task[x] \in TaskRow
      BY <2>2, Plainly, FieldTypes
    <3>2. task'[x] = [task[x] EXCEPT !.status = "completed", !.pending = "none"]
      BY <1>4, <3>1
    <3> QED BY <3>1, <3>2 DEF TaskRow, Closed
  <2>4. \A x \in Tasks \ done : task'[x] = task[x]
    BY <1>4
  <2>5. \A x \in Tasks : task'[x] \in TaskRow
    BY <2>3, <2>4, Plainly, FieldTypes
  <2>6. TypeOK'
    <3>1. task' = [x \in Tasks |-> task'[x]]
      BY <1>4
    <3>2. saved' \in Commits
      BY <1>4, <2>1, Plainly
    <3> QED BY <1>1, <1>2, <2>5, <3>1, <3>2 DEF GitInv, TypeOK
  <2>7. ASSUME NEW x \in done PROVE RowMoves(x) /\ RowSound(x, task[x])'
    <3>1. Stays(x)
      BY <2>2, <2>3 DEF Stays, Closed, Head
    <3>2. RowMoves(x)
      BY <2>3, <3>1 DEF RowMoves
    <3>3. RowSound(x, task[x])
      BY <2>2 DEF GitInv, RowsSound
    <3>4. RowSound(x, task[x])'
      BY <2>2, <2>3, <3>3 DEF RowSound
    <3> QED BY <3>2, <3>4
  <2>8. Moves /\ RowsSound'
    <3>1. done \in SUBSET Tasks
      BY <2>2
    <3> QED BY <1>1, <2>4, <2>6, <2>7, <3>1, RunsStill, RowsWritten
  <2>9. RefsExplained'
    <3>1. \A x \in Tasks : task[x].pending = "capture" => x \notin done
      BY <2>2 DEF GitInv, RowsSound, RowSound
    <3> QED BY <1>1, <1>4, <2>1, <2>4, <3>1, SavedExplained
  <2> QED BY <1>1, <1>2, <2>6, <2>8, <2>9, Plainly, TransactionKeeps
<1> QED BY <1>t, <1>d, <1>3, <1>4 DEF FinalizeAdvance, AdvanceFence, SaveCanonical

\* finalizeStaleAdvance queues an integration again, and makes one for a work
\* task, whose result is there to be its source.
LEMMA KeepFinalizeStale ==
    ASSUME GitInv, FinalizeStale
    PROVE  GitInv'
<1>t. PICK t : t = at["git"].task
  OBVIOUS
<1>1. /\ UNCHANGED <<run, ws, handoff, refs, imports, canon, lock, dropped, crashes>>
      /\ at["git"].pc = "stale" /\ Leave("git")
  BY DEF FinalizeStale, repository, Doing
<1>2. /\ at' \in [Workers -> Work] /\ WorkerSound("git")'
      /\ \A v \in Workers \ {"git"} : at'[v] = at[v]
  BY <1>1, Plainly, LeaveStep, IdleSound
<1>3. /\ t \in Tasks /\ task[t] \in TaskRow /\ RowSound(t, task[t])
      /\ task[t].pending = "advance" /\ task[t].status = "submitted"
      /\ task[t].head # None /\ Spent(task[t].head) /\ run[task[t].head].task = t
      /\ task[t].head \in refs /\ at["git"].sha = canon
  BY <1>t, <1>1, AtAdvance
<1>4. CASE UNCHANGED <<task, saved>>
  BY <1>1, <1>2, <1>4, Plainly, PlainKeeps
<1>5. CASE /\ saved' = at["git"].sha
           /\ task' = [task EXCEPT ![t].status = "queued", ![t].run = None,
                                   ![t].pending = "none"]
  <2>1. /\ task'[t].status = "queued" /\ task'[t].run = None
        /\ task'[t].pending = "none" /\ task'[t] \in TaskRow
        /\ task'[t].base = task[t].base /\ task'[t].source = task[t].source
        /\ task'[t].released = task[t].released /\ task'[t].head = task[t].head
    BY <1>3, <1>5, Plainly DEF TypeOK, TaskRow, Open
  <2>2. \A x \in Tasks \ {t} : task'[x] = task[x]
    BY <1>5, Plainly DEF TypeOK
  <2>3. TypeOK'
    BY <1>1, <1>2, <1>3, <1>5, <2>1 DEF GitInv, TypeOK
  <2>4. RowMoves(t)
    <3>1. Stays(t)
      BY <1>3, <2>1 DEF Stays, Closed
    <3> QED BY <2>1, <3>1 DEF RowMoves
  <2>5. RowSound(t, task[t])'
    BY <1>3, <2>1 DEF RowSound
  <2>6. Moves /\ RowsSound'
    BY <1>1, <1>3, <2>2, <2>3, <2>4, <2>5, RunsStill, RowWritten
  <2>7. RefsExplained'
    BY <1>1, <1>3, <1>5, <2>2, SavedExplained
  <2> QED BY <1>1, <1>2, <2>3, <2>6, <2>7, Plainly, TransactionKeeps
<1>6. ASSUME NEW i \in Integrations, saved' = at["git"].sha, task[i] = NoTask,
             task' = [task EXCEPT ![t].link = i, ![t].pending = "none",
                                  ![i] = NewTask(at["git"].sha, task[t].head)]
      PROVE  GitInv'
  <2>h. PICK h : h = task[t].head
    OBVIOUS
  <2>1. /\ i \in Tasks /\ i # t /\ task[i].status = "none" /\ task[i].pending = "none"
        /\ task[i].run = None /\ h \in Runs /\ Spent(h) /\ run[h].task = t /\ h \in refs
        /\ h # None
    BY <1>3, <1>6, <2>h, GitAssumption DEF NoTask, Tasks, Spent
  <2>2. task'[i] = NewTask(canon, h) /\ \A x \in Tasks \ {t, i} : task'[x] = task[x]
    BY <1>3, <1>6, <2>h, <2>1, Plainly DEF TypeOK
  <2>3. /\ task'[i] \in TaskRow
        /\ task'[i].status = "queued" /\ task'[i].run = None /\ task'[i].head = None
        /\ task'[i].base = canon /\ task'[i].source = h /\ task'[i].pending = "none"
    <3>1. canon \in Commits
      BY Plainly
    <3>2. PICK row : row = NewTask(canon, h)
      OBVIOUS
    <3>3. /\ row \in TaskRow
          /\ row.status = "queued" /\ row.run = None /\ row.head = None
          /\ row.base = canon /\ row.source = h /\ row.pending = "none"
      BY <2>1, <3>1, <3>2, NewRow
    <3> QED BY <2>2, <3>2, <3>3
  <2>4. task'[t] = [task[t] EXCEPT !.link = i, !.pending = "none"]
    BY <1>3, <1>6, <2>1, Plainly DEF TypeOK
  <2>5. /\ task'[t].status = "submitted" /\ task'[t].run = task[t].run
        /\ task'[t].pending = "none" /\ task'[t] \in TaskRow
        /\ task'[t].base = task[t].base /\ task'[t].source = task[t].source
        /\ task'[t].released = task[t].released /\ task'[t].head = task[t].head
    BY <1>3, <2>4 DEF TaskRow
  <2>6. TypeOK'
    <3>1. \A x \in Tasks : task'[x] \in TaskRow
      BY <2>2, <2>3, <2>5, Plainly, FieldTypes
    <3>2. task' = [x \in Tasks |-> task'[x]]
      BY <1>6, Plainly DEF TypeOK
    <3>3. saved' \in Commits
      BY <1>3, <1>6, Plainly
    <3> QED BY <1>1, <1>2, <3>1, <3>2, <3>3 DEF GitInv, TypeOK
  <2>7. RowMoves(t) /\ RowSound(t, task[t])'
    <3>1. Stays(t)
      BY <1>3, <2>5 DEF Stays, Closed
    <3> QED BY <1>3, <2>5, <3>1 DEF RowMoves, RowSound
  <2>8. RowMoves(i) /\ RowSound(i, task[i])'
    <3>1. Made(i)
      BY <1>3, <2>1, <2>3 DEF Made
    <3> QED BY <2>1, <2>3, <3>1 DEF RowMoves, RowSound
  <2>9. Moves /\ RowsSound'
    <3>1. PICK D \in SUBSET Tasks : D = {t, i}
      BY <1>3, <2>1
    <3>2. /\ \A x \in D : RowMoves(x) /\ RowSound(x, task[x])'
          /\ \A x \in Tasks \ D : task'[x] = task[x]
      BY <2>2, <2>7, <2>8, <3>1
    <3> QED BY <1>1, <2>6, <3>2, RunsStill, RowsWritten
  <2>10. RefsExplained'
    BY <1>1, <1>3, <1>6, <2>1, <2>2, SavedExplained
  <2> QED BY <1>1, <1>2, <2>6, <2>9, <2>10, Plainly, TransactionKeeps
<1> QED BY <1>t, <1>4, <1>5, <1>6 DEF FinalizeStale, SaveCanonical

\* ReworkTask and RetryTask put a task back into the queue.
LEMMA KeepRequeue ==
    ASSUME GitInv, NEW t \in Tasks, Requeue(t)
    PROVE  GitInv'
<1>1. /\ UNCHANGED <<run, saved, ws, handoff, refs, imports, canon, lock, at, dropped, crashes>>
      /\ task[t].pending = "none" /\ task[t].status \in {"submitted", "failed"}
      /\ task' = [task EXCEPT ![t].status = "queued"]
  BY DEF Requeue, ActionAvailable, repository
<1>2. task[t] \in TaskRow /\ RowSound(t, task[t])
  BY Plainly, FieldTypes DEF GitInv, RowsSound
<1>3. /\ task'[t].status = "queued" /\ task'[t].run = task[t].run
      /\ task'[t].pending = task[t].pending /\ task'[t] \in TaskRow
      /\ task'[t].base = task[t].base /\ task'[t].source = task[t].source
      /\ task'[t].released = task[t].released /\ task'[t].head = task[t].head
      /\ task' = [task EXCEPT ![t] = task'[t]]
  BY <1>1, <1>2, Plainly DEF TypeOK, TaskRow, Open
<1>4. RowMoves(t)
  <2>1. Stays(t)
    BY <1>1, <1>3 DEF Stays, Closed
  <2> QED BY <1>3, <2>1 DEF RowMoves
<1>5. RowSound(t, task[t])'
  BY <1>1, <1>2, <1>3 DEF RowSound
<1>6. at' \in [Workers -> Work]
  BY <1>1, Plainly DEF TypeOK
<1> QED BY <1>1, <1>3, <1>4, <1>5, <1>6, Plainly, PlainRowKeeps

\* CancelTask closes a task; an integration gives its source back.
LEMMA KeepCancelTask ==
    ASSUME GitInv, NEW t \in Tasks, CancelTask(t)
    PROVE  GitInv'
<1>s. PICK s : s = run[task[t].source].task
  OBVIOUS
<1>r. PICK row : row = [task[t] EXCEPT !.status = "cancelled",
                          !.run = IF @ # None /\ Live(@) THEN @ ELSE None]
  OBVIOUS
<1>1. /\ UNCHANGED <<run, saved, ws, handoff, refs, imports, canon, lock, at, dropped, crashes>>
      /\ task[t].pending = "none" /\ task[t].status \in Open /\ task[t].link = None
      /\ IF Kind(t) = "integration"
         THEN /\ task[s].pending = "none" /\ SourceFence(t)
              /\ task' = [task EXCEPT ![t] = row, ![s].link = None]
         ELSE task' = [task EXCEPT ![t] = row]
  BY <1>s, <1>r DEF CancelTask, ActionAvailable, repository
<1>2. /\ task[t] \in TaskRow /\ RowSound(t, task[t]) /\ Exists(t)
      /\ task[t].run \in Runs \cup {None}
  BY <1>1, Plainly, FieldTypes DEF GitInv, RowsSound, Exists, Open
<1>3. /\ row.status = "cancelled" /\ row.run \in {task[t].run, None}
      /\ row.pending = "none" /\ row \in TaskRow
      /\ row.base = task[t].base /\ row.source = task[t].source
      /\ row.released = task[t].released /\ row.head = task[t].head
  BY <1>r, <1>1, <1>2 DEF TaskRow, Closed
<1>4. at' \in [Workers -> Work]
  BY <1>1, Plainly DEF TypeOK
<1>5. ASSUME task'[t] = row PROVE RowMoves(t) /\ RowSound(t, task[t])'
  <2>1. Stays(t)
    BY <1>1, <1>2, <1>3, <1>5 DEF Stays, Open, Closed, Exists
  <2>2. RowMoves(t)
    BY <1>3, <1>5, <2>1 DEF RowMoves
  <2>3. RowSound(t, task[t])'
    BY <1>2, <1>3, <1>5 DEF RowSound, Exists
  <2> QED BY <2>2, <2>3
<1>6. CASE Kind(t) # "integration"
  <2>1. task' = [task EXCEPT ![t] = row]
    BY <1>1, <1>6
  <2>2. task'[t] = row /\ task' = [task EXCEPT ![t] = task'[t]]
    BY <2>1, Plainly DEF TypeOK
  <2> QED BY <1>1, <1>3, <1>4, <1>5, <2>2, Plainly, PlainRowKeeps
<1>7. CASE Kind(t) = "integration"
  <2>1. /\ s \in Tasks /\ task[s] \in TaskRow /\ RowSound(s, task[s])
        /\ task[s].status = "submitted" /\ task[s].link = t
    BY <1>s, <1>1, <1>2, <1>7, AtSource
  <2>2. s # t
    BY <1>1, <2>1, GitAssumption
  <2>3. task' = [task EXCEPT ![t] = row, ![s].link = None] /\ task[s].pending = "none"
    BY <1>1, <1>7
  <2>4. /\ task'[t] = row /\ task'[s] = [task[s] EXCEPT !.link = None]
        /\ \A x \in Tasks \ {t, s} : task'[x] = task[x]
    BY <2>1, <2>2, <2>3, Plainly DEF TypeOK
  <2>5. /\ task'[s].status = task[s].status /\ task'[s].run = task[s].run
        /\ task'[s].pending = task[s].pending /\ task'[s] \in TaskRow
        /\ task'[s].base = task[s].base /\ task'[s].source = task[s].source
        /\ task'[s].released = task[s].released /\ task'[s].head = task[s].head
    BY <2>1, <2>4 DEF TaskRow
  <2>6. RowMoves(s) /\ RowSound(s, task[s])'
    <3>1. Stays(s)
      BY <2>5 DEF Stays
    <3> QED BY <2>1, <2>5, <3>1 DEF RowMoves, RowSound
  <2>7. TypeOK'
    <3>1. \A x \in Tasks : task'[x] \in TaskRow
      BY <1>3, <2>4, <2>5, Plainly, FieldTypes
    <3>2. task' = [x \in Tasks |-> task'[x]]
      BY <2>3, Plainly DEF TypeOK
    <3> QED BY <1>1, <3>1, <3>2 DEF GitInv, TypeOK
  <2>8. Moves /\ RowsSound'
    <3>1. PICK D \in SUBSET Tasks : D = {t, s}
      BY <2>1
    <3>2. /\ \A x \in D : RowMoves(x) /\ RowSound(x, task[x])'
          /\ \A x \in Tasks \ D : task'[x] = task[x]
      BY <1>5, <2>4, <2>6, <3>1
    <3> QED BY <1>1, <2>7, <3>2, RunsStill, RowsWritten
  <2>9. \A x \in Tasks : task[x].pending # "none" => task'[x] = task[x]
    BY <1>1, <2>3, <2>4
  <2>10. RefsExplained'
    BY <1>1, <2>8, <2>9, ExplainedKept
  <2> QED BY <1>1, <2>7, <2>8, <2>9, <2>10, Plainly, TransactionKeeps
<1> QED BY <1>6, <1>7

\* DeleteTask, which gives the result up.
LEMMA KeepDeleteTask ==
    ASSUME GitInv, NEW t \in Tasks, DeleteTask(t)
    PROVE  GitInv'
<1>h. PICK h : h = task[t].head
  OBVIOUS
<1>1. /\ UNCHANGED <<run, saved, ws, handoff, refs, imports, canon, lock, crashes>>
      /\ task[t].pending = "none" /\ task[t].status \in Closed /\ task[t].run = None
      /\ ~\E r \in Runs : run[r].task = t /\ Live(r)
      /\ task' = [task EXCEPT ![t] = [NoTask EXCEPT !.status = "deleted"]]
      /\ dropped' = IF h = None THEN dropped ELSE dropped \cup {h}
  BY <1>h DEF DeleteTask, ActionAvailable, repository
<1>2. /\ at' \in [Workers -> Work] /\ at'["boss"].pc = "delws"
      /\ at'["boss"].task = t /\ at'["boss"].row = task[t]
      /\ \A v \in Workers \ {"boss"} : at'[v] = at[v]
  <2>1. Begin("boss", "delws", t, {}) /\ "delws" \in Steps
    BY DEF DeleteTask, Steps
  <2> QED BY <2>1, Plainly, BeginStep
<1>3. /\ h # None => Spent(h) /\ run[h].task = t /\ h \in Runs
      /\ task[t].base \subseteq canon
  BY <1>h, ClosedRow DEF Spent
<1>4. /\ task'[t] = [NoTask EXCEPT !.status = "deleted"]
      /\ \A x \in Tasks \ {t} : task'[x] = task[x]
  BY <1>1, Plainly DEF TypeOK
<1>5. /\ task'[t] \in TaskRow /\ task'[t].status = "deleted" /\ task'[t].run = None
      /\ task'[t].head = None /\ task'[t].source = None /\ task'[t].base = {}
      /\ task'[t].pending = "none"
  BY <1>4, ErasedRow
<1>6. TypeOK'
  <2>1. dropped' \subseteq Runs
    BY <1>1, <1>3 DEF GitInv, TypeOK
  <2> QED BY <1>1, <1>2, <1>4, <1>5, <2>1 DEF GitInv, TypeOK
<1>7. RowMoves(t)
  <2>1. Erased(t)
    BY <1>h, <1>1, <1>4 DEF Erased
  <2> QED BY <1>5, <2>1 DEF RowMoves
<1>8. RowSound(t, task[t])'
  BY <1>5 DEF RowSound
<1>9. Moves /\ RowsSound'
  BY <1>1, <1>4, <1>6, <1>7, <1>8, RunsStill, RowWritten
<1>10. \A x \in Tasks : task[x].pending # "none" => task'[x] = task[x]
  BY <1>1, <1>4
<1>11. RefsExplained'
  BY <1>1, <1>9, <1>10, ExplainedKept
<1>12. WorkerSound("boss")'
  <2>1. h # None => Spent(h)'
    BY <1>3, <1>9, SpentKept
  <2>2. Collecting(at["boss"])'
    BY <1>h, <1>1, <1>2, <1>3, <1>5, <2>1 DEF Collecting, CollectPcs, Live
  <2> QED BY <1>2, <2>2
     DEF WorkerSound, Placed, Capturing, Advancing, Requesting,
         GitPcs, BossPcs, LockPcs, CapturePcs, AdvancePcs
<1> QED BY <1>1, <1>2, <1>6, <1>9, <1>10, <1>11, <1>12, Plainly, TransactionKeeps

\* releaseSourceReference
LEMMA KeepReleaseSource ==
    ASSUME GitInv, NEW w \in {"gc", "boss"}, ReleaseSource(w)
    PROVE  GitInv'
<1>t. PICK t : t = at[w].task
  OBVIOUS
<1>b. PICK b : b = (task[t].released \/ (/\ task[t].source # None /\ task[t].status \in Closed
                          /\ task[t].run = None /\ task[t].pending = "none"))
  OBVIOUS
<1>1. /\ UNCHANGED <<run, saved, ws, handoff, refs, imports, canon, lock, dropped, crashes>>
      /\ at[w].pc = "release" /\ Leave(w)
      /\ task' = [task EXCEPT ![t].released = b]
  BY <1>t, <1>b DEF ReleaseSource, repository, Doing
<1>2. w \in Workers /\ t \in Tasks
  BY <1>t, <1>1, Plainly DEF WorkerSound, Placed, Workers
<1>3. /\ at' \in [Workers -> Work] /\ WorkerSound(w)'
      /\ \A v \in Workers \ {w} : at'[v] = at[v]
  BY <1>1, <1>2, Plainly, LeaveStep, IdleSound
<1>4. task[t] \in TaskRow /\ RowSound(t, task[t]) /\ task[t].released \in BOOLEAN
  BY <1>2, Plainly, FieldTypes DEF GitInv, RowsSound
<1>5. b \in BOOLEAN /\ (task[t].released => b) /\ (task[t].pending # "none" => b = task[t].released)
  BY <1>b, <1>4
<1>6. /\ task'[t].status = task[t].status /\ task'[t].run = task[t].run
      /\ task'[t].pending = task[t].pending /\ task'[t] \in TaskRow
      /\ task'[t].base = task[t].base /\ task'[t].source = task[t].source
      /\ task'[t].released = b /\ task'[t].head = task[t].head
      /\ task' = [task EXCEPT ![t] = task'[t]]
  BY <1>1, <1>2, <1>4, <1>5, Plainly DEF TypeOK, TaskRow
<1>7. RowMoves(t)
  <2>1. Stays(t)
    BY <1>5, <1>6 DEF Stays
  <2> QED BY <1>6, <2>1 DEF RowMoves
<1>8. RowSound(t, task[t])'
  BY <1>4, <1>6 DEF RowSound
<1>9. task[t].pending # "none" => task'[t] = task[t]
  <2>1. task'[t] = [task[t] EXCEPT !.released = b]
    BY <1>1, <1>2, Plainly DEF TypeOK
  <2> QED BY <1>4, <1>5, <2>1 DEF TaskRow
<1> QED BY <1>1, <1>2, <1>3, <1>6, <1>7, <1>8, <1>9, PlainRowKeeps

-----------------------------------------------------------------------------
(* Steps of runs.                                                          *)

\* A step of run r of task t, which may write that task's row.
LEMMA RunStepKeeps ==
    ASSUME GitInv, UNCHANGED <<saved, handoff, refs, imports, canon, lock, at, dropped, crashes>>,
           ws' \in [Tasks -> Workspaces], task' \in [Tasks -> TaskRow],
           NEW r \in Runs, run' = [run EXCEPT ![r] = run'[r]], run'[r] \in RunRow, RunMoves(r),
           NEW t \in Tasks, \A x \in Tasks \ {t} : task'[x] = task[x],
           RowMoves(t), RowSound(t, task[t])',
           task[t].pending = "none" \/ task'[t] = task[t],
           \A x \in Tasks : ws[x].there => ws'[x].there,
           run'[r].state \in {"prepared", "live", "wrote"} =>
              run[r].state \in {"prepared", "live", "wrote"} \/ ws'[run[r].task].there,
           run'[r].started => run[r].started \/ run[r].state \in {"prepared", "live", "wrote"}
    PROVE  GitInv'
<1>1. \A x \in Runs \ {r} : run'[x] = run[x]
  BY Plainly DEF TypeOK
<1>2. TypeOK'
  BY DEF GitInv, TypeOK
<1>3. ASSUME NEW x \in Runs PROVE RunMoves(x)
  BY <1>1 DEF RunMoves
<1>4. Moves /\ RowsSound'
  BY <1>2, <1>3, RowWritten
<1>5. \A x \in Tasks : task[x].pending # "none" => task'[x] = task[x]
  OBVIOUS
<1>6. RefsExplained' /\ RefsKept' /\ HeldSound'
  BY <1>2, <1>4, <1>5, Plainly, ExplainedKept, RefsGrow, HeldKept
<1>7. WorkspacesSound'
  <2>1. \A x \in Runs : run'[x].state \in {"prepared", "live", "wrote"} =>
           run[x].state \in {"prepared", "live", "wrote"} \/ ws'[run[x].task].there
    BY <1>1
  <2>2. \A x \in Runs : run'[x].started =>
           run[x].started \/ run[x].state \in {"prepared", "live", "wrote"}
    BY <1>1
  <2> QED BY <1>2, <1>4, <2>1, <2>2, WorkspacesStay
<1>8. ASSUME NEW v \in Workers PROVE Looks(v)
  BY <1>5 DEF Looks
<1> QED BY <1>2, <1>4, <1>6, <1>7, <1>8, Plainly, StepKeeps

\* What there is to know of a run that is past its claim.
LEMMA RunFacts ==
    ASSUME GitInv, NEW r \in Runs
    PROVE  /\ run[r] \in RunRow /\ run[r].sha \in Commits
           /\ run[r].state # "none" =>
                 /\ run[r].task \in Tasks
                 /\ task[run[r].task] \in TaskRow
                 /\ RowSound(run[r].task, task[run[r].task])
                 /\ ws[run[r].task] \in Workspaces
           /\ run[r].state = "none" => ~run[r].started
           /\ run \in [Runs -> RunRow] /\ task \in [Tasks -> TaskRow]
           /\ ws \in [Tasks -> Workspaces] /\ saved \in Commits /\ canon \in Commits
<1>1. run[r] \in RunRow /\ run[r].sha \in Commits
  BY Plainly, FieldTypes
<1>2. run[r].state # "none" => run[r].task \in Tasks
  BY DEF GitInv, RunsSound
<1>3. run[r].state = "none" => ~run[r].started
  BY DEF GitInv, RunsSound
<1>4. /\ run \in [Runs -> RunRow] /\ task \in [Tasks -> TaskRow]
      /\ ws \in [Tasks -> Workspaces] /\ saved \in Commits /\ canon \in Commits
  BY DEF GitInv, TypeOK
<1> QED BY <1>1, <1>2, <1>3, <1>4 DEF GitInv, RowsSound

\* A row that a step does not write.
LEMMA RowStill ==
    ASSUME GitInv, NEW t \in Tasks, task'[t] = task[t]
    PROVE  RowMoves(t) /\ RowSound(t, task[t])'
<1>1. Stays(t)
  BY DEF Stays
<1>2. RowSound(t, task[t])
  BY DEF GitInv, RowsSound
<1> QED BY <1>1, <1>2 DEF RowMoves, RowSound

\* ClaimNext gives a queued task its next run.
LEMMA KeepClaimNext ==
    ASSUME GitInv, NEW t \in Tasks, NEW r \in Runs, ClaimNext(t, r)
    PROVE  GitInv'
<1>1. /\ UNCHANGED <<saved, ws, handoff, refs, imports, canon, lock, at, dropped, crashes>>
      /\ run[r].state = "none" /\ task[t].status = "queued" /\ task[t].run = None
      /\ task' = [task EXCEPT ![t].run = r]
      /\ run' = [run EXCEPT ![r].task = t, ![r].state = "claimed"]
  BY DEF ClaimNext, repository
<1>2. /\ run[r] \in RunRow /\ ~run[r].started
      /\ run \in [Runs -> RunRow] /\ task \in [Tasks -> TaskRow] /\ ws \in [Tasks -> Workspaces]
  BY <1>1, RunFacts
<1>3. task[t] \in TaskRow /\ RowSound(t, task[t]) /\ task[t].pending = "none"
  <2>1. task[t] \in TaskRow /\ RowSound(t, task[t])
        /\ task[t].pending \in {"none", "capture", "advance"}
    BY Plainly, FieldTypes DEF GitInv, RowsSound
  <2> QED BY <1>1, <2>1 DEF RowSound
<1>4. /\ task'[t].status = "queued" /\ task'[t].run = r
      /\ task'[t].pending = task[t].pending /\ task'[t] \in TaskRow
      /\ task'[t].base = task[t].base /\ task'[t].source = task[t].source
      /\ task'[t].released = task[t].released /\ task'[t].head = task[t].head
  BY <1>1, <1>2, <1>3 DEF TaskRow
<1>5. task' \in [Tasks -> TaskRow] /\ \A x \in Tasks \ {t} : task'[x] = task[x]
  BY <1>1, <1>2, <1>4
<1>6. /\ run'[r].task = t /\ run'[r].state = "claimed" /\ ~run'[r].started
      /\ run'[r] \in RunRow /\ run' = [run EXCEPT ![r] = run'[r]]
  BY <1>1, <1>2 DEF RunRow
<1>7. RunMoves(r)
  BY <1>1, <1>6 DEF RunMoves
<1>8. RowMoves(t)
  <2>1. Stays(t)
    BY <1>1, <1>4 DEF Stays, Closed
  <2> QED BY <1>1, <1>4, <1>6, <2>1 DEF RowMoves
<1>9. RowSound(t, task[t])'
  BY <1>1, <1>3, <1>4 DEF RowSound
<1> QED BY <1>1, <1>2, <1>3, <1>5, <1>6, <1>7, <1>8, <1>9, RunStepKeeps

\* prepareWorkspace leaves the run with a workspace.
LEMMA KeepPrepareWorkspace ==
    ASSUME GitInv, NEW r \in Runs, PrepareWorkspace(r)
    PROVE  GitInv'
<1>t. PICK t : t = run[r].task
  OBVIOUS
<1>n. PICK new : new = IF ws[t].there THEN ws[t]
                       ELSE [NoWorkspace EXCEPT !.there = TRUE, !.head = task[t].base]
  OBVIOUS
<1>1. /\ UNCHANGED <<task, saved, handoff, refs, imports, canon, lock, at, dropped, crashes>>
      /\ run[r].state = "claimed"
      /\ ws' = [ws EXCEPT ![t] = new]
      /\ run' = [run EXCEPT ![r].state = "prepared", ![r].sha = saved]
  BY <1>t, <1>n DEF PrepareWorkspace, Locked, repository
<1>2. /\ run[r] \in RunRow /\ t \in Tasks /\ task[t] \in TaskRow /\ ws[t] \in Workspaces
      /\ run \in [Runs -> RunRow] /\ task \in [Tasks -> TaskRow]
      /\ ws \in [Tasks -> Workspaces] /\ saved \in Commits
  BY <1>t, <1>1, RunFacts
<1>3. new \in Workspaces /\ new.there
  <2>1. task[t].base \in Commits
    BY <1>2 DEF TaskRow
  <2>2. CASE ws[t].there
    BY <1>n, <1>2, <2>2
  <2>3. CASE ~ws[t].there
    BY <1>n, <2>1, <2>3 DEF NoWorkspace, Workspaces, Commits
  <2> QED BY <2>2, <2>3
<1>4. /\ ws' \in [Tasks -> Workspaces] /\ ws'[t].there
      /\ \A x \in Tasks : ws[x].there => ws'[x].there
  BY <1>1, <1>2, <1>3
<1>5. /\ run'[r].task = run[r].task /\ run'[r].state = "prepared"
      /\ run'[r].started = run[r].started
      /\ run'[r] \in RunRow /\ run' = [run EXCEPT ![r] = run'[r]]
  BY <1>1, <1>2 DEF RunRow
<1>6. RunMoves(r)
  BY <1>1, <1>5 DEF RunMoves
<1>7. RowMoves(t) /\ RowSound(t, task[t])'
  BY <1>1, <1>2, RowStill
<1>8. /\ task' \in [Tasks -> TaskRow] /\ \A x \in Tasks : task'[x] = task[x]
  BY <1>1, <1>2
<1>9. ws'[run[r].task].there
  BY <1>t, <1>4
<1> QED BY <1>1, <1>2, <1>4, <1>5, <1>6, <1>7, <1>8, <1>9, RunStepKeeps

\* StartRun of a run that has a workspace.
LEMMA KeepStartRun ==
    ASSUME GitInv, NEW r \in Runs, StartRun(r)
    PROVE  GitInv'
<1>t. PICK t : t = run[r].task
  OBVIOUS
<1>1. /\ UNCHANGED <<saved, handoff, refs, imports, canon, lock, at, dropped, crashes>>
      /\ run[r].state = "prepared" /\ task[t].status = "queued" /\ task[t].run = r
      /\ ws' = [ws EXCEPT ![t].seen = canon] \/ ws' = ws
      /\ task' = [task EXCEPT ![t].status = "running"]
      /\ run' = [run EXCEPT ![r].state = "live", ![r].started = TRUE, ![r].sha = {}]
  BY <1>t DEF StartRun, Locked, NoLock, repository
<1>2. /\ run[r] \in RunRow /\ t \in Tasks /\ task[t] \in TaskRow /\ ws[t] \in Workspaces
      /\ run \in [Runs -> RunRow] /\ task \in [Tasks -> TaskRow]
      /\ ws \in [Tasks -> Workspaces] /\ canon \in Commits /\ RowSound(t, task[t])
      /\ {} \in Commits
  BY <1>t, <1>1, RunFacts, Plainly
<1>3. ws' \in [Tasks -> Workspaces] /\ \A x \in Tasks : ws[x].there => ws'[x].there
  <2>1. CASE ws' = ws
    BY <1>2, <2>1
  <2>2. CASE ws' = [ws EXCEPT ![t].seen = canon]
    <3>1. ws'[t] \in Workspaces /\ ws'[t].there = ws[t].there
      BY <1>2, <2>2 DEF Workspaces
    <3> QED BY <1>2, <2>2, <3>1
  <2> QED BY <1>1, <2>1, <2>2
<1>4. task[t].pending = "none"
  BY <1>1, <1>2 DEF RowSound, TaskRow
<1>5. /\ task'[t].status = "running" /\ task'[t].run = task[t].run
      /\ task'[t].pending = task[t].pending /\ task'[t] \in TaskRow
      /\ task'[t].base = task[t].base /\ task'[t].source = task[t].source
      /\ task'[t].released = task[t].released /\ task'[t].head = task[t].head
  BY <1>1, <1>2 DEF TaskRow, Open
<1>6. task' \in [Tasks -> TaskRow] /\ \A x \in Tasks \ {t} : task'[x] = task[x]
  BY <1>1, <1>2, <1>5
<1>7. /\ run'[r].task = run[r].task /\ run'[r].state = "live"
      /\ run'[r] \in RunRow /\ run' = [run EXCEPT ![r] = run'[r]]
  BY <1>1, <1>2 DEF RunRow
<1>8. RunMoves(r)
  BY <1>1, <1>7 DEF RunMoves
<1>9. RowMoves(t)
  <2>1. Stays(t)
    BY <1>1, <1>5 DEF Stays, Closed
  <2> QED BY <1>5, <2>1 DEF RowMoves
<1>10. RowSound(t, task[t])'
  BY <1>1, <1>2, <1>4, <1>5 DEF RowSound
<1> QED BY <1>1, <1>2, <1>3, <1>4, <1>6, <1>7, <1>8, <1>9, <1>10, RunStepKeeps

\* What the agent leaves is a commit.
LEMMA ResultCommits ==
    ASSUME GitInv, NEW t \in Tasks, NEW r \in Runs
    PROVE  Results(t, r) \subseteq Commits
<1> DEFINE inputs == IF task[t].source = None THEN {{}, ws[t].seen}
                     ELSE {{}, ws[t].seen, Source(task[t]), Source(task[t]) \cup ws[t].seen}
<1>1. ws[t].head \in Commits /\ ws[t].seen \in Commits
  BY DEF GitInv, TypeOK, Workspaces
<1>2. task[t].source # None => Source(task[t]) \in Commits
  BY Plainly, FieldTypes DEF Source
<1>3. \A m \in inputs : m \in Commits
  BY <1>1, <1>2 DEF Commits
<1> HIDE DEF inputs
<1>4. \A m \in inputs : ws[t].head \cup m \cup {r} \in Commits
  BY <1>1, <1>3 DEF Commits
<1>5. {r} \in Commits
  BY DEF Commits
<1>6. Results(t, r) = {ws[t].head \cup m \cup {r} : m \in inputs}
                        \cup {m \in inputs : ws[t].head \subseteq m}
                        \cup (IF "mess" \in Ops THEN {{r}} ELSE {})
  BY DEF Results, inputs
<1>7. ASSUME NEW h \in Results(t, r) PROVE h \in Commits
  <2>1. \/ h \in {ws[t].head \cup m \cup {r} : m \in inputs}
        \/ h \in {m \in inputs : ws[t].head \subseteq m}
        \/ h = {r}
    BY <1>6, <1>7
  <2>2. CASE h \in {ws[t].head \cup m \cup {r} : m \in inputs}
    BY <1>4, <2>2
  <2>3. CASE h \in {m \in inputs : ws[t].head \subseteq m}
    BY <1>3, <2>3
  <2> QED BY <1>5, <2>1, <2>2, <2>3
<1> QED BY <1>7

\* The agent works in its workspace.
LEMMA KeepAgentWorks ==
    ASSUME GitInv, NEW r \in Runs, AgentWorks(r)
    PROVE  GitInv'
<1>t. PICK t : t = run[r].task
  OBVIOUS
<1>1. /\ UNCHANGED <<task, saved, handoff, refs, imports, canon, lock, at, dropped, crashes>>
      /\ run[r].state = "live"
      /\ run' = [run EXCEPT ![r].state = "wrote"]
  BY DEF AgentWorks, repository
<1>2. /\ run[r] \in RunRow /\ t \in Tasks /\ ws[t] \in Workspaces
      /\ run \in [Runs -> RunRow] /\ task \in [Tasks -> TaskRow] /\ ws \in [Tasks -> Workspaces]
  BY <1>t, <1>1, RunFacts
<1>3. PICK h \in Results(t, r), c \in BOOLEAN : ws' = [ws EXCEPT ![t].head = h, ![t].clean = c]
  BY <1>t DEF AgentWorks
<1>4. h \in Commits
  BY <1>2, <1>3, ResultCommits
<1>5. ws' \in [Tasks -> Workspaces] /\ \A x \in Tasks : ws[x].there => ws'[x].there
  <2>1. ws'[t] \in Workspaces /\ ws'[t].there = ws[t].there
    BY <1>2, <1>3, <1>4 DEF Workspaces
  <2> QED BY <1>2, <1>3, <2>1
<1>6. /\ run'[r].task = run[r].task /\ run'[r].state = "wrote"
      /\ run'[r].started = run[r].started
      /\ run'[r] \in RunRow /\ run' = [run EXCEPT ![r] = run'[r]]
  BY <1>1, <1>2 DEF RunRow
<1>7. RunMoves(r)
  BY <1>1, <1>6 DEF RunMoves
<1>8. RowMoves(t) /\ RowSound(t, task[t])'
  BY <1>1, <1>2, RowStill
<1>9. task' \in [Tasks -> TaskRow] /\ \A x \in Tasks : task'[x] = task[x]
  BY <1>1, <1>2
<1> QED BY <1>1, <1>2, <1>5, <1>6, <1>7, <1>8, <1>9, RunStepKeeps

\* Submit names a commit and asks for its capture.
LEMMA KeepSubmit ==
    ASSUME GitInv, NEW r \in Runs, Submit(r)
    PROVE  GitInv'
<1>t. PICK t : t = run[r].task
  OBVIOUS
<1>1. /\ UNCHANGED <<saved, ws, handoff, refs, imports, canon, lock, at, dropped, crashes>>
      /\ run[r].state \in {"live", "wrote"} /\ task[t].status = "running" /\ task[t].run = r
      /\ task' = [task EXCEPT ![t].status = "finishing", ![t].pending = "capture"]
  BY <1>t DEF Submit, repository
<1>2. /\ run[r] \in RunRow /\ t \in Tasks /\ task[t] \in TaskRow /\ ws[t] \in Workspaces
      /\ run \in [Runs -> RunRow] /\ task \in [Tasks -> TaskRow]
      /\ ws \in [Tasks -> Workspaces] /\ RowSound(t, task[t])
  BY <1>t, <1>1, RunFacts
<1>3. PICK h \in {ws[t].head, task[t].base} : run' = [run EXCEPT ![r].sha = h]
  BY <1>t DEF Submit
<1>4. h \in Commits
  BY <1>2, <1>3 DEF Workspaces, TaskRow
<1>5. task[t].pending = "none" /\ r # None
  BY <1>1, <1>2, GitAssumption DEF RowSound, TaskRow
<1>6. /\ task'[t].status = "finishing" /\ task'[t].run = r
      /\ task'[t].pending = "capture" /\ task'[t] \in TaskRow
      /\ task'[t].base = task[t].base /\ task'[t].source = task[t].source
      /\ task'[t].released = task[t].released /\ task'[t].head = task[t].head
  BY <1>1, <1>2 DEF TaskRow, Open
<1>7. task' \in [Tasks -> TaskRow] /\ \A x \in Tasks \ {t} : task'[x] = task[x]
  BY <1>1, <1>2, <1>6
<1>8. /\ run'[r].task = run[r].task /\ run'[r].state = run[r].state
      /\ run'[r].started = run[r].started
      /\ run'[r] \in RunRow /\ run' = [run EXCEPT ![r] = run'[r]]
  BY <1>2, <1>3, <1>4 DEF RunRow
<1>9. RunMoves(r)
  BY <1>1, <1>8 DEF RunMoves
<1>10. RowMoves(t)
  <2>1. Stays(t)
    BY <1>1, <1>6 DEF Stays, Closed
  <2> QED BY <1>1, <1>6, <2>1 DEF RowMoves
<1>11. RowSound(t, task[t])'
  BY <1>1, <1>2, <1>5, <1>6 DEF RowSound
<1> QED BY <1>1, <1>2, <1>5, <1>7, <1>8, <1>9, <1>10, <1>11, RunStepKeeps

\* EndRun: the row lets go of the run unless its capture is pending.
LEMMA KeepEndRun ==
    ASSUME GitInv, NEW r \in Runs, EndRun(r)
    PROVE  GitInv'
<1>t. PICK t : t = run[r].task
  OBVIOUS
<1>k. PICK k : k = IF run[r].state = "prepared" THEN {} ELSE run[r].sha
  OBVIOUS
<1>1. /\ UNCHANGED <<saved, ws, handoff, refs, imports, canon, lock, at, dropped, crashes>>
      /\ run[r].state \in {"claimed", "prepared", "live", "wrote"}
      /\ run' = [run EXCEPT ![r].state = "ended", ![r].sha = k]
  BY <1>k DEF EndRun, Live, repository
<1>2. /\ run[r] \in RunRow /\ t \in Tasks /\ task[t] \in TaskRow /\ k \in Commits
      /\ run \in [Runs -> RunRow] /\ task \in [Tasks -> TaskRow]
      /\ ws \in [Tasks -> Workspaces] /\ RowSound(t, task[t])
  BY <1>t, <1>k, <1>1, RunFacts, Plainly
<1>3. PICK row \in AfterRun(task[t], r) : task' = [task EXCEPT ![t] = row]
  BY <1>t DEF EndRun
<1>4. /\ run'[r].task = run[r].task /\ run'[r].state = "ended"
      /\ run'[r].started = run[r].started
      /\ run'[r] \in RunRow /\ run' = [run EXCEPT ![r] = run'[r]]
  BY <1>1, <1>2 DEF RunRow
<1>5. RunMoves(r)
  BY <1>1, <1>4 DEF RunMoves
<1>6. task'[t] = row /\ \A x \in Tasks \ {t} : task'[x] = task[x]
  BY <1>2, <1>3
<1>7. CASE row = task[t]
  <2>1. RowMoves(t) /\ RowSound(t, task[t])'
    BY <1>2, <1>6, <1>7, RowStill
  <2>2. task' \in [Tasks -> TaskRow] /\ task'[t] = task[t]
    BY <1>2, <1>3, <1>6, <1>7
  <2> QED BY <1>1, <1>2, <1>4, <1>5, <1>6, <2>1, <2>2, RunStepKeeps
<1>8. CASE /\ task[t].run = r /\ task[t].status # "finishing"
           /\ \/ task[t].status \in Closed /\ row = [task[t] EXCEPT !.run = None]
              \/ /\ task[t].status \notin Closed
                 /\ \E z \in Retried : row = [task[t] EXCEPT !.run = None, !.status = z]
  <2>1. /\ task[t].run # None
        /\ task[t].status \in {"none", "deleted"} \cup Open \cup Closed
        /\ task[t].pending \in {"none", "capture", "advance"}
    BY <1>2, <1>8, GitAssumption DEF TaskRow
  <2>2. task[t].pending = "none" /\ task[t].status \in {"queued", "running", "failed"} \cup Closed
    BY <1>2, <1>8, <2>1 DEF RowSound, Open
  <2>3. /\ row.run = None /\ row.pending = "none" /\ row \in TaskRow
        /\ row.base = task[t].base /\ row.source = task[t].source
        /\ row.released = task[t].released /\ row.head = task[t].head
        /\ \/ task[t].status \in Closed /\ row.status = task[t].status
           \/ task[t].status \notin Closed /\ row.status \in {"queued", "failed"}
    <3>1. CASE task[t].status \in Closed /\ row = [task[t] EXCEPT !.run = None]
      BY <1>2, <2>2, <3>1 DEF TaskRow
    <3>2. CASE task[t].status \notin Closed
      <4>1. PICK z \in Retried : row = [task[t] EXCEPT !.run = None, !.status = z]
        BY <1>8, <3>2
      <4> QED BY <1>2, <2>2, <3>2, <4>1 DEF TaskRow, Retried, Open
    <3> QED BY <1>8, <3>1, <3>2
  <2>4. RowMoves(t)
    <3>1. Stays(t)
      BY <1>6, <2>2, <2>3 DEF Stays, Closed
    <3> QED BY <1>6, <2>3, <3>1 DEF RowMoves
  <2>5. RowSound(t, task[t])'
    BY <1>2, <1>6, <2>2, <2>3 DEF RowSound, Closed
  <2>6. task' \in [Tasks -> TaskRow]
    BY <1>2, <1>3, <2>3
  <2> QED BY <1>1, <1>2, <1>4, <1>5, <1>6, <2>2, <2>4, <2>5, <2>6, RunStepKeeps
<1> QED BY <1>3, <1>7, <1>8 DEF AfterRun

-----------------------------------------------------------------------------
(* The theorems.                                                           *)

\* In the beginning there is nothing.
LEMMA InitSound ==
    ASSUME Init
    PROVE  GitInv
<1>1. /\ \A t \in Tasks : /\ task[t] = NoTask
                          /\ task[t].status = "none" /\ task[t].run = None
                          /\ task[t].head = None /\ task[t].source = None
                          /\ task[t].base = {} /\ task[t].pending = "none"
      /\ \A r \in Runs : run[r].state = "none" /\ ~run[r].started
      /\ handoff = {} /\ refs = {} /\ imports = {} /\ canon = {} /\ saved = {}
  BY DEF Init, NoTask
<1>2. TypeOK
  <2>1. NoTask \in TaskRow /\ NoWorkspace \in Workspaces /\ {} \in Commits
    BY DEF NoTask, TaskRow, NoWorkspace, Workspaces, Commits
  <2>2. Idle \in Work
    BY <2>1 DEF Idle, Work, Steps
  <2>3. [task |-> None, sha |-> {}, started |-> FALSE, state |-> "none"] \in RunRow
    BY <2>1 DEF RunRow
  <2>4. 0 \in 0..MaxCrashes
    BY GitAssumption
  <2> QED BY <2>1, <2>2, <2>3, <2>4 DEF Init, TypeOK
<1>3. RowsSound /\ RunsSound
  BY <1>1 DEF RowsSound, RowSound, RunsSound
<1>4. ResultsSound /\ HeldSound
  BY <1>1 DEF ResultsSound, ResultSound, HeldSound
<1>5. RefsKept /\ RefsExplained
  BY <1>1 DEF RefsKept, Exists, RefsExplained
<1>6. WorkspacesSound
  BY <1>1 DEF WorkspacesSound, WorkspaceKept, Open
<1>7. ASSUME NEW w \in Workers PROVE WorkerSound(w)
  <2>1. at[w].pc = "idle"
    BY DEF Init, Idle
  <2> QED BY <2>1 DEF WorkerSound, Placed, Capturing, Advancing, Requesting, Collecting,
                      GitPcs, BossPcs, LockPcs, CapturePcs, AdvancePcs, CollectPcs
<1> QED BY <1>2, <1>3, <1>4, <1>5, <1>6, <1>7 DEF GitInv

\* Nothing happens.
LEMMA KeepStutter ==
    ASSUME GitInv, UNCHANGED vars
    PROVE  GitInv'
<1>1. UNCHANGED <<task, run, saved, ws, handoff, refs, imports, canon, lock, at, dropped, crashes>>
  BY DEF vars
<1>2. \A v \in Workers : WorkerSound(v)'
  <2>1. Moves
    BY <1>1, StillMoves
  <2>2. ASSUME NEW v \in Workers PROVE Looks(v)
    BY <1>1 DEF Looks
  <2> QED BY <2>1, <2>2, Bystander
<1>3. at' \in [Workers -> Work]
  BY <1>1, Plainly DEF TypeOK
<1> QED BY <1>1, <1>2, <1>3, Plainly, PlainKeeps

\* Every step keeps the invariant.
LEMMA NextKeeps ==
    ASSUME GitInv, [Next]_vars
    PROVE  GitInv'
<1>1. CASE GitStep
  BY <1>1, KeepCheckExisting, KeepRunHelper, KeepImportCapture, KeepPublishRef,
     KeepDeleteImport, KeepFinalizeCapture, KeepCleanupCapture, KeepRefuseCapture,
     KeepAdvance, KeepFinalizeAdvance, KeepFinalizeStale
     DEF GitStep
<1>2. CASE BossStep
  BY <1>2, KeepUseTaskRef, KeepInsertSourced, KeepRequestAdvance, KeepDeleteWorkspace,
     KeepDeleteRef
     DEF BossStep
<1>3. ASSUME NEW t \in Tasks, TakeCapture(t) \/ TakeAdvance(t) \/ Request(t) PROVE GitInv'
  BY <1>3, KeepTakeCapture, KeepTakeAdvance, KeepCreateTask, KeepReadSource, KeepReadAccept,
     KeepRequeue, KeepCancelTask, KeepDeleteTask
     DEF Request
<1>4. ASSUME NEW w \in {"gc", "boss"},
             Collect(w) \/ \E t \in Tasks : AuthorizeWorkspace(w, t) \/ AuthorizeRef(w, t)
      PROVE  GitInv'
  BY <1>4, KeepRemoveWorkspace, KeepReleaseSource, KeepRemoveRef, KeepAuthorizeWorkspace,
     KeepAuthorizeRef
     DEF Collect
<1>5. ASSUME NEW r \in Runs, RunStep(r) PROVE GitInv'
  BY <1>5, KeepClaimNext, KeepPrepareWorkspace, KeepStartRun, KeepAgentWorks, KeepSubmit,
     KeepEndRun
     DEF RunStep
<1> QED BY <1>1, <1>2, <1>3, <1>4, <1>5, KeepCrash, KeepStutter DEF Next

\* The inductive invariant holds of every behaviour.
THEOREM GitSound == Spec => []GitInv
<1>1. Init => GitInv
  BY InitSound
<1>2. GitInv /\ [Next]_vars => GitInv'
  BY NextKeeps
<1> QED BY <1>1, <1>2, PTL DEF Spec

\* Type correctness of rows, refs, workspaces and workers.
THEOREM GitTyped == Spec => []TypeOK
<1>1. GitInv => TypeOK
  BY DEF GitInv
<1> QED BY <1>1, GitSound, PTL

\* A completed task's result is part of the canonical branch, also when an
\* integration completed it.  (Advance, validateCapturedAncestry,
\* finalizeSuccessfulAdvance)
THEOREM CompletedKept == Spec => []CompletedIncluded
<1>1. GitInv => CompletedIncluded
  BY DEF GitInv, ResultsSound, ResultSound, CompletedIncluded
<1> QED BY <1>1, GitSound, PTL

\* Neither garbage collection nor a crash loses the ref of a result that is
\* needed.  (TaskRefEligible, DeleteTaskRefAndPrune, useSourceTaskRef)
THEOREM ResultsNeverLost == Spec => []RefsKept
<1>1. GitInv => RefsKept
  BY DEF GitInv
<1> QED BY <1>1, GitSound, PTL

\* An open task whose run has started keeps its workspace.
\* (WorkspaceEligible)
THEOREM WorkspacesHeld == Spec => []WorkspaceKept
<1>1. GitInv => WorkspaceKept
  BY DEF GitInv, WorkspacesSound
<1> QED BY <1>1, GitSound, PTL

\* The saved canonical commit is behind the actual one only while an advance is
\* pending, and an import ref belongs to a pending capture.
\* (finalizeSuccessfulAdvance, finalizeStaleAdvance, importCapture)
THEOREM NoStrayRefs == Spec => []RefsExplained
<1>1. GitInv => RefsExplained
  BY DEF GitInv
<1> QED BY <1>1, GitSound, PTL

\* Only Advance writes the canonical ref, and it moves it by fast-forward.
LEMMA StepsForward ==
    ASSUME [Next]_vars
    PROVE  canon \subseteq canon'
<1>1. CASE Advance
  BY <1>1 DEF Advance, FastForward
<1>2. CASE GitStep /\ ~Advance
  BY <1>2 DEF GitStep, CheckExisting, RunHelper, ImportCapture, PublishRef, DeleteImport,
              FinalizeCapture, CleanupCapture, RefuseCapture, FinalizeAdvance, FinalizeStale,
              repository
<1>3. CASE BossStep
  BY <1>3 DEF BossStep, UseTaskRef, InsertSourced, RequestAdvance, DeleteWorkspace, DeleteRef,
              repository
<1>4. ASSUME NEW t \in Tasks, TakeCapture(t) \/ TakeAdvance(t) \/ Request(t)
      PROVE  canon \subseteq canon'
  BY <1>4 DEF TakeCapture, TakeAdvance, Request, CreateTask, ReadSource, ReadAccept, Requeue,
              CancelTask, DeleteTask, repository
<1>5. ASSUME NEW w \in {"gc", "boss"},
             Collect(w) \/ \E t \in Tasks : AuthorizeWorkspace(w, t) \/ AuthorizeRef(w, t)
      PROVE  canon \subseteq canon'
  BY <1>5 DEF Collect, RemoveWorkspace, ReleaseSource, RemoveRef, AuthorizeWorkspace,
              AuthorizeRef, repository
<1>6. ASSUME NEW r \in Runs, RunStep(r) PROVE canon \subseteq canon'
  BY <1>6 DEF RunStep, ClaimNext, PrepareWorkspace, StartRun, AgentWorks, Submit, EndRun,
              repository
<1>7. CASE Crash
  BY <1>7 DEF Crash, repository
<1>8. CASE UNCHANGED vars
  BY <1>8 DEF vars
<1> QED BY <1>1, <1>2, <1>3, <1>4, <1>5, <1>6, <1>7, <1>8 DEF Next, GitStep

\* The canonical branch never loses a change it has had.  (Advance)
THEOREM CanonicalGrows == Spec => CanonicalForward
<1>1. [Next]_vars => [canon \subseteq canon']_canon
  BY StepsForward
<1> QED BY <1>1, PTL DEF Spec, CanonicalForward

\* The head that a collected workspace must have is kept elsewhere.
LEMMA HeadPreserved ==
    ASSUME GitInv, NEW w \in Workers, at[w].pc \in {"rmws", "delws"},
           NEW c, c = ExpectedHead(at[w].row)
    PROVE  Preserved(c)
<1>t. PICK t : t = at[w].task
  OBVIOUS
<1>h. PICK h : h = at[w].row.head
  OBVIOUS
<1>1. /\ t \in Tasks /\ h # None => h \in Runs
      /\ at[w].row.base \subseteq canon
      /\ \/ task[t].status \in Closed /\ task[t].head = h
         \/ task[t].status = "deleted" /\ (h # None => h \in dropped)
  <2>1. Placed(w, at[w]) /\ Collecting(at[w])
    BY Plainly DEF WorkerSound
  <2> QED BY <1>t, <1>h, <2>1 DEF Placed, Collecting, CollectPcs, Spent
<1>2. CASE h = None
  BY <1>h, <1>1, <1>2 DEF ExpectedHead, Preserved
<1>3. CASE h # None
  <2>1. c = run[h].sha /\ t \in Tasks
    BY <1>h, <1>t, <1>3, Plainly DEF ExpectedHead, Head, WorkerSound, Placed
  <2>2. CASE h \in dropped \cup refs
    BY <2>1, <2>2 DEF Preserved
  <2>3. CASE task[t].status \in Closed /\ task[t].head = h
    <3>1. h \in refs \/ run[h].sha \subseteq canon \/ h \in dropped
      BY <1>3, <2>1, <2>3 DEF GitInv, RefsKept, Exists, Closed, Head
    <3> QED BY <2>1, <3>1 DEF Preserved
  <2> QED BY <1>1, <1>3, <2>1, <2>2, <2>3
<1> QED BY <1>2, <1>3

\* A step that takes a workspace away.
LEMMA StepsKeepWork ==
    ASSUME GitInv, Next, NEW x \in Tasks, ws[x].there, ~ws'[x].there
    PROVE  at["boss"].pc = "rmws" \/ (ws[x].clean /\ Preserved(ws[x].head))
<1>1. ws \in [Tasks -> Workspaces]
  BY Plainly DEF TypeOK
<1>2. CASE ws' = ws
  BY <1>2
<1>3. ASSUME NEW w \in {"gc", "boss"}, RemoveWorkspace(w)
      PROVE  at["boss"].pc = "rmws" \/ (ws[x].clean /\ Preserved(ws[x].head))
  <2>1. at[w].pc = "rmws" /\ w \in Workers
    BY <1>3 DEF RemoveWorkspace, Doing, Workers
  <2>2. CASE w = "boss"
    BY <2>1, <2>2
  <2>3. CASE w # "boss"
    <3>1. x = at[w].task
      BY <1>1, <1>3 DEF RemoveWorkspace
    <3>2. ws[x].head = ExpectedHead(at[w].row) /\ ws[x].clean
      BY <1>3, <2>3, <3>1 DEF RemoveWorkspace, Unchanged
    <3> QED BY <2>1, <3>2, HeadPreserved
  <2> QED BY <2>2, <2>3
<1>4. CASE DeleteWorkspace
  <2>1. at["boss"].pc = "delws" /\ "boss" \in Workers
    BY <1>4 DEF DeleteWorkspace, Doing, Workers
  <2>2. ws' = [ws EXCEPT ![at["boss"].task] =
                 IF @.clean /\ @.head = ExpectedHead(at["boss"].row) THEN NoWorkspace ELSE @]
    BY <1>4 DEF DeleteWorkspace
  <2>3. x = at["boss"].task
    BY <1>1, <2>2
  <2>4. ws[x].head = ExpectedHead(at["boss"].row) /\ ws[x].clean
    BY <1>1, <2>2, <2>3
  <2> QED BY <2>1, <2>4, HeadPreserved
<1>5. ASSUME NEW r \in Runs, RunStep(r)
      PROVE  ws'[x].there
  <2>1. CASE PrepareWorkspace(r)
    BY <1>1, <2>1 DEF PrepareWorkspace, NoWorkspace
  <2>2. CASE StartRun(r)
    BY <1>1, <2>2 DEF StartRun, Workspaces
  <2>3. CASE AgentWorks(r)
    BY <1>1, <2>3 DEF AgentWorks, Workspaces
  <2>4. CASE Submit(r) \/ EndRun(r) \/ \E t \in Tasks : ClaimNext(t, r)
    BY <2>4 DEF Submit, EndRun, ClaimNext
  <2> QED BY <1>5, <2>1, <2>2, <2>3, <2>4 DEF RunStep
<1>6. CASE GitStep
  <2>1. ws' = ws
    BY <1>6 DEF GitStep, CheckExisting, RunHelper, ImportCapture, PublishRef, DeleteImport,
                FinalizeCapture, CleanupCapture, RefuseCapture, Advance, FinalizeAdvance,
                FinalizeStale
  <2> QED BY <1>2, <2>1
<1>7. CASE BossStep /\ ~DeleteWorkspace
  <2>1. ws' = ws
    BY <1>7 DEF BossStep, UseTaskRef, InsertSourced, RequestAdvance, DeleteRef
  <2> QED BY <1>2, <2>1
<1>8. ASSUME NEW t \in Tasks, TakeCapture(t) \/ TakeAdvance(t) \/ Request(t)
      PROVE  ws' = ws
  BY <1>8 DEF TakeCapture, TakeAdvance, Request, CreateTask, ReadSource, ReadAccept, Requeue,
              CancelTask, DeleteTask
<1>9. ASSUME NEW w \in {"gc", "boss"},
             \/ ReleaseSource(w) \/ RemoveRef(w)
             \/ \E t \in Tasks : AuthorizeWorkspace(w, t) \/ AuthorizeRef(w, t)
      PROVE  ws' = ws
  BY <1>9 DEF ReleaseSource, RemoveRef, AuthorizeWorkspace, AuthorizeRef
<1>10. CASE Crash
  <2>1. ws' = ws
    BY <1>10 DEF Crash
  <2> QED BY <1>2, <2>1
<1> QED BY <1>2, <1>3, <1>4, <1>5, <1>6, <1>7, <1>8, <1>9, <1>10 DEF Next, Collect

\* A workspace goes only if the operator discards it, or if it has no
\* uncommitted change and its HEAD is kept elsewhere.
\* (WorkspaceManager.Delete)
THEOREM NoWorkLost == Spec => WorkKept
<1>1. GitInv /\ [Next]_vars =>
        [\A t \in Tasks :
            ws[t].there /\ ~ws'[t].there =>
                \/ at["boss"].pc = "rmws"
                \/ ws[t].clean /\ Preserved(ws[t].head)]_vars
  BY StepsKeepWork
<1> QED BY <1>1, GitSound, PTL DEF Spec, WorkKept

=============================================================================
