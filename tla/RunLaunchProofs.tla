-------------------------- MODULE RunLaunchProofs --------------------------
(***************************************************************************)
(* Theorems about RunLaunch, for every set of runs and any number of       *)
(* faults and crashes, and their proofs.                                   *)
(*                                                                         *)
(* The six invariants are not inductive one by one: that a container is    *)
(* created only once needs its creator to be alone with the run, and that  *)
(* needs the maps runOperations and monitors to agree with what the        *)
(* workers do.  LaunchInv says what each step of a worker may rely on.     *)
(***************************************************************************)
EXTENDS RunLaunch, TLAPS

-----------------------------------------------------------------------------
(* The inductive invariant.                                                *)

\* The steps of cleanupRun, by which a run has ended.
CleanupSteps == {"retry", "stop", "remove", "close", "rmctl", "rmdir", "removed", "block"}

\* The other steps of a worker that owns a run, at which the run is live.
LiveSteps == Steps \ (CleanupSteps \cup {"idle", "listed"})

Issued == {"start_issued", "process_observed"}

\* What a run row s says of its container c, its directory d and its socket k.
RowFacts(s, c, d, k) ==
    /\ s.state = "none" => ~s.nonce
    /\ s.nonce <=> s.cleanup # "not_needed"
    /\ s.cid <=> s.phase # "intent"
    /\ ~s.nonce => c = "absent" /\ d = "absent" /\ ~k
    /\ c \in {"running", "exited"} => s.phase \in Issued
    /\ s.cleanup \in {"blocked", "removed"} => s.state \in Ended
    /\ s.cleanup = "removed" => c = "absent" /\ d = "absent" /\ ~k
    /\ s.state \in {"starting", "active"} /\ c # "absent" => d = "ready"

\* What step a of a worker relies on, of the run it works on.
StepFacts(a, s, c, d, k) ==
    /\ a.pc \in LiveSteps => s.state \in {"starting", "active"}
    /\ a.pc \in LiveSteps \ {"prepare", "terminal"} => s.nonce
    /\ a.pc = "prepare" => ~s.nonce
    /\ a.pc \in {"mkdir", "marker", "files", "socket", "create"} => c = "absent"
    /\ a.pc \in {"socket", "create"} => d = "ready"
    /\ a.pc \in {"create", "record", "issue", "start", "verify", "activate",
                 "attach", "watch"} => k
    /\ a.pc \in {"record", "issue", "start"} => c \in {"created", "absent"}
    /\ a.pc \in {"issue", "adopt", "rebuild"} => s.phase # "intent"
    /\ a.pc \in {"start", "verify", "activate"} => s.phase \in Issued
    /\ a.pc \in {"found", "adopt", "rebuild"} =>
            /\ a.saw \in {"created", "running", "exited"}
            /\ a.saw = "created" => c \in {"created", "absent"}
    /\ a.pc = "watch" => s.state = "active"
    /\ a.pc = "terminal" => a.saw \in Ended
    /\ a.pc \in CleanupSteps \cup {"listed"} => s.state \in Ended /\ s.nonce
    /\ a.pc \in {"close", "rmctl", "rmdir", "removed"} => c = "absent"
    /\ a.pc \in {"rmctl", "rmdir", "removed"} => ~k
    /\ a.pc = "removed" => d = "absent"

\* Occupies, of the row.
OccupiesRow(s) == s.state \in {"starting", "active"} \/ s.cleanup \in {"pending", "blocked"}

RowsSound == \A r \in Runs : RowFacts(run[r], cont[r], ctl[r], sock[r])

StepsSound ==
    \A w \in Workers :
        at[w].pc # "idle" =>
            LET r == at[w].run IN
            r \in Runs /\ StepFacts(at[w], run[r], cont[r], ctl[r], sock[r])

\* A worker owns its run through the map of operations, or it is the run's
\* supervisor and its monitor is registered.
Owned ==
    \A w \in Workers :
        /\ AtWork(w) => \/ op[at[w].run] = w /\ w \in Loops
                        \/ w = at[w].run /\ mon[w] = w
        /\ at[w].pc = "listed" => w \in Loops

\* AgentRuntimeOccupancy admits one run at a time.
OneOccupies == \A r, s \in Runs : Occupies(r) /\ Occupies(s) => r = s

LaunchInv ==
    /\ TypeOK
    /\ RowsSound
    /\ StepsSound
    /\ Owned
    /\ SingleOwner
    /\ OneOccupies

-----------------------------------------------------------------------------
(* How a step of one worker keeps the invariant.                           *)

\* A step of worker v changes the run it works on and nothing else outside of
\* the maps; a worker it moves is sound again.
Local(v) ==
    LET r == at[v].run IN
    /\ \A x \in Runs \ {r} :
          run'[x] = run[x] /\ cont'[x] = cont[x] /\ ctl'[x] = ctl[x] /\ sock'[x] = sock[x]
    /\ \A w \in Workers :
          \/ w # v /\ at'[w] = at[w]
          \/ at'[w].pc = "idle"
          \/ at'[w].run = r /\ StepFacts(at'[w], run'[r], cont'[r], ctl'[r], sock'[r])
    /\ RowFacts(run'[r], cont'[r], ctl'[r], sock'[r])
    /\ run[r].state \in Ended /\ run[r].nonce => run'[r].state \in Ended /\ run'[r].nonce
    /\ OccupiesRow(run'[r]) => OccupiesRow(run[r])

\* The run a worker works on, and what the invariant says of it.
LEMMA Working ==
    ASSUME LaunchInv, NEW v \in Workers, at[v].pc # "idle"
    PROVE  /\ at[v].run \in Runs
           /\ RowFacts(run[at[v].run], cont[at[v].run], ctl[at[v].run], sock[at[v].run])
           /\ StepFacts(at[v], run[at[v].run], cont[at[v].run], ctl[at[v].run], sock[at[v].run])
BY DEF LaunchInv, RowsSound, StepsSound

\* Names of workers are not names of runs.
LEMMA Names ==
    /\ "scheduler" \in Workers /\ "reconciler" \in Workers /\ "gc" \in Workers
    /\ "scheduler" \notin Runs /\ "reconciler" \notin Runs /\ "gc" \notin Runs
    /\ None \notin Workers
    /\ Runs \subseteq Workers
BY LaunchAssumption DEF Workers, Loops

\* A local step keeps every row and every other worker sound, and the agent
\* occupied by one run.
LEMMA LocalSound ==
    ASSUME LaunchInv, NEW v \in Workers, AtWork(v), Local(v)
    PROVE  RowsSound' /\ StepsSound' /\ OneOccupies'
<1> DEFINE r == at[v].run
<1>1. r \in Runs
  BY Working DEF AtWork
<1>2. RowsSound'
  BY <1>1 DEF RowsSound, Local, LaunchInv
<1>3. OneOccupies'
  <2>1. \A x \in Runs : Occupies(x)' => Occupies(x)
    BY <1>1 DEF Local, Occupies, Live, OccupiesRow
  <2> QED BY <2>1 DEF OneOccupies, LaunchInv
<1>4. StepsSound'
  <2> SUFFICES ASSUME NEW w \in Workers, at'[w].pc # "idle"
               PROVE  /\ at'[w].run \in Runs
                      /\ StepFacts(at'[w], run'[at'[w].run], cont'[at'[w].run],
                                   ctl'[at'[w].run], sock'[at'[w].run])
    BY DEF StepsSound
  <2>1. CASE at'[w].run = r /\ StepFacts(at'[w], run'[r], cont'[r], ctl'[r], sock'[r])
    BY <2>1, <1>1
  <2>2. CASE w # v /\ at'[w] = at[w]
    <3>1. at[w].run \in Runs
          /\ StepFacts(at[w], run[at[w].run], cont[at[w].run], ctl[at[w].run], sock[at[w].run])
      BY <2>2, Working
    <3>2. CASE at[w].run # r
      BY <3>1, <3>2, <2>2 DEF Local
    <3>3. CASE at[w].run = r
      <4>1. at[w].pc = "listed"
        BY <2>2, <3>3 DEF LaunchInv, SingleOwner, AtWork
      <4>2. run'[r].state \in Ended /\ run'[r].nonce
        BY <3>1, <3>3, <4>1 DEF Local, StepFacts
      <4> QED BY <2>2, <3>1, <3>3, <4>1, <4>2 DEF StepFacts, LiveSteps, CleanupSteps
    <3> QED BY <3>2, <3>3
  <2> QED BY <2>1, <2>2 DEF Local
<1> QED BY <1>2, <1>3, <1>4

-----------------------------------------------------------------------------
(* Moves of a worker.                                                      *)

\* Goto moves worker v and keeps what it has read.
LEMMA GotoEffect ==
    ASSUME LaunchInv, NEW v \in Workers, NEW pc \in Steps, Goto(v, pc)
    PROVE  /\ at' \in [Workers -> Work]
           /\ at'[v].pc = pc /\ at'[v].run = at[v].run /\ at'[v].saw = at[v].saw
           /\ \A w \in Workers \ {v} : at'[w] = at[w]
BY DEF LaunchInv, TypeOK, Goto, Work

\* Decide sends worker v to record a terminal state.
LEMMA DecideEffect ==
    ASSUME LaunchInv, NEW v \in Workers, NEW s \in Ended, Decide(v, s)
    PROVE  /\ at' \in [Workers -> Work]
           /\ at'[v].pc = "terminal" /\ at'[v].run = at[v].run /\ at'[v].saw = s
           /\ \A w \in Workers \ {v} : at'[w] = at[w]
BY DEF LaunchInv, TypeOK, Decide, Work, Steps

\* A worker may note a container's status as it moves.
LEMMA NoteEffect ==
    ASSUME LaunchInv, NEW v \in Workers, NEW pc \in Steps, NEW c \in Containers,
           at' = [at EXCEPT ![v].pc = pc, ![v].saw = c]
    PROVE  /\ at' \in [Workers -> Work]
           /\ at'[v].pc = pc /\ at'[v].run = at[v].run /\ at'[v].saw = c
           /\ \A w \in Workers \ {v} : at'[w] = at[w]
BY DEF LaunchInv, TypeOK, Work

\* Return leaves worker v idle.
LEMMA ReturnEffect ==
    ASSUME LaunchInv, NEW v \in Workers, Return(v)
    PROVE  /\ at' \in [Workers -> Work]
           /\ at'[v].pc = "idle"
           /\ \A w \in Workers \ {v} : at'[w] = at[w]
BY DEF LaunchInv, TypeOK, Return, Work, Steps, Idle

\* A fault is counted within its bound.
LEMMA MishapType ==
    ASSUME LaunchInv, Mishap
    PROVE  trouble' \in 0..MaxTrouble
BY LaunchAssumption DEF LaunchInv, TypeOK, Mishap

-----------------------------------------------------------------------------
(* Ownership.                                                              *)

\* Nobody but worker v changes hands: its operation and its monitor stay, or
\* it registers a monitor.
Held(v) ==
    LET r == at[v].run IN
    /\ op' = op
    /\ mon' \in [Runs -> Workers \cup {None}]
    /\ \A x \in Runs \ {r} : mon'[x] = mon[x]
    /\ mon'[r] \in {mon[r], r, v} \/ (op[r] = v /\ v \in Loops)
    /\ at'[v].run = r /\ at'[v].pc # "listed"
    /\ \A w \in Workers \ {v} : at'[w] = at[w]

\* Maps and workers agree after a step that holds on to its run.
LEMMA HeldOwned ==
    ASSUME LaunchInv, NEW v \in Workers, AtWork(v), Held(v)
    PROVE  Owned' /\ SingleOwner' /\ op' \in [Runs -> Workers \cup {None}]
<1> DEFINE r == at[v].run
<1>1. r \in Runs
  BY Working DEF AtWork
<1>2. SingleOwner' /\ op' \in [Runs -> Workers \cup {None}]
  BY DEF LaunchInv, TypeOK, Held, SingleOwner, AtWork
<1>3. Owned'
  <2> SUFFICES ASSUME NEW w \in Workers, AtWork(w)'
               PROVE  \/ op'[at'[w].run] = w /\ w \in Loops
                      \/ w = at'[w].run /\ mon'[w] = w
    BY DEF Owned, Held, AtWork, LaunchInv
  <2>1. CASE w = v
    BY <2>1, <1>1 DEF Owned, Held, AtWork, LaunchInv
  <2>2. CASE w # v
    <3>1. at'[w] = at[w] /\ op' = op
      BY <2>2 DEF Held
    <3>2. AtWork(w)
      BY <3>1 DEF AtWork
    <3>3. at[w].run \in Runs /\ at[w].run # r
      BY <2>2, <3>2, Working DEF LaunchInv, SingleOwner, AtWork
    <3>4. (op[at[w].run] = w /\ w \in Loops) \/ (w = at[w].run /\ mon[w] = w)
      BY <3>2 DEF LaunchInv, Owned
    <3>5. \A x \in Runs \ {r} : mon'[x] = mon[x]
      BY DEF Held
    <3> QED BY <3>1, <3>3, <3>4, <3>5
  <2> QED BY <2>1, <2>2
<1> QED BY <1>2, <1>3

\* Maps and workers agree after a worker has returned.
LEMMA ReturnOwned ==
    ASSUME LaunchInv, NEW v \in Workers, AtWork(v), Return(v)
    PROVE  /\ Owned' /\ SingleOwner'
           /\ op' \in [Runs -> Workers \cup {None}]
           /\ mon' \in [Runs -> Workers \cup {None}]
<1>1. /\ op' \in [Runs -> Workers \cup {None}]
      /\ mon' \in [Runs -> Workers \cup {None}]
  BY DEF LaunchInv, TypeOK, Return, MonitorAfter
<1>2. SingleOwner'
  BY ReturnEffect DEF LaunchInv, SingleOwner, AtWork
<1>3. Owned'
  <2> SUFFICES ASSUME NEW w \in Workers, AtWork(w)'
               PROVE  \/ op'[at'[w].run] = w /\ w \in Loops
                      \/ w = at'[w].run /\ mon'[w] = w
    BY ReturnEffect DEF Owned, AtWork, LaunchInv
  <2>1. w # v /\ at'[w] = at[w]
    BY ReturnEffect DEF AtWork
  <2>2. at[w].run \in Runs /\ at[w].run # at[v].run
    BY <2>1, Working DEF LaunchInv, SingleOwner, AtWork
  <2>3. (op[at[w].run] = w /\ w \in Loops) \/ (w = at[w].run /\ mon[w] = w)
    BY <2>1 DEF LaunchInv, Owned, AtWork
  <2> QED BY <2>1, <2>2, <2>3 DEF Return, MonitorAfter
<1> QED BY <1>1, <1>2, <1>3

\* The supervisor takes the run over from worker v.
LEMMA SuperviseOwned ==
    ASSUME LaunchInv, NEW v \in Workers, AtWork(v), Supervise(v, at[v].run)
    PROVE  /\ Owned' /\ SingleOwner'
           /\ op' \in [Runs -> Workers \cup {None}]
           /\ mon' \in [Runs -> Workers \cup {None}]
           /\ at' \in [Workers -> Work]
           /\ \A w \in Workers \ {v, at[v].run} : at'[w] = at[w]
           /\ at'[at[v].run] = [pc |-> "watch", run |-> at[v].run, saw |-> "none"]
           /\ v # at[v].run => at'[v].pc = "idle"
<1> DEFINE r == at[v].run
<1>1. r \in Runs /\ r \in Workers
  BY Working, Names DEF AtWork
<1>2. /\ op' \in [Runs -> Workers \cup {None}]
      /\ mon' \in [Runs -> Workers \cup {None}]
  BY <1>1 DEF LaunchInv, TypeOK, Supervise
<1>3. /\ at' \in [Workers -> Work]
      /\ \A w \in Workers \ {v, r} : at'[w] = at[w]
      /\ at'[r] = [pc |-> "watch", run |-> r, saw |-> "none"]
      /\ v # r => at'[v].pc = "idle"
  BY <1>1 DEF LaunchInv, TypeOK, Supervise, Work, Steps, Idle
<1>4. SingleOwner'
  BY <1>1, <1>3 DEF LaunchInv, SingleOwner, AtWork
<1>5. Owned'
  <2> SUFFICES ASSUME NEW w \in Workers, AtWork(w)'
               PROVE  \/ op'[at'[w].run] = w /\ w \in Loops
                      \/ w = at'[w].run /\ mon'[w] = w
    BY <1>3 DEF Owned, AtWork, LaunchInv
  <2>1. CASE w = r
    BY <2>1, <1>1, <1>3 DEF Supervise, LaunchInv, TypeOK
  <2>2. CASE w # r
    <3>1. w # v /\ at'[w] = at[w]
      BY <2>2, <1>3 DEF AtWork
    <3>2. at[w].run \in Runs /\ at[w].run # r
      BY <3>1, Working DEF LaunchInv, SingleOwner, AtWork
    <3>3. (op[at[w].run] = w /\ w \in Loops) \/ (w = at[w].run /\ mon[w] = w)
      BY <3>1 DEF LaunchInv, Owned, AtWork
    <3> QED BY <1>1, <3>1, <3>2, <3>3 DEF Supervise, LaunchInv, TypeOK
  <2> QED BY <2>1, <2>2
<1> QED BY <1>2, <1>3, <1>4, <1>5

-----------------------------------------------------------------------------
(* The ways a step ends.                                                   *)

DataTypes ==
    /\ run \in [Runs -> RunRow]
    /\ cont \in [Runs -> Containers]
    /\ ctl \in [Runs -> Controls]
    /\ sock \in [Runs -> BOOLEAN]

\* Worker v returns, or it goes on with its run and its next step may rely on
\* row s, container c, directory d and socket k.
Ends(v, s, c, d, k) ==
    \/ Return(v)
    \/ Held(v) /\ at' \in [Workers -> Work] /\ StepFacts(at'[v], s, c, d, k)

\* A local step that ends in one of these ways keeps the invariant.
LEMMA EndsKeeps ==
    ASSUME LaunchInv, NEW v \in Workers, AtWork(v), NEW r \in Runs, r = at[v].run,
           DataTypes', up' = up, Fine \/ Mishap,
           \A x \in Runs \ {r} :
             run'[x] = run[x] /\ cont'[x] = cont[x] /\ ctl'[x] = ctl[x] /\ sock'[x] = sock[x],
           RowFacts(run'[r], cont'[r], ctl'[r], sock'[r]),
           OccupiesRow(run'[r]) => OccupiesRow(run[r]),
           run[r].state \in Ended /\ run[r].nonce => run'[r].state \in Ended /\ run'[r].nonce,
           Ends(v, run'[r], cont'[r], ctl'[r], sock'[r])
    PROVE  LaunchInv'
<1>1. trouble' \in 0..MaxTrouble
  BY MishapType DEF Fine, LaunchInv, TypeOK
<1>2. CASE Return(v)
  <2>1. Local(v)
    BY <1>2, ReturnEffect DEF Local
  <2>2. TypeOK'
    BY <1>1, <1>2, ReturnOwned, ReturnEffect DEF DataTypes, TypeOK, LaunchInv
  <2> QED BY <1>2, <2>1, <2>2, LocalSound, ReturnOwned DEF LaunchInv
<1>3. CASE /\ Held(v) /\ at' \in [Workers -> Work]
           /\ StepFacts(at'[v], run'[r], cont'[r], ctl'[r], sock'[r])
  <2>1. Local(v)
    BY <1>3 DEF Local, Held
  <2>2. TypeOK'
    BY <1>1, <1>3, HeldOwned DEF DataTypes, TypeOK, LaunchInv, Held
  <2> QED BY <1>3, <2>1, <2>2, LocalSound, HeldOwned DEF LaunchInv
<1> QED BY <1>2, <1>3 DEF Ends

\* A move that keeps the operation and the monitor holds on to the run.
LEMMA GotoHeld ==
    ASSUME LaunchInv, NEW v \in Workers, NEW pc \in Steps \ {"listed"}, Goto(v, pc), Keep
    PROVE  /\ Held(v) /\ at' \in [Workers -> Work]
           /\ at'[v].pc = pc /\ at'[v].saw = at[v].saw
BY GotoEffect DEF Held, Keep, LaunchInv, TypeOK

\* So does a decision.
LEMMA DecideHeld ==
    ASSUME LaunchInv, NEW v \in Workers, NEW e \in Ended, Decide(v, e), Keep
    PROVE  /\ Held(v) /\ at' \in [Workers -> Work]
           /\ at'[v].pc = "terminal" /\ at'[v].saw = e
BY DecideEffect DEF Held, Keep, LaunchInv, TypeOK

\* A failed launch step returns or decides.
LEMMA FailHeld ==
    ASSUME LaunchInv, NEW v \in Workers, FailLaunch(v)
    PROVE  /\ Mishap
           /\ \/ Return(v)
              \/ /\ Held(v) /\ at' \in [Workers -> Work]
                 /\ at'[v].pc = "terminal" /\ at'[v].saw \in Ended
<1>1. "failed" \in Ended
  BY DEF Ended
<1> QED BY <1>1, DecideHeld DEF FailLaunch

-----------------------------------------------------------------------------
(* Writes of one run's row, container, directory and socket.               *)

\* The row of run r is replaced.
LEMMA RunSet ==
    ASSUME LaunchInv, NEW r \in Runs, NEW s \in RunRow, run' = [run EXCEPT ![r] = s]
    PROVE  run' \in [Runs -> RunRow] /\ run'[r] = s /\ \A x \in Runs \ {r} : run'[x] = run[x]
BY DEF LaunchInv, TypeOK

\* The container of run r changes.
LEMMA ContSet ==
    ASSUME LaunchInv, NEW r \in Runs, NEW c \in Containers, cont' = [cont EXCEPT ![r] = c]
    PROVE  cont' \in [Runs -> Containers] /\ cont'[r] = c /\ \A x \in Runs \ {r} : cont'[x] = cont[x]
BY DEF LaunchInv, TypeOK

\* The control directory of run r changes.
LEMMA CtlSet ==
    ASSUME LaunchInv, NEW r \in Runs, NEW d \in Controls, ctl' = [ctl EXCEPT ![r] = d]
    PROVE  ctl' \in [Runs -> Controls] /\ ctl'[r] = d /\ \A x \in Runs \ {r} : ctl'[x] = ctl[x]
BY DEF LaunchInv, TypeOK

\* The socket of run r changes.
LEMMA SockSet ==
    ASSUME LaunchInv, NEW r \in Runs, NEW k \in BOOLEAN, sock' = [sock EXCEPT ![r] = k]
    PROVE  sock' \in [Runs -> BOOLEAN] /\ sock'[r] = k /\ \A x \in Runs \ {r} : sock'[x] = sock[x]
BY DEF LaunchInv, TypeOK

\* What does not change keeps its type.
LEMMA Types ==
    ASSUME LaunchInv
    PROVE  /\ DataTypes
           /\ \A r \in Runs : run[r] \in RunRow /\ cont[r] \in Containers /\ ctl[r] \in Controls
                              /\ sock[r] \in BOOLEAN
BY DEF LaunchInv, TypeOK, DataTypes

\* A step that writes the row of its run.
LEMMA RunWritten ==
    ASSUME LaunchInv, NEW v \in Workers, AtWork(v), NEW r \in Runs, r = at[v].run,
           NEW s \in RunRow, run' = [run EXCEPT ![r] = s],
           UNCHANGED <<cont, ctl, sock, up>>, Fine \/ Mishap,
           RowFacts(s, cont[r], ctl[r], sock[r]),
           OccupiesRow(s) => OccupiesRow(run[r]),
           run[r].state \in Ended /\ run[r].nonce => s.state \in Ended /\ s.nonce,
           Ends(v, s, cont[r], ctl[r], sock[r])
    PROVE  LaunchInv'
<1>1. DataTypes' /\ run'[r] = s /\ \A x \in Runs \ {r} : run'[x] = run[x]
  BY RunSet, Types DEF DataTypes
<1> QED BY <1>1, EndsKeeps

\* A step that changes the container of its run.
LEMMA ContWritten ==
    ASSUME LaunchInv, NEW v \in Workers, AtWork(v), NEW r \in Runs, r = at[v].run,
           NEW c \in Containers, cont' = [cont EXCEPT ![r] = c],
           UNCHANGED <<run, ctl, sock, up>>, Fine \/ Mishap,
           RowFacts(run[r], c, ctl[r], sock[r]),
           Ends(v, run[r], c, ctl[r], sock[r])
    PROVE  LaunchInv'
<1>1. DataTypes' /\ cont'[r] = c /\ \A x \in Runs \ {r} : cont'[x] = cont[x]
  BY ContSet, Types DEF DataTypes
<1> QED BY <1>1, EndsKeeps

\* A step that changes the control directory of its run.
LEMMA CtlWritten ==
    ASSUME LaunchInv, NEW v \in Workers, AtWork(v), NEW r \in Runs, r = at[v].run,
           NEW d \in Controls, ctl' = [ctl EXCEPT ![r] = d],
           UNCHANGED <<run, cont, sock, up>>, Fine \/ Mishap,
           RowFacts(run[r], cont[r], d, sock[r]),
           Ends(v, run[r], cont[r], d, sock[r])
    PROVE  LaunchInv'
<1>1. DataTypes' /\ ctl'[r] = d /\ \A x \in Runs \ {r} : ctl'[x] = ctl[x]
  BY CtlSet, Types DEF DataTypes
<1> QED BY <1>1, EndsKeeps

\* A step that opens or closes the socket of its run.
LEMMA SockWritten ==
    ASSUME LaunchInv, NEW v \in Workers, AtWork(v), NEW r \in Runs, r = at[v].run,
           NEW k \in BOOLEAN, sock' = [sock EXCEPT ![r] = k],
           UNCHANGED <<run, cont, ctl, up>>, Fine \/ Mishap,
           RowFacts(run[r], cont[r], ctl[r], k),
           Ends(v, run[r], cont[r], ctl[r], k)
    PROVE  LaunchInv'
<1>1. DataTypes' /\ sock'[r] = k /\ \A x \in Runs \ {r} : sock'[x] = sock[x]
  BY SockSet, Types DEF DataTypes
<1> QED BY <1>1, EndsKeeps

\* A step that changes none of them.
LEMMA NothingWritten ==
    ASSUME LaunchInv, NEW v \in Workers, AtWork(v), NEW r \in Runs, r = at[v].run,
           UNCHANGED <<run, cont, ctl, sock, up>>, Fine \/ Mishap,
           Ends(v, run[r], cont[r], ctl[r], sock[r])
    PROVE  LaunchInv'
<1>1. DataTypes'
  BY Types DEF DataTypes
<1>2. RowFacts(run[r], cont[r], ctl[r], sock[r])
  BY DEF LaunchInv, RowsSound
<1> QED BY <1>1, <1>2, EndsKeeps

-----------------------------------------------------------------------------
(* Rows.                                                                   *)

\* The row BeginRunLaunch writes.
LEMMA PreparedRow ==
    ASSUME NEW row \in RunRow
    PROVE  LET s == Prepared(row) IN
           /\ s \in RunRow
           /\ s.nonce = TRUE /\ s.cleanup = "pending"
           /\ s.state = row.state /\ s.phase = row.phase /\ s.cid = row.cid
BY DEF Prepared, RunRow

\* The row RecordContainerCreated writes.
LEMMA WithContainerRow ==
    ASSUME NEW row \in RunRow
    PROVE  LET s == WithContainer(row) IN
           /\ s \in RunRow
           /\ s.cid = TRUE /\ s.phase = "created"
           /\ s.state = row.state /\ s.nonce = row.nonce /\ s.cleanup = row.cleanup
BY DEF WithContainer, RunRow, Phases

\* The row after its phase is recorded.
LEMMA PhaseRow ==
    ASSUME NEW row \in RunRow, NEW p \in Phases
    PROVE  LET s == [row EXCEPT !.phase = p] IN
           /\ s \in RunRow
           /\ s.phase = p
           /\ s.state = row.state /\ s.nonce = row.nonce /\ s.cid = row.cid
           /\ s.cleanup = row.cleanup
BY DEF RunRow

\* The row ObserveProcessAndActivateRun writes.
LEMMA ActiveRow ==
    ASSUME NEW row \in RunRow
    PROVE  LET s == [row EXCEPT !.state = "active", !.phase = "process_observed"] IN
           /\ s \in RunRow
           /\ s.state = "active" /\ s.phase = "process_observed"
           /\ s.nonce = row.nonce /\ s.cid = row.cid /\ s.cleanup = row.cleanup
BY DEF RunRow, Phases

\* The row RecordRuntimeRunTerminal writes.
LEMMA TerminalRow ==
    ASSUME NEW row \in RunRow, NEW e \in Ended
    PROVE  LET s == [row EXCEPT !.state = e] IN
           /\ s \in RunRow
           /\ s.state = e /\ s.phase = row.phase
           /\ s.nonce = row.nonce /\ s.cid = row.cid /\ s.cleanup = row.cleanup
BY DEF RunRow

\* The row RecordRunCleanup writes.
LEMMA CleanupRow ==
    ASSUME NEW row \in RunRow, NEW c \in {"pending", "blocked", "removed"}
    PROVE  LET s == [row EXCEPT !.cleanup = c] IN
           /\ s \in RunRow
           /\ s.cleanup = c /\ s.phase = row.phase
           /\ s.nonce = row.nonce /\ s.cid = row.cid /\ s.state = row.state
BY DEF RunRow

\* The row with a stop, an outcome or a cancellation on record.
LEMMA IntentRow ==
    ASSUME NEW row \in RunRow, NEW w \in {"stop", "outcome"}, NEW b \in BOOLEAN
    PROVE  LET s == [row EXCEPT !.want = w]
               c == [row EXCEPT !.cancelled = b]
           IN  /\ s \in RunRow /\ c \in RunRow
               /\ s.state = row.state /\ s.phase = row.phase /\ s.nonce = row.nonce
               /\ s.cid = row.cid /\ s.cleanup = row.cleanup
               /\ c.state = row.state /\ c.phase = row.phase /\ c.nonce = row.nonce
               /\ c.cid = row.cid /\ c.cleanup = row.cleanup
BY DEF RunRow

-----------------------------------------------------------------------------
(* The steps of a launch.                                                  *)

\* BeginRunLaunch keeps the invariant.
LEMMA BeginLaunchKeeps ==
    ASSUME LaunchInv, NEW v \in Workers, BeginLaunch(v)
    PROVE  LaunchInv'
<1> USE DEF LiveSteps, CleanupSteps, Steps
<1> DEFINE r == at[v].run
<1>0. /\ at[v].pc = "prepare" /\ AtWork(v) /\ r \in Runs /\ run[r] \in RunRow
      /\ run[r].state \in {"starting", "active"} /\ run[r].state \notin Ended
      /\ RowFacts(run[r], cont[r], ctl[r], sock[r])
  BY Working, Types DEF BeginLaunch, Doing, AtWork, StepFacts, Ended
<1>1. CASE /\ run' = [run EXCEPT ![r] = Prepared(@)]
           /\ Goto(v, "mkdir") /\ Keep /\ Fine
           /\ UNCHANGED <<cont, ctl, sock, up>>
  <2>1. PICK s \in RunRow : s = Prepared(run[r])
    BY <1>0, PreparedRow
  <2>2. /\ s.nonce = TRUE /\ s.cleanup = "pending" /\ s.state = run[r].state
        /\ s.phase = run[r].phase /\ s.cid = run[r].cid
    BY <1>0, <2>1, PreparedRow
  <2>3. RowFacts(s, cont[r], ctl[r], sock[r]) /\ OccupiesRow(run[r])
    BY <1>0, <2>2, Working DEF StepFacts, RowFacts, OccupiesRow
  <2>4. Ends(v, s, cont[r], ctl[r], sock[r])
    BY <1>0, <1>1, <2>2, Working, GotoHeld DEF StepFacts, RowFacts, Ends
  <2> QED BY <1>0, <1>1, <2>1, <2>3, <2>4, RunWritten
<1>2. CASE Return(v) /\ Fine /\ UNCHANGED <<run, cont, ctl, sock, up>>
  BY <1>0, <1>2, NothingWritten DEF Ends
<1>3. CASE FailLaunch(v) /\ UNCHANGED <<run, cont, ctl, sock, up>>
  <2>1. Ends(v, run[r], cont[r], ctl[r], sock[r])
    BY <1>0, <1>3, FailHeld DEF Ends, StepFacts
  <2> QED BY <1>0, <1>3, <2>1, NothingWritten DEF FailLaunch
<1> QED BY <1>1, <1>2, <1>3 DEF BeginLaunch

\* prepareAgentHome keeps the invariant.
LEMMA MakeDirectoriesKeeps ==
    ASSUME LaunchInv, NEW v \in Workers, MakeDirectories(v)
    PROVE  LaunchInv'
<1> USE DEF LiveSteps, CleanupSteps, Steps
<1> DEFINE r == at[v].run
<1>0. /\ at[v].pc = "mkdir" /\ AtWork(v) /\ r \in Runs
      /\ run[r].state \in {"starting", "active"} /\ run[r].nonce
      /\ cont[r] = "absent"
      /\ RowFacts(run[r], cont[r], ctl[r], sock[r])
  BY Working DEF MakeDirectories, Doing, AtWork, StepFacts
<1>1. RowFacts(run[r], cont[r], "bare", sock[r]) /\ "bare" \in Controls /\ "failed" \in Ended
  BY <1>0 DEF RowFacts, Controls, Ended
<1>2. CASE /\ ctl' = [ctl EXCEPT ![r] = "bare"]
           /\ Goto(v, "marker") /\ Fine /\ Keep
           /\ UNCHANGED <<run, cont, sock, up>>
  <2>1. Ends(v, run[r], cont[r], "bare", sock[r])
    BY <1>0, <1>2, GotoHeld DEF StepFacts, Ends
  <2> QED BY <1>0, <1>1, <1>2, <2>1, CtlWritten
<1>3. CASE /\ ctl' = [ctl EXCEPT ![r] = "bare"]
           /\ Decide(v, "failed") /\ Mishap /\ Keep
           /\ UNCHANGED <<run, cont, sock, up>>
  <2>1. Ends(v, run[r], cont[r], "bare", sock[r])
    BY <1>0, <1>1, <1>3, DecideHeld DEF Ends, StepFacts
  <2> QED BY <1>0, <1>1, <1>3, <2>1, CtlWritten
<1>4. CASE /\ Decide(v, "failed") /\ Mishap /\ Keep
           /\ UNCHANGED <<run, cont, ctl, sock, up>>
  <2>1. Ends(v, run[r], cont[r], ctl[r], sock[r])
    BY <1>0, <1>1, <1>4, DecideHeld DEF Ends, StepFacts
  <2> QED BY <1>0, <1>1, <1>4, <2>1, NothingWritten
<1> QED BY <1>2, <1>3, <1>4 DEF MakeDirectories

\* Writing the control files keeps the invariant.
LEMMA WriteControlKeeps ==
    ASSUME LaunchInv, NEW v \in Workers, WriteControl(v)
    PROVE  LaunchInv'
<1> USE DEF LiveSteps, CleanupSteps, Steps
<1> DEFINE r == at[v].run
           next == IF at[v].pc = "marker" THEN "files" ELSE "socket"
<1>0. /\ at[v].pc \in {"marker", "files"} /\ AtWork(v) /\ r \in Runs
      /\ run[r].state \in {"starting", "active"} /\ run[r].nonce
      /\ cont[r] = "absent"
      /\ RowFacts(run[r], cont[r], ctl[r], sock[r])
  BY Working DEF WriteControl, AtWork, StepFacts
<1>1. PICK d \in Controls : d = Written(at[v].pc)
  BY DEF Written, Controls
<1>2. RowFacts(run[r], cont[r], d, sock[r]) /\ "failed" \in Ended
  BY <1>0 DEF RowFacts, Ended
<1>3. CASE /\ ctl' = [ctl EXCEPT ![r] = Written(at[v].pc)]
           /\ Goto(v, next) /\ Fine /\ Keep
           /\ UNCHANGED <<run, cont, sock, up>>
  <2>1. next \in Steps /\ (next = "files" \/ (next = "socket" /\ d = "ready"))
    BY <1>0, <1>1 DEF Written
  <2>2. Ends(v, run[r], cont[r], d, sock[r])
    BY <1>0, <1>3, <2>1, GotoHeld DEF StepFacts, Ends
  <2> QED BY <1>0, <1>1, <1>2, <1>3, <2>2, CtlWritten
<1>4. CASE /\ Decide(v, "failed") /\ Mishap /\ Keep
           /\ UNCHANGED <<run, cont, ctl, sock, up>>
  <2>1. Ends(v, run[r], cont[r], ctl[r], sock[r])
    BY <1>0, <1>2, <1>4, DecideHeld DEF Ends, StepFacts
  <2> QED BY <1>0, <1>2, <1>4, <2>1, NothingWritten
<1> QED BY <1>3, <1>4 DEF WriteControl

\* Opening the run API socket keeps the invariant.
LEMMA OpenSocketKeeps ==
    ASSUME LaunchInv, NEW v \in Workers, OpenSocket(v)
    PROVE  LaunchInv'
<1> USE DEF LiveSteps, CleanupSteps, Steps
<1> DEFINE r == at[v].run
<1>0. /\ at[v].pc = "socket" /\ AtWork(v) /\ r \in Runs
      /\ run[r].state \in {"starting", "active"} /\ run[r].nonce
      /\ cont[r] = "absent" /\ ctl[r] = "ready"
      /\ RowFacts(run[r], cont[r], ctl[r], sock[r])
  BY Working DEF OpenSocket, Doing, AtWork, StepFacts
<1>1. RowFacts(run[r], cont[r], ctl[r], TRUE) /\ "failed" \in Ended
  BY <1>0 DEF RowFacts, Ended
<1>2. CASE /\ sock' = [sock EXCEPT ![r] = TRUE]
           /\ Goto(v, "create") /\ Fine /\ Keep
           /\ UNCHANGED <<run, cont, ctl, up>>
  <2>1. Ends(v, run[r], cont[r], ctl[r], TRUE)
    BY <1>0, <1>2, GotoHeld DEF StepFacts, Ends
  <2> QED BY <1>0, <1>1, <1>2, <2>1, SockWritten
<1>3. CASE /\ Decide(v, "failed") /\ Mishap /\ Keep
           /\ UNCHANGED <<run, cont, ctl, sock, up>>
  <2>1. Ends(v, run[r], cont[r], ctl[r], sock[r])
    BY <1>0, <1>1, <1>3, DecideHeld DEF Ends, StepFacts
  <2> QED BY <1>0, <1>1, <1>3, <2>1, NothingWritten
<1> QED BY <1>2, <1>3 DEF OpenSocket

\* createContainer keeps the invariant, also when its answer is lost.
LEMMA CreateContainerKeeps ==
    ASSUME LaunchInv, NEW v \in Workers, CreateContainer(v)
    PROVE  LaunchInv'
<1> USE DEF LiveSteps, CleanupSteps, Steps
<1> DEFINE r == at[v].run
<1>0. /\ at[v].pc = "create" /\ AtWork(v) /\ r \in Runs
      /\ run[r].state \in {"starting", "active"} /\ run[r].nonce
      /\ cont[r] = "absent" /\ ctl[r] = "ready" /\ sock[r]
      /\ RowFacts(run[r], cont[r], ctl[r], sock[r])
  BY Working DEF CreateContainer, Doing, AtWork, StepFacts
<1>1. "created" \in Containers /\ RowFacts(run[r], "created", ctl[r], sock[r])
  BY <1>0 DEF RowFacts, Ended, Containers
<1>2. CASE /\ cont' = [cont EXCEPT ![r] = "created"]
           /\ Goto(v, "record") /\ Fine /\ Keep
           /\ UNCHANGED <<run, ctl, sock, up>>
  <2>1. Ends(v, run[r], "created", ctl[r], sock[r])
    BY <1>0, <1>2, GotoHeld DEF StepFacts, Ends
  <2> QED BY <1>0, <1>1, <1>2, <2>1, ContWritten
<1>3. CASE /\ cont' = [cont EXCEPT ![r] = "created"] /\ FailLaunch(v)
           /\ UNCHANGED <<run, ctl, sock, up>>
  <2>1. Ends(v, run[r], "created", ctl[r], sock[r])
    BY <1>0, <1>3, FailHeld DEF Ends, StepFacts
  <2> QED BY <1>0, <1>1, <1>3, <2>1, ContWritten DEF FailLaunch
<1>4. CASE FailLaunch(v) /\ UNCHANGED <<run, cont, ctl, sock, up>>
  <2>1. Ends(v, run[r], cont[r], ctl[r], sock[r])
    BY <1>0, <1>4, FailHeld DEF Ends, StepFacts
  <2> QED BY <1>0, <1>4, <2>1, NothingWritten DEF FailLaunch
<1> QED BY <1>2, <1>3, <1>4 DEF CreateContainer

\* RecordContainerCreated keeps the invariant.
LEMMA RecordCreatedKeeps ==
    ASSUME LaunchInv, NEW v \in Workers, RecordCreated(v)
    PROVE  LaunchInv'
<1> USE DEF LiveSteps, CleanupSteps, Steps
<1> DEFINE r == at[v].run
<1>0. /\ at[v].pc = "record" /\ AtWork(v) /\ r \in Runs /\ run[r] \in RunRow
      /\ run[r].state \in {"starting", "active"} /\ run[r].nonce
      /\ cont[r] \in {"created", "absent"} /\ sock[r]
      /\ RowFacts(run[r], cont[r], ctl[r], sock[r])
  BY Working, Types DEF RecordCreated, Doing, AtWork, StepFacts
<1>1. PICK s \in RunRow : s = WithContainer(run[r])
  BY <1>0, WithContainerRow
<1>2. /\ s.cid = TRUE /\ s.phase = "created"
      /\ s.state = run[r].state /\ s.nonce = run[r].nonce /\ s.cleanup = run[r].cleanup
  BY <1>0, <1>1, WithContainerRow
<1>3. RowFacts(s, cont[r], ctl[r], sock[r]) /\ OccupiesRow(run[r])
      /\ run[r].state \notin Ended
  BY <1>0, <1>2 DEF RowFacts, OccupiesRow, Ended
<1>4. run' = [run EXCEPT ![r] = s] /\ UNCHANGED <<cont, ctl, sock, up>>
  BY <1>1 DEF RecordCreated
<1>5. CASE Goto(v, "issue") /\ Keep /\ Fine
  <2>1. Ends(v, s, cont[r], ctl[r], sock[r])
    BY <1>0, <1>2, <1>5, GotoHeld DEF StepFacts, Ends
  <2> QED BY <1>0, <1>3, <1>4, <1>5, <2>1, RunWritten
<1>6. CASE FailLaunch(v)
  <2>1. Ends(v, s, cont[r], ctl[r], sock[r])
    BY <1>0, <1>2, <1>6, FailHeld DEF Ends, StepFacts
  <2> QED BY <1>0, <1>3, <1>4, <1>6, <2>1, RunWritten DEF FailLaunch
<1> QED BY <1>5, <1>6 DEF RecordCreated

\* RecordRunStartIssued keeps the invariant.
LEMMA IssueStartKeeps ==
    ASSUME LaunchInv, NEW v \in Workers, IssueStart(v)
    PROVE  LaunchInv'
<1> USE DEF LiveSteps, CleanupSteps, Steps
<1> DEFINE r == at[v].run
<1>0. /\ at[v].pc = "issue" /\ AtWork(v) /\ r \in Runs /\ run[r] \in RunRow
      /\ run[r].state \in {"starting", "active"} /\ run[r].nonce
      /\ cont[r] \in {"created", "absent"} /\ sock[r] /\ run[r].phase # "intent"
      /\ RowFacts(run[r], cont[r], ctl[r], sock[r])
  BY Working, Types DEF IssueStart, Doing, AtWork, StepFacts
<1>1. PICK s \in RunRow : s = [run[r] EXCEPT !.phase = "start_issued"]
  BY <1>0, PhaseRow DEF Phases
<1>2. /\ s.phase = "start_issued" /\ s.cid = run[r].cid
      /\ s.state = run[r].state /\ s.nonce = run[r].nonce /\ s.cleanup = run[r].cleanup
  BY <1>0, <1>1, PhaseRow DEF Phases
<1>3. RowFacts(s, cont[r], ctl[r], sock[r]) /\ OccupiesRow(run[r])
      /\ run[r].state \notin Ended
  BY <1>0, <1>2 DEF RowFacts, OccupiesRow, Ended, Issued
<1>4. /\ run' = [run EXCEPT ![r] = s] /\ UNCHANGED <<cont, ctl, sock, up>>
      /\ Goto(v, "start") /\ Keep /\ Fine
  BY <1>1 DEF IssueStart
<1>5. Ends(v, s, cont[r], ctl[r], sock[r])
  BY <1>0, <1>2, <1>4, GotoHeld DEF StepFacts, Ends, Issued
<1> QED BY <1>0, <1>3, <1>4, <1>5, RunWritten

\* DockerExecutor.Start keeps the invariant, also when its answer is lost.
LEMMA StartContainerKeeps ==
    ASSUME LaunchInv, NEW v \in Workers, StartContainer(v)
    PROVE  LaunchInv'
<1> USE DEF LiveSteps, CleanupSteps, Steps
<1> DEFINE r == at[v].run
           next == IF v = "scheduler" THEN "verify" ELSE "attach"
<1>0. /\ at[v].pc = "start" /\ AtWork(v) /\ r \in Runs
      /\ run[r].state \in {"starting", "active"} /\ run[r].nonce
      /\ run[r].phase \in Issued /\ sock[r]
      /\ RowFacts(run[r], cont[r], ctl[r], sock[r])
  BY Working DEF StartContainer, Doing, AtWork, StepFacts
<1>1. UNCHANGED <<run, ctl, sock, up>> /\ "failed" \in Ended
  BY DEF StartContainer, Ended
<1>2. ASSUME cont[r] = "created", cont' = [cont EXCEPT ![r] = "running"],
             Ends(v, run[r], "running", ctl[r], sock[r]), Fine \/ Mishap
      PROVE  LaunchInv'
  <2>1. "running" \in Containers /\ RowFacts(run[r], "running", ctl[r], sock[r])
    BY <1>0, <1>2 DEF RowFacts, Containers, Issued
  <2> QED BY <1>0, <1>1, <1>2, <2>1, ContWritten
<1>3. CASE /\ cont[r] = "created" /\ cont' = [cont EXCEPT ![r] = "running"]
           /\ Goto(v, next) /\ Keep /\ Fine
  <2>1. next \in {"verify", "attach"} /\ next \in Steps
    OBVIOUS
  <2>2. Ends(v, run[r], "running", ctl[r], sock[r])
    BY <1>0, <1>3, <2>1, GotoHeld DEF StepFacts, Ends
  <2> QED BY <1>2, <1>3, <2>2
<1>4. ASSUME FailLaunch(v) \/ GiveUp(v)
      PROVE  (Fine \/ Mishap) /\ \A c : Ends(v, run[r], c, ctl[r], sock[r])
  BY <1>0, <1>4, FailHeld DEF GiveUp, Ends, StepFacts
<1>5. CASE /\ cont[r] = "created" /\ cont' = [cont EXCEPT ![r] = "running"]
           /\ FailLaunch(v) \/ GiveUp(v)
  BY <1>2, <1>4, <1>5
<1>6. CASE UNCHANGED cont /\ (FailLaunch(v) \/ GiveUp(v))
  BY <1>0, <1>1, <1>4, <1>6, NothingWritten
<1>7. CASE UNCHANGED cont /\ Fine /\ Decide(v, "failed") /\ Keep
  <2>1. Ends(v, run[r], cont[r], ctl[r], sock[r])
    BY <1>0, <1>1, <1>7, DecideHeld DEF Ends, StepFacts
  <2> QED BY <1>0, <1>1, <1>7, <2>1, NothingWritten
<1>8. CASE UNCHANGED cont /\ Fine /\ Return(v)
  BY <1>0, <1>1, <1>8, NothingWritten DEF Ends
<1> QED BY <1>3, <1>5, <1>6, <1>7, <1>8 DEF StartContainer

\* Registering a monitor holds on to the run.
LEMMA MonitorHeld ==
    ASSUME LaunchInv, NEW v \in Workers, AtWork(v), NEW pc \in Steps \ {"listed"}, Goto(v, pc), op' = op,
           \/ mon' = [mon EXCEPT ![at[v].run] = at[v].run]
           \/ mon' = [mon EXCEPT ![at[v].run] = v]
    PROVE  /\ Held(v) /\ at' \in [Workers -> Work]
           /\ at'[v].pc = pc /\ at'[v].saw = at[v].saw
<1>1. at[v].run \in Runs /\ at[v].run \in Workers
  BY Working, Names DEF AtWork
<1> QED BY <1>1, GotoEffect DEF Held, LaunchInv, TypeOK

\* verifyLive keeps the invariant.
LEMMA VerifyLiveKeeps ==
    ASSUME LaunchInv, NEW v \in Workers, VerifyLive(v)
    PROVE  LaunchInv'
<1> USE DEF LiveSteps, CleanupSteps, Steps
<1> DEFINE r == at[v].run
<1>0. /\ at[v].pc = "verify" /\ AtWork(v) /\ r \in Runs /\ r \in Workers
      /\ run[r].state \in {"starting", "active"} /\ run[r].nonce
      /\ run[r].phase \in Issued /\ sock[r]
  BY Working, Names DEF VerifyLive, Doing, AtWork, StepFacts
<1>1. UNCHANGED <<run, cont, ctl, sock, up>> /\ "failed" \in Ended
  BY DEF VerifyLive, Ended
<1>2. CASE Goto(v, "activate") /\ Fine /\ mon' = [mon EXCEPT ![r] = r] /\ UNCHANGED op
  <2>1. /\ Held(v) /\ at' \in [Workers -> Work]
        /\ at'[v].pc = "activate"
    BY <1>0, <1>2, MonitorHeld
  <2>2. Ends(v, run[r], cont[r], ctl[r], sock[r])
    BY <1>0, <1>2, <2>1 DEF StepFacts, Ends
  <2> QED BY <1>0, <1>1, <1>2, <2>2, NothingWritten
<1>3. CASE Goto(v, "wait") /\ Keep /\ Fine
  <2>1. Ends(v, run[r], cont[r], ctl[r], sock[r])
    BY <1>0, <1>3, GotoHeld DEF StepFacts, Ends
  <2> QED BY <1>0, <1>1, <1>3, <2>1, NothingWritten
<1>4. CASE Decide(v, "failed") /\ Keep /\ Fine
  <2>1. Ends(v, run[r], cont[r], ctl[r], sock[r])
    BY <1>0, <1>1, <1>4, DecideHeld DEF Ends, StepFacts
  <2> QED BY <1>0, <1>1, <1>4, <2>1, NothingWritten
<1>5. CASE FailLaunch(v)
  <2>1. Ends(v, run[r], cont[r], ctl[r], sock[r])
    BY <1>0, <1>1, <1>5, FailHeld DEF Ends, StepFacts
  <2> QED BY <1>0, <1>1, <1>5, <2>1, NothingWritten DEF FailLaunch
<1> QED BY <1>2, <1>3, <1>4, <1>5 DEF VerifyLive

\* Handing run r over to its supervisor keeps the invariant, when the run is
\* active from now on.
LEMMA SuperviseKeeps ==
    ASSUME LaunchInv, NEW v \in Workers, AtWork(v), NEW r \in Runs, r = at[v].run,
           Supervise(v, r), Fine, UNCHANGED <<cont, ctl, sock, up>>,
           NEW s \in RunRow, run' = [run EXCEPT ![r] = s],
           RowFacts(s, cont[r], ctl[r], sock[r]), sock[r],
           OccupiesRow(run[r]), run[r].state \notin Ended,
           s.state = "active", s.nonce
    PROVE  LaunchInv'
<1>1. /\ DataTypes' /\ run'[r] = s /\ \A x \in Runs \ {r} : run'[x] = run[x]
  BY RunSet, Types DEF DataTypes
<1>2. /\ \A w \in Workers \ {v, r} : at'[w] = at[w]
      /\ at'[r] = [pc |-> "watch", run |-> r, saw |-> "none"]
      /\ v # r => at'[v].pc = "idle"
  BY SuperviseOwned
<1>3. StepFacts(at'[r], s, cont[r], ctl[r], sock[r]) /\ at'[r].run = r
  BY <1>2 DEF StepFacts, LiveSteps, CleanupSteps, Steps
<1>4. Local(v)
  BY <1>1, <1>2, <1>3 DEF Local
<1>5. TypeOK'
  BY <1>1, SuperviseOwned DEF DataTypes, TypeOK, LaunchInv, Fine
<1> QED BY <1>4, <1>5, LocalSound, SuperviseOwned DEF LaunchInv

\* ObserveProcessAndActivateRun keeps the invariant.
LEMMA ActivateKeeps ==
    ASSUME LaunchInv, NEW v \in Workers, Activate(v)
    PROVE  LaunchInv'
<1> USE DEF LiveSteps, CleanupSteps, Steps
<1> DEFINE r == at[v].run
<1>0. /\ at[v].pc = "activate" /\ AtWork(v) /\ r \in Runs /\ run[r] \in RunRow
      /\ run[r].state \in {"starting", "active"} /\ run[r].nonce
      /\ run[r].phase \in Issued /\ sock[r]
      /\ RowFacts(run[r], cont[r], ctl[r], sock[r])
  BY Working, Types DEF Activate, Doing, AtWork, StepFacts
<1>1. UNCHANGED <<cont, ctl, sock, up>> /\ Fine /\ "failed" \in Ended
  BY DEF Activate, Ended
<1>2. CASE /\ run' = [run EXCEPT ![r].state = "active", ![r].phase = "process_observed"]
           /\ Supervise(v, r)
  <2>1. PICK s \in RunRow : s = [run[r] EXCEPT !.state = "active", !.phase = "process_observed"]
    BY <1>0, ActiveRow
  <2>2. /\ s.state = "active" /\ s.phase = "process_observed"
        /\ s.nonce = run[r].nonce /\ s.cid = run[r].cid /\ s.cleanup = run[r].cleanup
    BY <1>0, <2>1, ActiveRow
  <2>3. run' = [run EXCEPT ![r] = s]
    BY <1>2, <2>1, <1>0 DEF LaunchInv, TypeOK
  <2>4. RowFacts(s, cont[r], ctl[r], sock[r]) /\ OccupiesRow(run[r])
        /\ run[r].state \notin Ended
    BY <1>0, <2>2 DEF RowFacts, OccupiesRow, Ended, Issued
  <2> QED BY <1>0, <1>1, <1>2, <2>2, <2>3, <2>4, SuperviseKeeps
<1>3. CASE /\ v = "scheduler" /\ UNCHANGED run
           /\ Decide(v, "failed") /\ mon' = [mon EXCEPT ![r] = None] /\ UNCHANGED op
  <2>1. op[r] = v /\ v \in Loops
    BY <1>0, <1>3, Names DEF LaunchInv, Owned, Loops
  <2>2. /\ at' \in [Workers -> Work] /\ at'[v].pc = "terminal"
        /\ at'[v].run = r /\ at'[v].saw = "failed"
        /\ \A w \in Workers \ {v} : at'[w] = at[w]
    BY <1>1, <1>3, DecideEffect
  <2>3. Held(v)
    BY <1>0, <1>3, <2>1, <2>2 DEF Held, LaunchInv, TypeOK
  <2>4. Ends(v, run[r], cont[r], ctl[r], sock[r])
    BY <1>0, <1>1, <2>2, <2>3 DEF Ends, StepFacts
  <2> QED BY <1>0, <1>1, <1>3, <2>4, NothingWritten
<1>4. CASE Return(v) /\ UNCHANGED run
  BY <1>0, <1>1, <1>4, NothingWritten DEF Ends
<1> QED BY <1>2, <1>3, <1>4 DEF Activate

\* Every step of a launch keeps the invariant.
LEMMA LaunchStepKeeps ==
    ASSUME LaunchInv, NEW v \in Workers, LaunchStep(v)
    PROVE  LaunchInv'
BY BeginLaunchKeeps, MakeDirectoriesKeeps, WriteControlKeeps, OpenSocketKeeps,
   CreateContainerKeeps, RecordCreatedKeeps, IssueStartKeeps, StartContainerKeeps,
   VerifyLiveKeeps, ActivateKeeps DEF LaunchStep

-----------------------------------------------------------------------------
(* The steps of the reconciler.                                            *)

\* The terminal states that are decided from what is on record have the type
\* of a terminal state.
LEMMA Decisions ==
    \A r : /\ IntentTerminal(r) \in Ended
           /\ MissingTerminal(r) \in Ended
           /\ \A c : Observed(r, c) \in Ended
BY DEF IntentTerminal, MissingTerminal, Observed, Ended

\* Where a reconciled run goes on: a container is started only if it was found
\* created, and without recording the start again only if that is on record.
LEMMA Continuation ==
    ASSUME NEW c \in {"created", "running", "exited"}, NEW p \in Phases, p # "intent"
    PROVE  /\ Continue(c, p) \in {"wait", "attach", "issue", "start"}
           /\ Continue(c, p) \in {"issue", "start"} => c = "created"
           /\ Continue(c, p) = "start" => p \in Issued
<1>1. CASE c = "exited"
  <2>1. Continue("exited", p) = "wait"
    BY DEF Continue
  <2> QED BY <1>1, <2>1
<1>2. CASE c = "running"
  <2>1. Continue("running", p) = "attach"
    BY DEF Continue
  <2> QED BY <1>2, <2>1
<1>3. CASE c = "created" /\ p = "created"
  <2>1. Continue("created", "created") = "issue"
    BY DEF Continue
  <2> QED BY <1>3, <2>1
<1>4. CASE c = "created" /\ p # "created"
  <2>1. Continue("created", p) = "start"
    BY <1>4 DEF Continue
  <2> QED BY <1>4, <2>1 DEF Phases, Issued
<1> QED BY <1>1, <1>2, <1>3, <1>4

\* The inspection of a run's container keeps the invariant.
LEMMA InspectKeeps ==
    ASSUME LaunchInv, NEW v \in Workers, Inspect(v)
    PROVE  LaunchInv'
<1> USE DEF LiveSteps, CleanupSteps, Steps
<1> DEFINE r == at[v].run
<1>0. /\ at[v].pc = "inspect" /\ AtWork(v) /\ r \in Runs /\ cont[r] \in Containers
      /\ run[r].state \in {"starting", "active"} /\ run[r].nonce
  BY Working, Types DEF Inspect, Doing, AtWork, StepFacts
<1>1. UNCHANGED <<run, cont, ctl, sock, up>>
  BY DEF Inspect, durable
<1>2. CASE Decide(v, MissingTerminal(r)) /\ Keep /\ Fine
  <2>1. PICK e \in Ended : e = MissingTerminal(r)
    BY Decisions
  <2>2. Ends(v, run[r], cont[r], ctl[r], sock[r])
    BY <1>0, <1>2, <2>1, DecideHeld DEF Ends, StepFacts
  <2> QED BY <1>0, <1>1, <1>2, <2>2, NothingWritten
<1>3. CASE /\ cont[r] # "absent" /\ Keep /\ Fine
           /\ at' = [at EXCEPT ![v].pc = "found", ![v].saw = cont[r]]
  <2>1. /\ at' \in [Workers -> Work]
        /\ at'[v].pc = "found" /\ at'[v].run = at[v].run /\ at'[v].saw = cont[r]
        /\ \A w \in Workers \ {v} : at'[w] = at[w]
    BY <1>0, <1>3, NoteEffect
  <2>2. Held(v)
    BY <1>3, <2>1 DEF Held, Keep, LaunchInv, TypeOK
  <2>3. Ends(v, run[r], cont[r], ctl[r], sock[r])
    BY <1>0, <1>3, <2>1, <2>2 DEF Ends, StepFacts, Containers
  <2> QED BY <1>0, <1>1, <1>3, <2>3, NothingWritten
<1>4. CASE GiveUp(v)
  BY <1>0, <1>1, <1>4, NothingWritten DEF GiveUp, Ends
<1> QED BY <1>2, <1>3, <1>4 DEF Inspect

\* Recording a container the row does not know keeps the invariant.
LEMMA RecordFoundKeeps ==
    ASSUME LaunchInv, NEW v \in Workers, RecordFound(v)
    PROVE  LaunchInv'
<1> USE DEF LiveSteps, CleanupSteps, Steps
<1> DEFINE r == at[v].run
<1>0. /\ at[v].pc = "found" /\ AtWork(v) /\ r \in Runs /\ run[r] \in RunRow
      /\ run[r].state \in {"starting", "active"} /\ run[r].nonce
      /\ at[v].saw \in {"created", "running", "exited"}
      /\ at[v].saw = "created" => cont[r] \in {"created", "absent"}
      /\ RowFacts(run[r], cont[r], ctl[r], sock[r])
  BY Working, Types DEF RecordFound, Doing, AtWork, StepFacts
<1>1. UNCHANGED <<cont, ctl, sock, up>> /\ Goto(v, "adopt") /\ Keep /\ Fine
  BY DEF RecordFound
<1>2. CASE run[r].cid /\ run' = run
  <2>1. Ends(v, run[r], cont[r], ctl[r], sock[r])
    BY <1>0, <1>1, <1>2, GotoHeld DEF Ends, StepFacts, RowFacts
  <2> QED BY <1>0, <1>1, <1>2, <2>1, NothingWritten
<1>3. CASE ~run[r].cid /\ run' = [run EXCEPT ![r] = WithContainer(@)]
  <2>1. PICK s \in RunRow : s = WithContainer(run[r])
    BY <1>0, WithContainerRow
  <2>2. /\ s.cid = TRUE /\ s.phase = "created"
        /\ s.state = run[r].state /\ s.nonce = run[r].nonce /\ s.cleanup = run[r].cleanup
    BY <1>0, <2>1, WithContainerRow
  <2>3. RowFacts(s, cont[r], ctl[r], sock[r]) /\ OccupiesRow(run[r])
        /\ run[r].state \notin Ended
    BY <1>0, <1>3, <2>2 DEF RowFacts, OccupiesRow, Ended, Issued
  <2>4. Ends(v, s, cont[r], ctl[r], sock[r])
    BY <1>0, <1>1, <2>2, GotoHeld DEF StepFacts, Ends
  <2>5. run' = [run EXCEPT ![r] = s]
    BY <1>3, <2>1
  <2> QED BY <1>0, <1>1, <2>3, <2>4, <2>5, RunWritten
<1> QED BY <1>2, <1>3 DEF RecordFound

\* The checks of an adoption keep the invariant.
LEMMA AdoptKeeps ==
    ASSUME LaunchInv, NEW v \in Workers, Adopt(v)
    PROVE  LaunchInv'
<1> USE DEF LiveSteps, CleanupSteps, Steps
<1> DEFINE r == at[v].run
<1>0. /\ at[v].pc = "adopt" /\ AtWork(v) /\ r \in Runs
      /\ run[r].state \in {"starting", "active"} /\ run[r].nonce /\ run[r].phase # "intent"
      /\ at[v].saw \in {"created", "running", "exited"}
      /\ at[v].saw = "created" => cont[r] \in {"created", "absent"}
  BY Working DEF Adopt, Doing, AtWork, StepFacts
<1>1. UNCHANGED <<run, cont, ctl, sock, up>>
  BY DEF Adopt, durable
<1>2. CASE Return(v) /\ (Fine \/ Mishap)
  BY <1>0, <1>1, <1>2, NothingWritten DEF Ends
<1>3. CASE Decide(v, IntentTerminal(r)) /\ Keep /\ Fine
  <2>1. PICK e \in Ended : e = IntentTerminal(r)
    BY Decisions
  <2>2. Ends(v, run[r], cont[r], ctl[r], sock[r])
    BY <1>0, <1>3, <2>1, DecideHeld DEF Ends, StepFacts
  <2> QED BY <1>0, <1>1, <1>3, <2>2, NothingWritten
<1>4. CASE Goto(v, "halt") /\ mon' = [mon EXCEPT ![r] = v] /\ UNCHANGED op /\ Fine
  <2>1. /\ Held(v) /\ at' \in [Workers -> Work]
        /\ at'[v].pc = "halt"
    BY <1>0, <1>4, MonitorHeld
  <2>2. Ends(v, run[r], cont[r], ctl[r], sock[r])
    BY <1>0, <1>4, <2>1 DEF StepFacts, Ends
  <2> QED BY <1>0, <1>1, <1>4, <2>2, NothingWritten
<1>5. CASE Goto(v, "rebuild") /\ Keep /\ Fine
  <2>1. Ends(v, run[r], cont[r], ctl[r], sock[r])
    BY <1>0, <1>5, GotoHeld DEF StepFacts, Ends
  <2> QED BY <1>0, <1>1, <1>5, <2>1, NothingWritten
<1> QED BY <1>2, <1>3, <1>4, <1>5 DEF Adopt, GiveUp

\* rebuildControl and what follows it keep the invariant.
LEMMA RebuildKeeps ==
    ASSUME LaunchInv, NEW v \in Workers, Rebuild(v)
    PROVE  LaunchInv'
<1> USE DEF LiveSteps, CleanupSteps, Steps
<1> DEFINE r == at[v].run
           next == Continue(at[v].saw, run[r].phase)
<1>0. /\ at[v].pc = "rebuild" /\ AtWork(v) /\ r \in Runs /\ run[r] \in RunRow
      /\ run[r].state \in {"starting", "active"} /\ run[r].nonce /\ run[r].phase # "intent"
      /\ at[v].saw \in {"created", "running", "exited"}
      /\ at[v].saw = "created" => cont[r] \in {"created", "absent"}
      /\ RowFacts(run[r], cont[r], ctl[r], sock[r])
  BY Working, Types DEF Rebuild, Doing, AtWork, StepFacts
<1>1. UNCHANGED <<run, cont, ctl, up>>
  BY DEF Rebuild, durable
<1>2. CASE /\ sock' = [sock EXCEPT ![r] = ControlRebuilt(@)]
           /\ Goto(v, next) /\ Keep /\ Fine
  <2>1. RowFacts(run[r], cont[r], ctl[r], TRUE)
    BY <1>0 DEF RowFacts, Ended
  <2>2. run[r].phase \in Phases
    BY <1>0 DEF RunRow
  <2>3. /\ next \in {"wait", "attach", "issue", "start"}
        /\ next \in {"issue", "start"} => at[v].saw = "created"
        /\ next = "start" => run[r].phase \in Issued
    BY <1>0, <2>2, Continuation
  <2>4. PICK pc \in Steps : pc = next
    BY <2>3
  <2>5. Ends(v, run[r], cont[r], ctl[r], TRUE)
    BY <1>0, <1>2, <2>3, <2>4, GotoHeld DEF StepFacts, Ends
  <2>6. sock' = [sock EXCEPT ![r] = TRUE]
    BY <1>2 DEF ControlRebuilt
  <2> QED BY <1>0, <1>1, <1>2, <2>1, <2>5, <2>6, SockWritten
<1>3. CASE Return(v) /\ (Fine \/ Mishap) /\ UNCHANGED sock
  BY <1>0, <1>1, <1>3, NothingWritten DEF Ends
<1> QED BY <1>2, <1>3 DEF Rebuild, GiveUp

\* stopReconciledRun keeps the invariant.
LEMMA HaltKeeps ==
    ASSUME LaunchInv, NEW v \in Workers, Halt(v)
    PROVE  LaunchInv'
<1> USE DEF LiveSteps, CleanupSteps, Steps
<1> DEFINE r == at[v].run
<1>0. /\ at[v].pc = "halt" /\ AtWork(v) /\ r \in Runs /\ cont[r] \in Containers
      /\ run[r].state \in {"starting", "active"} /\ run[r].nonce
      /\ RowFacts(run[r], cont[r], ctl[r], sock[r])
  BY Working, Types DEF Halt, Doing, AtWork, StepFacts
<1>1. PICK c \in Containers : c = IF cont[r] = "running" THEN "exited" ELSE cont[r]
  BY <1>0 DEF Containers
<1>2. RowFacts(run[r], c, ctl[r], sock[r])
  BY <1>0, <1>1 DEF RowFacts
<1>3. UNCHANGED <<run, ctl, sock, up>>
  BY DEF Halt
<1>4. CASE cont' = [cont EXCEPT ![r] = c] /\ Goto(v, "wait") /\ Keep /\ Fine
  <2>1. Ends(v, run[r], c, ctl[r], sock[r])
    BY <1>0, <1>4, GotoHeld DEF StepFacts, Ends
  <2> QED BY <1>0, <1>2, <1>3, <1>4, <2>1, ContWritten
<1>5. CASE cont' = [cont EXCEPT ![r] = c] /\ GiveUp(v)
  BY <1>0, <1>2, <1>3, <1>5, ContWritten DEF GiveUp, Ends
<1>6. CASE cont' = cont /\ GiveUp(v)
  BY <1>0, <1>3, <1>6, NothingWritten DEF GiveUp, Ends
<1>7. [cont EXCEPT ![r] = IF @ = "running" THEN "exited" ELSE @] = [cont EXCEPT ![r] = c]
  BY <1>1
<1> QED BY <1>4, <1>5, <1>6, <1>7 DEF Halt

\* adoptRunning keeps the invariant.
LEMMA AttachKeeps ==
    ASSUME LaunchInv, NEW v \in Workers, Attach(v)
    PROVE  LaunchInv'
<1> USE DEF LiveSteps, CleanupSteps, Steps
<1> DEFINE r == at[v].run
<1>0. /\ at[v].pc = "attach" /\ AtWork(v) /\ r \in Runs /\ run[r] \in RunRow
      /\ run[r].state \in {"starting", "active"} /\ run[r].nonce /\ sock[r]
      /\ RowFacts(run[r], cont[r], ctl[r], sock[r])
  BY Working, Types DEF Attach, Doing, AtWork, StepFacts
<1>1. UNCHANGED <<run, cont, ctl, sock, up>>
  BY DEF Attach, durable
<1>2. CASE run[r].state = "active" /\ Supervise(v, r) /\ Fine
  <2>1. PICK s \in RunRow : s = run[r]
    BY <1>0
  <2>2. run' = [run EXCEPT ![r] = s]
    BY <1>0, <1>1, <2>1 DEF LaunchInv, TypeOK
  <2>3. OccupiesRow(run[r]) /\ run[r].state \notin Ended
    BY <1>0 DEF OccupiesRow, Ended
  <2> QED BY <1>0, <1>1, <1>2, <2>1, <2>2, <2>3, SuperviseKeeps
<1>3. CASE /\ run[r].phase = "start_issued" /\ Fine
           /\ mon' = [mon EXCEPT ![r] = r] /\ UNCHANGED op /\ Goto(v, "activate")
  <2>1. /\ Held(v) /\ at' \in [Workers -> Work]
        /\ at'[v].pc = "activate"
    BY <1>0, <1>3, MonitorHeld
  <2>2. Ends(v, run[r], cont[r], ctl[r], sock[r])
    BY <1>0, <1>3, <2>1 DEF StepFacts, Ends, Issued
  <2> QED BY <1>0, <1>1, <1>3, <2>2, NothingWritten
<1>4. CASE GiveUp(v)
  BY <1>0, <1>1, <1>4, NothingWritten DEF GiveUp, Ends
<1> QED BY <1>2, <1>3, <1>4 DEF Attach

\* Every step of the reconciler keeps the invariant.
LEMMA ReconcileStepKeeps ==
    ASSUME LaunchInv, NEW v \in Workers, ReconcileStep(v)
    PROVE  LaunchInv'
BY InspectKeeps, RecordFoundKeeps, AdoptKeeps, RebuildKeeps, HaltKeeps, AttachKeeps
   DEF ReconcileStep

-----------------------------------------------------------------------------
(* Watching, the end of a run and its cleanup.                             *)

\* Waiting for the end of a container keeps the invariant.
LEMMA AwaitExitKeeps ==
    ASSUME LaunchInv, NEW v \in Workers, AwaitExit(v)
    PROVE  LaunchInv'
<1> USE DEF LiveSteps, CleanupSteps, Steps
<1> DEFINE r == at[v].run
<1>0. /\ at[v].pc = "wait" /\ AtWork(v) /\ r \in Runs /\ cont[r] \in Containers
      /\ run[r].state \in {"starting", "active"} /\ run[r].nonce
  BY Working, Types DEF AwaitExit, Doing, AtWork, StepFacts
<1>1. UNCHANGED <<run, cont, ctl, sock, up>> /\ Keep /\ (Fine \/ Mishap)
  BY DEF AwaitExit, durable
<1>2. PICK c \in Containers : at' = [at EXCEPT ![v].pc = "finish", ![v].saw = c]
  BY <1>0 DEF AwaitExit, Containers
<1>3. /\ at' \in [Workers -> Work]
      /\ at'[v].pc = "finish" /\ at'[v].run = at[v].run
      /\ \A w \in Workers \ {v} : at'[w] = at[w]
  BY <1>2, NoteEffect
<1>4. Held(v)
  BY <1>1, <1>3 DEF Held, Keep, LaunchInv, TypeOK
<1>5. Ends(v, run[r], cont[r], ctl[r], sock[r])
  BY <1>0, <1>3, <1>4 DEF Ends, StepFacts
<1> QED BY <1>0, <1>1, <1>5, NothingWritten

\* supervise keeps the invariant.
LEMMA WatchKeeps ==
    ASSUME LaunchInv, NEW v \in Runs, Watch(v)
    PROVE  LaunchInv'
<1> USE DEF LiveSteps, CleanupSteps, Steps
<1> DEFINE r == at[v].run
<1>a. v \in Workers
  BY Names
<1>0. /\ at[v].pc = "watch" /\ AtWork(v) /\ r \in Runs
      /\ run[r].state \in {"starting", "active"} /\ run[r].nonce
      /\ RowFacts(run[r], cont[r], ctl[r], sock[r])
      /\ StepFacts(at[v], run[r], cont[r], ctl[r], sock[r])
      /\ cont[v] \in Containers
  BY <1>a, Working, Types DEF Watch, Doing, AtWork, StepFacts
<1>1. UNCHANGED <<run, ctl, sock, up>>
  BY DEF Watch
<1>2. CASE /\ at' = [at EXCEPT ![v].pc = "finish", ![v].saw = cont[v]]
           /\ Keep /\ Fine /\ UNCHANGED cont
  <2>0. PICK c \in Containers : c = cont[v]
    BY <1>0
  <2>1. /\ at' \in [Workers -> Work]
        /\ at'[v].pc = "finish" /\ at'[v].run = at[v].run
        /\ \A w \in Workers \ {v} : at'[w] = at[w]
    BY <1>a, <1>2, <2>0, NoteEffect
  <2>2. Held(v)
    BY <1>2, <2>1 DEF Held, Keep, LaunchInv, TypeOK
  <2>3. Ends(v, run[r], cont[r], ctl[r], sock[r])
    BY <1>0, <2>1, <2>2 DEF Ends, StepFacts
  <2> QED BY <1>a, <1>0, <1>1, <1>2, <2>3, NothingWritten
<1>3. CASE /\ cont[v] = "running" /\ cont' = [cont EXCEPT ![v] = "exited"]
           /\ UNCHANGED <<at, op, mon>> /\ Fine
  <2>1. r = v
    BY <1>0, <1>a, LaunchAssumption DEF LaunchInv, Owned
  <2>2. "exited" \in Containers /\ RowFacts(run[r], "exited", ctl[r], sock[r])
    BY <1>0, <1>3, <2>1 DEF RowFacts, Containers
  <2>3. Held(v)
    BY <1>0, <1>3 DEF Held, LaunchInv, TypeOK
  <2>4. Ends(v, run[r], "exited", ctl[r], sock[r])
    BY <1>0, <1>3, <2>3 DEF Ends, StepFacts, LaunchInv, TypeOK
  <2> QED BY <1>a, <1>0, <1>1, <1>3, <2>1, <2>2, <2>4, ContWritten
<1>4. CASE GiveUp(v) /\ UNCHANGED cont
  BY <1>a, <1>0, <1>1, <1>4, NothingWritten DEF GiveUp, Ends
<1> QED BY <1>2, <1>3, <1>4 DEF Watch

\* finishObservedRunContext keeps the invariant.
LEMMA FinishKeeps ==
    ASSUME LaunchInv, NEW v \in Workers, Finish(v)
    PROVE  LaunchInv'
<1> USE DEF LiveSteps, CleanupSteps, Steps
<1> DEFINE r == at[v].run
<1>0. /\ at[v].pc = "finish" /\ AtWork(v) /\ r \in Runs
      /\ run[r].state \in {"starting", "active"} /\ run[r].nonce
  BY Working DEF Finish, Doing, AtWork, StepFacts
<1>1. UNCHANGED <<run, cont, ctl, sock, up>>
  BY DEF Finish
<1>2. CASE Decide(v, Observed(r, at[v].saw)) /\ Keep /\ Fine
  <2>1. PICK e \in Ended : e = Observed(r, at[v].saw)
    BY Decisions
  <2>2. Ends(v, run[r], cont[r], ctl[r], sock[r])
    BY <1>0, <1>2, <2>1, DecideHeld DEF Ends, StepFacts
  <2> QED BY <1>0, <1>1, <1>2, <2>2, NothingWritten
<1>3. CASE GiveUp(v)
  BY <1>0, <1>1, <1>3, NothingWritten DEF GiveUp, Ends
<1> QED BY <1>2, <1>3 DEF Finish

\* RecordRuntimeRunTerminal keeps the invariant.
LEMMA RecordTerminalKeeps ==
    ASSUME LaunchInv, NEW v \in Workers, RecordTerminal(v)
    PROVE  LaunchInv'
<1> USE DEF LiveSteps, CleanupSteps, Steps
<1> DEFINE r == at[v].run
<1>0. /\ at[v].pc = "terminal" /\ AtWork(v) /\ r \in Runs /\ run[r] \in RunRow
      /\ run[r].state \in {"starting", "active"} /\ at[v].saw \in Ended
      /\ RowFacts(run[r], cont[r], ctl[r], sock[r])
  BY Working, Types DEF RecordTerminal, Doing, AtWork, StepFacts
<1>1. PICK s \in RunRow : s = [run[r] EXCEPT !.state = at[v].saw]
  BY <1>0, TerminalRow
<1>2. /\ s.state \in Ended /\ s.phase = run[r].phase /\ s.cid = run[r].cid
      /\ s.nonce = run[r].nonce /\ s.cleanup = run[r].cleanup
  BY <1>0, <1>1, TerminalRow
<1>3. RowFacts(s, cont[r], ctl[r], sock[r]) /\ OccupiesRow(run[r])
      /\ run[r].state \notin Ended
  BY <1>0, <1>2 DEF RowFacts, OccupiesRow, Ended
<1>4. /\ run' = [run EXCEPT ![r] = s] /\ UNCHANGED <<cont, ctl, sock, up>> /\ Fine
  BY <1>1 DEF RecordTerminal
<1>5. CASE run[r].nonce /\ Goto(v, "stop") /\ Keep
  <2>1. Ends(v, s, cont[r], ctl[r], sock[r])
    BY <1>0, <1>2, <1>5, GotoHeld DEF StepFacts, Ends
  <2> QED BY <1>0, <1>3, <1>4, <2>1, RunWritten
<1>6. CASE Return(v)
  BY <1>0, <1>3, <1>4, <1>6, RunWritten DEF Ends
<1> QED BY <1>5, <1>6 DEF RecordTerminal

\* RecordRunCleanup(pending) keeps the invariant.
LEMMA RetryCleanupKeeps ==
    ASSUME LaunchInv, NEW v \in Workers, RetryCleanup(v)
    PROVE  LaunchInv'
<1> USE DEF LiveSteps, CleanupSteps, Steps
<1> DEFINE r == at[v].run
<1>0. /\ at[v].pc = "retry" /\ AtWork(v) /\ r \in Runs /\ run[r] \in RunRow
      /\ run[r].state \in Ended /\ run[r].nonce
      /\ RowFacts(run[r], cont[r], ctl[r], sock[r])
  BY Working, Types DEF RetryCleanup, Doing, AtWork, StepFacts
<1>1. UNCHANGED <<cont, ctl, sock, up>> /\ Fine
  BY DEF RetryCleanup
<1>2. CASE Return(v) /\ UNCHANGED run
  BY <1>0, <1>1, <1>2, NothingWritten DEF Ends
<1>3. CASE /\ run[r].cleanup # "removed"
           /\ run' = [run EXCEPT ![r].cleanup = "pending"]
           /\ Goto(v, "stop") /\ Keep
  <2>1. PICK s \in RunRow : s = [run[r] EXCEPT !.cleanup = "pending"]
    BY <1>0, CleanupRow
  <2>2. /\ s.cleanup = "pending" /\ s.phase = run[r].phase /\ s.cid = run[r].cid
        /\ s.nonce = run[r].nonce /\ s.state = run[r].state
    BY <1>0, <2>1, CleanupRow
  <2>3. run[r].cleanup \in {"pending", "blocked"}
    BY <1>0, <1>3 DEF RowFacts, RunRow
  <2>4. RowFacts(s, cont[r], ctl[r], sock[r]) /\ OccupiesRow(run[r])
    BY <1>0, <2>2, <2>3 DEF RowFacts, OccupiesRow
  <2>5. run' = [run EXCEPT ![r] = s]
    BY <1>3, <2>1
  <2>6. Ends(v, s, cont[r], ctl[r], sock[r])
    BY <1>0, <1>3, <2>2, GotoHeld DEF StepFacts, Ends
  <2> QED BY <1>0, <1>1, <2>2, <2>4, <2>5, <2>6, RunWritten
<1> QED BY <1>2, <1>3 DEF RetryCleanup

\* stopContainer keeps the invariant.
LEMMA StopContainerKeeps ==
    ASSUME LaunchInv, NEW v \in Workers, StopContainer(v)
    PROVE  LaunchInv'
<1> USE DEF LiveSteps, CleanupSteps, Steps
<1> DEFINE r == at[v].run
<1>0. /\ at[v].pc = "stop" /\ AtWork(v) /\ r \in Runs /\ cont[r] \in Containers
      /\ run[r].state \in Ended /\ run[r].nonce
      /\ RowFacts(run[r], cont[r], ctl[r], sock[r])
  BY Working, Types DEF StopContainer, Doing, AtWork, StepFacts
<1>1. PICK c \in Containers : c = IF cont[r] = "running" THEN "exited" ELSE cont[r]
  BY <1>0 DEF Containers
<1>2. RowFacts(run[r], c, ctl[r], sock[r])
  BY <1>0, <1>1 DEF RowFacts
<1>3. UNCHANGED <<run, ctl, sock, up>> /\ Keep
  BY DEF StopContainer
<1>4. ASSUME NEW pc \in {"remove", "block"}, Goto(v, pc), NEW x
      PROVE  Ends(v, run[r], x, ctl[r], sock[r])
  BY <1>0, <1>3, <1>4, GotoHeld DEF StepFacts, Ends
<1>5. ASSUME NEW pc \in {"remove", "block"}, cont' = [cont EXCEPT ![r] = c], Goto(v, pc),
             Fine \/ Mishap
      PROVE  LaunchInv'
  <2>1. Ends(v, run[r], c, ctl[r], sock[r])
    BY <1>4, <1>5
  <2> QED BY <1>0, <1>2, <1>3, <1>5, <2>1, ContWritten
<1>6. CASE cont' = cont /\ Goto(v, "block") /\ Mishap
  <2>1. Ends(v, run[r], cont[r], ctl[r], sock[r])
    BY <1>0, <1>3, <1>6, GotoHeld DEF StepFacts, Ends
  <2> QED BY <1>0, <1>3, <1>6, <2>1, NothingWritten
<1>7. [cont EXCEPT ![r] = IF @ = "running" THEN "exited" ELSE @] = [cont EXCEPT ![r] = c]
  BY <1>1
<1> QED BY <1>5, <1>6, <1>7 DEF StopContainer

\* removeContainer keeps the invariant.
LEMMA RemoveContainerKeeps ==
    ASSUME LaunchInv, NEW v \in Workers, RemoveContainer(v)
    PROVE  LaunchInv'
<1> USE DEF LiveSteps, CleanupSteps, Steps
<1> DEFINE r == at[v].run
<1>0. /\ at[v].pc = "remove" /\ AtWork(v) /\ r \in Runs
      /\ run[r].state \in Ended /\ run[r].nonce
      /\ RowFacts(run[r], cont[r], ctl[r], sock[r])
  BY Working DEF RemoveContainer, Doing, AtWork, StepFacts
<1>1. "absent" \in Containers /\ RowFacts(run[r], "absent", ctl[r], sock[r])
  BY <1>0 DEF RowFacts, Containers
<1>2. UNCHANGED <<run, ctl, sock, up>> /\ Keep
  BY DEF RemoveContainer
<1>3. CASE cont' = [cont EXCEPT ![r] = "absent"] /\ Goto(v, "close") /\ Fine
  <2>1. Ends(v, run[r], "absent", ctl[r], sock[r])
    BY <1>0, <1>2, <1>3, GotoHeld DEF StepFacts, Ends
  <2> QED BY <1>0, <1>1, <1>2, <1>3, <2>1, ContWritten
<1>4. CASE cont' = [cont EXCEPT ![r] = "absent"] /\ Goto(v, "block") /\ Mishap
  <2>1. Ends(v, run[r], "absent", ctl[r], sock[r])
    BY <1>0, <1>2, <1>4, GotoHeld DEF StepFacts, Ends
  <2> QED BY <1>0, <1>1, <1>2, <1>4, <2>1, ContWritten
<1>5. CASE cont' = cont /\ Goto(v, "block") /\ Mishap
  <2>1. Ends(v, run[r], cont[r], ctl[r], sock[r])
    BY <1>0, <1>2, <1>5, GotoHeld DEF StepFacts, Ends
  <2> QED BY <1>0, <1>2, <1>5, <2>1, NothingWritten
<1> QED BY <1>3, <1>4, <1>5 DEF RemoveContainer

\* closeRunAPISocket keeps the invariant.
LEMMA CloseSocketKeeps ==
    ASSUME LaunchInv, NEW v \in Workers, CloseSocket(v)
    PROVE  LaunchInv'
<1> USE DEF LiveSteps, CleanupSteps, Steps
<1> DEFINE r == at[v].run
<1>0. /\ at[v].pc = "close" /\ AtWork(v) /\ r \in Runs
      /\ run[r].state \in Ended /\ run[r].nonce /\ cont[r] = "absent"
      /\ RowFacts(run[r], cont[r], ctl[r], sock[r])
  BY Working DEF CloseSocket, Doing, AtWork, StepFacts
<1>1. /\ sock' = [sock EXCEPT ![r] = FALSE] /\ UNCHANGED <<run, cont, ctl, up>>
      /\ Goto(v, "rmctl") /\ Keep /\ Fine
  BY DEF CloseSocket, durable
<1>2. RowFacts(run[r], cont[r], ctl[r], FALSE)
  BY <1>0 DEF RowFacts
<1>3. Ends(v, run[r], cont[r], ctl[r], FALSE)
  BY <1>0, <1>1, GotoHeld DEF StepFacts, Ends
<1> QED BY <1>0, <1>1, <1>2, <1>3, SockWritten

\* removeRunControl keeps the invariant.
LEMMA CheckControlKeeps ==
    ASSUME LaunchInv, NEW v \in Workers, CheckControl(v)
    PROVE  LaunchInv'
<1> USE DEF LiveSteps, CleanupSteps, Steps
<1> DEFINE r == at[v].run
<1>0. /\ at[v].pc = "rmctl" /\ AtWork(v) /\ r \in Runs /\ ctl[r] \in Controls
      /\ run[r].state \in Ended /\ run[r].nonce /\ cont[r] = "absent" /\ ~sock[r]
      /\ RowFacts(run[r], cont[r], ctl[r], sock[r])
  BY Working, Types DEF CheckControl, Doing, AtWork, StepFacts
<1>1. UNCHANGED <<run, cont, sock, up>> /\ Keep /\ Fine
  BY DEF CheckControl
<1>2. CASE ctl[r] = "absent"
  <2>1. RemoveControl(ctl[r]) = "removed"
    BY <1>2 DEF RemoveControl
  <2>2. Goto(v, "removed") /\ ctl' = ctl
    BY <2>1 DEF CheckControl
  <2>3. Ends(v, run[r], cont[r], ctl[r], sock[r])
    BY <1>0, <1>1, <1>2, <2>2, GotoHeld DEF StepFacts, Ends
  <2> QED BY <1>0, <1>1, <2>2, <2>3, NothingWritten
<1>3. CASE ctl[r] = "bare"
  <2>1. RemoveControl(ctl[r]) = "block"
    BY <1>3 DEF RemoveControl
  <2>2. Goto(v, "block") /\ ctl' = ctl
    BY <2>1 DEF CheckControl
  <2>3. Ends(v, run[r], cont[r], ctl[r], sock[r])
    BY <1>0, <1>1, <2>2, GotoHeld DEF StepFacts, Ends
  <2> QED BY <1>0, <1>1, <2>2, <2>3, NothingWritten
<1>4. CASE ctl[r] \notin {"absent", "bare"}
  <2>1. RemoveControl(ctl[r]) = "rmdir"
    BY <1>4 DEF RemoveControl
  <2>2. Goto(v, "rmdir") /\ ctl' = [ctl EXCEPT ![r] = "bare"]
    BY <2>1 DEF CheckControl
  <2>3. "bare" \in Controls /\ RowFacts(run[r], cont[r], "bare", sock[r])
    BY <1>0, <1>4 DEF RowFacts, Controls
  <2>4. Ends(v, run[r], cont[r], "bare", sock[r])
    BY <1>0, <1>1, <2>2, GotoHeld DEF StepFacts, Ends
  <2> QED BY <1>0, <1>1, <2>2, <2>3, <2>4, CtlWritten
<1> QED BY <1>2, <1>3, <1>4

\* Removing the control directory keeps the invariant.
LEMMA RemoveDirectoryKeeps ==
    ASSUME LaunchInv, NEW v \in Workers, RemoveDirectory(v)
    PROVE  LaunchInv'
<1> USE DEF LiveSteps, CleanupSteps, Steps
<1> DEFINE r == at[v].run
<1>0. /\ at[v].pc = "rmdir" /\ AtWork(v) /\ r \in Runs
      /\ run[r].state \in Ended /\ run[r].nonce /\ cont[r] = "absent" /\ ~sock[r]
      /\ RowFacts(run[r], cont[r], ctl[r], sock[r])
  BY Working DEF RemoveDirectory, Doing, AtWork, StepFacts
<1>1. UNCHANGED <<run, cont, sock, up>> /\ Keep
  BY DEF RemoveDirectory
<1>2. CASE ctl' = [ctl EXCEPT ![r] = "absent"] /\ Goto(v, "removed") /\ Fine
  <2>1. "absent" \in Controls /\ RowFacts(run[r], cont[r], "absent", sock[r])
    BY <1>0 DEF RowFacts, Controls
  <2>2. Ends(v, run[r], cont[r], "absent", sock[r])
    BY <1>0, <1>1, <1>2, GotoHeld DEF StepFacts, Ends
  <2> QED BY <1>0, <1>1, <1>2, <2>1, <2>2, CtlWritten
<1>3. CASE Goto(v, "block") /\ Mishap /\ UNCHANGED ctl
  <2>1. Ends(v, run[r], cont[r], ctl[r], sock[r])
    BY <1>0, <1>1, <1>3, GotoHeld DEF StepFacts, Ends
  <2> QED BY <1>0, <1>1, <1>3, <2>1, NothingWritten
<1> QED BY <1>2, <1>3 DEF RemoveDirectory

\* Recording the outcome of a cleanup keeps the invariant.
LEMMA RecordCleanupKeeps ==
    ASSUME LaunchInv, NEW v \in Workers, RecordCleanup(v)
    PROVE  LaunchInv'
<1> USE DEF LiveSteps, CleanupSteps, Steps
<1> DEFINE r == at[v].run
<1>0. /\ at[v].pc \in {"removed", "block"} /\ AtWork(v) /\ r \in Runs /\ run[r] \in RunRow
      /\ run[r].state \in Ended /\ run[r].nonce
      /\ at[v].pc = "removed" => cont[r] = "absent" /\ ctl[r] = "absent" /\ ~sock[r]
      /\ RowFacts(run[r], cont[r], ctl[r], sock[r])
  BY Working, Types DEF RecordCleanup, AtWork, StepFacts
<1>1. UNCHANGED <<cont, ctl, sock, up>> /\ Return(v) /\ Fine
  BY DEF RecordCleanup
<1>2. CASE run[r].cleanup = "pending"
  <2>0. PICK c \in {"pending", "blocked", "removed"} :
          c = IF at[v].pc = "removed" THEN "removed" ELSE "blocked"
    BY <1>0
  <2>1. PICK s \in RunRow : s = [run[r] EXCEPT !.cleanup = c]
    BY <1>0, CleanupRow
  <2>2. /\ s.cleanup = c /\ s.phase = run[r].phase /\ s.cid = run[r].cid
        /\ s.nonce = run[r].nonce /\ s.state = run[r].state
    BY <1>0, <2>1 DEF RunRow
  <2>3. RowFacts(s, cont[r], ctl[r], sock[r]) /\ OccupiesRow(run[r])
    BY <1>0, <1>2, <2>0, <2>2 DEF RowFacts, OccupiesRow
  <2>4. run' = [run EXCEPT ![r] = s]
    BY <1>2, <2>0, <2>1 DEF RecordCleanup
  <2> QED BY <1>0, <1>1, <2>2, <2>3, <2>4, RunWritten DEF Ends
<1>3. CASE run[r].cleanup # "pending"
  <2>1. run' = run
    BY <1>0, <1>3 DEF RecordCleanup, LaunchInv, TypeOK, RunRow
  <2> QED BY <1>0, <1>1, <2>1, NothingWritten DEF Ends
<1> QED BY <1>2, <1>3

-----------------------------------------------------------------------------
(* Taking a run.                                                           *)

\* Nobody works on run r.
Unattended(r) == \A w \in Workers : AtWork(w) => at[w].run # r

\* A run without operation and monitor is attended by nobody.
LEMMA FreeUnattended ==
    ASSUME LaunchInv, NEW r \in Runs, Free(r)
    PROVE  Unattended(r)
<1> SUFFICES ASSUME NEW w \in Workers, AtWork(w), at[w].run = r
             PROVE  FALSE
  BY DEF Unattended
<1>1. op[r] = w \/ mon[r] = w
  BY DEF LaunchInv, Owned
<1> QED BY <1>1, Names DEF Free

\* A loop that takes the operation of an unattended run owns it alone.
LEMMA TakesOwned ==
    ASSUME LaunchInv, NEW v \in Loops, NEW r \in Runs, Unattended(r), ~AtWork(v),
           op' = [op EXCEPT ![r] = v], mon' = mon, at' \in [Workers -> Work],
           at'[v].run = r, at'[v].pc # "listed",
           \A w \in Workers \ {v} : at'[w] = at[w]
    PROVE  Owned' /\ SingleOwner' /\ op' \in [Runs -> Workers \cup {None}]
<1>0. v \in Workers
  BY DEF Workers
<1>1. op' \in [Runs -> Workers \cup {None}] /\ op'[r] = v
      /\ \A x \in Runs \ {r} : op'[x] = op[x]
  BY <1>0 DEF LaunchInv, TypeOK
<1>2. SingleOwner'
  BY <1>0 DEF LaunchInv, SingleOwner, AtWork, Unattended
<1>3. Owned'
  <2> SUFFICES ASSUME NEW w \in Workers
               PROVE  /\ AtWork(w)' => \/ op'[at'[w].run] = w /\ w \in Loops
                                       \/ w = at'[w].run /\ mon'[w] = w
                      /\ at'[w].pc = "listed" => w \in Loops
    BY DEF Owned
  <2>1. CASE w = v
    BY <2>1, <1>1
  <2>2. CASE w # v
    <3>1. at'[w] = at[w]
      BY <2>2
    <3>2. ASSUME AtWork(w) PROVE at[w].run \in Runs /\ at[w].run # r
      BY <3>2, Working DEF AtWork, Unattended
    <3> QED BY <3>1, <3>2, <1>1 DEF AtWork, LaunchInv, Owned
  <2> QED BY <2>1, <2>2
<1> QED BY <1>1, <1>2, <1>3

\* Steps that change no row, no container, no directory and no socket keep the
\* rows sound.
LEMMA SameRows ==
    ASSUME LaunchInv, UNCHANGED <<run, cont, ctl, sock>>
    PROVE  RowsSound' /\ OneOccupies' /\ DataTypes'
BY Types DEF LaunchInv, RowsSound, OneOccupies, Occupies, Live, DataTypes

\* ... and every worker whose step they do not change.
LEMMA SameSteps ==
    ASSUME LaunchInv, UNCHANGED <<run, cont, ctl, sock>>, NEW v \in Workers,
           NEW r \in Runs, at'[v].run = r,
           StepFacts(at'[v], run[r], cont[r], ctl[r], sock[r]),
           \A w \in Workers \ {v} : at'[w] = at[w]
    PROVE  StepsSound'
BY DEF LaunchInv, StepsSound

\* Listing an ended run keeps the invariant.
LEMMA ListCleanupKeeps ==
    ASSUME LaunchInv, NEW v \in {"reconciler", "gc"}, NEW r \in Runs, ListCleanup(v, r)
    PROVE  LaunchInv'
<1>0. v \in Workers /\ v \in Loops
  BY DEF Workers, Loops
<1>1. /\ at' = [at EXCEPT ![v] = [pc |-> "listed", run |-> r, saw |-> run[r].cleanup]]
      /\ run[r].state \in Ended /\ run[r].cleanup \in {"pending", "blocked"}
      /\ UNCHANGED <<run, cont, ctl, sock, op, mon, up, trouble>>
  BY DEF ListCleanup, NeedsCleanup, durable, Fine
<1>2. /\ at' \in [Workers -> Work]
      /\ at'[v].pc = "listed" /\ at'[v].run = r
      /\ \A w \in Workers \ {v} : at'[w] = at[w]
  BY <1>0, <1>1 DEF LaunchInv, TypeOK, Work, Steps
<1>3. RowFacts(run[r], cont[r], ctl[r], sock[r])
  BY DEF LaunchInv, RowsSound
<1>4. StepFacts(at'[v], run[r], cont[r], ctl[r], sock[r])
  BY <1>1, <1>2, <1>3 DEF StepFacts, RowFacts, LiveSteps, CleanupSteps
<1>5. Owned' /\ SingleOwner'
  BY <1>0, <1>1, <1>2 DEF LaunchInv, Owned, SingleOwner, AtWork
<1>6. TypeOK'
  BY <1>1, <1>2 DEF LaunchInv, TypeOK
<1> QED BY <1>0, <1>1, <1>2, <1>4, <1>5, <1>6, SameRows, SameSteps DEF LaunchInv

\* Taking a listed run keeps the invariant.
LEMMA TakeCleanupKeeps ==
    ASSUME LaunchInv, NEW v \in Workers, TakeCleanup(v)
    PROVE  LaunchInv'
<1> USE DEF LiveSteps, CleanupSteps, Steps
<1> DEFINE r == at[v].run
<1>0. /\ at[v].pc = "listed" /\ ~AtWork(v) /\ r \in Runs /\ v \in Loops
      /\ run[r].state \in Ended /\ run[r].nonce
  BY Working DEF TakeCleanup, Doing, AtWork, StepFacts, LaunchInv, Owned
<1>1. UNCHANGED <<run, cont, ctl, sock, mon, up, trouble>>
  BY DEF TakeCleanup, durable, Fine
<1>2. ASSUME NEW pc \in {"retry", "stop"}, Free(r), op' = [op EXCEPT ![r] = v], Goto(v, pc)
      PROVE  LaunchInv'
  <2>1. /\ at' \in [Workers -> Work]
        /\ at'[v].pc = pc /\ at'[v].run = r
        /\ \A w \in Workers \ {v} : at'[w] = at[w]
    BY <1>2, GotoEffect
  <2>2. Unattended(r)
    BY <1>0, <1>2, FreeUnattended
  <2>3. Owned' /\ SingleOwner' /\ op' \in [Runs -> Workers \cup {None}]
    BY <1>0, <1>1, <1>2, <2>1, <2>2, TakesOwned
  <2>4. StepFacts(at'[v], run[r], cont[r], ctl[r], sock[r])
    BY <1>0, <2>1 DEF StepFacts
  <2>5. TypeOK'
    BY <1>1, <2>1, <2>3 DEF LaunchInv, TypeOK
  <2> QED BY <1>0, <1>1, <2>1, <2>3, <2>4, <2>5, SameRows, SameSteps DEF LaunchInv
<1>3. CASE at' = [at EXCEPT ![v] = Idle] /\ UNCHANGED op
  <2>1. /\ at' \in [Workers -> Work]
        /\ at'[v].pc = "idle"
        /\ \A w \in Workers \ {v} : at'[w] = at[w]
    BY <1>3 DEF LaunchInv, TypeOK, Work, Idle
  <2>2. Owned' /\ SingleOwner'
    BY <1>1, <1>3, <2>1 DEF LaunchInv, Owned, SingleOwner, AtWork
  <2>3. StepsSound'
    BY <1>1, <2>1 DEF LaunchInv, StepsSound
  <2>4. TypeOK'
    BY <1>1, <1>3, <2>1 DEF LaunchInv, TypeOK
  <2> QED BY <1>1, <2>2, <2>3, <2>4, SameRows DEF LaunchInv
<1> QED BY <1>2, <1>3 DEF TakeCleanup

\* Taking a live run over keeps the invariant.
LEMMA TakeLiveKeeps ==
    ASSUME LaunchInv, NEW r \in Runs, TakeLive(r)
    PROVE  LaunchInv'
<1> USE DEF LiveSteps, CleanupSteps, Steps
<1> DEFINE v == "reconciler"
<1>0. /\ v \in Workers /\ v \in Loops /\ ~AtWork(v)
      /\ run[r].state \in {"starting", "active"} /\ run[r] \in RunRow
  BY Types DEF Workers, Loops, TakeLive, AtWork, Idle, Live
<1>1. UNCHANGED <<run, cont, ctl, sock, mon, up, trouble>> /\ op' = [op EXCEPT ![r] = v]
  BY DEF TakeLive, durable, Fine
<1>2. PICK a \in Work : /\ at' = [at EXCEPT ![v] = a] /\ a.run = r
                        /\ \/ a.pc = "inspect" /\ run[r].nonce
                           \/ a.pc = "terminal" /\ a.saw \in Ended
  <2>1. CASE run[r].nonce
    <3> DEFINE a == [pc |-> "inspect", run |-> r, saw |-> "none"]
    <3>1. a \in Work /\ a.run = r /\ a.pc = "inspect"
      BY DEF Work
    <3>2. at' = [at EXCEPT ![v] = a]
      BY <2>1 DEF TakeLive
    <3> QED BY <2>1, <3>1, <3>2
  <2>2. CASE ~run[r].nonce
    <3> DEFINE a == [pc |-> "terminal", run |-> r, saw |-> "failed"]
    <3>1. a \in Work /\ a.run = r /\ a.pc = "terminal" /\ a.saw \in Ended
      BY DEF Work, Ended
    <3>2. at' = [at EXCEPT ![v] = a]
      BY <2>2 DEF TakeLive
    <3> QED BY <3>1, <3>2
  <2> QED BY <2>1, <2>2
<1>3. /\ at' \in [Workers -> Work] /\ at'[v] = a
      /\ \A w \in Workers \ {v} : at'[w] = at[w]
  BY <1>0, <1>2 DEF LaunchInv, TypeOK
<1>4. Unattended(r)
  BY FreeUnattended DEF TakeLive
<1>5. Owned' /\ SingleOwner' /\ op' \in [Runs -> Workers \cup {None}]
  BY <1>0, <1>1, <1>2, <1>3, <1>4, TakesOwned
<1>6. StepFacts(at'[v], run[r], cont[r], ctl[r], sock[r])
  BY <1>0, <1>2, <1>3 DEF StepFacts
<1>7. TypeOK'
  BY <1>1, <1>3, <1>5 DEF LaunchInv, TypeOK
<1> QED BY <1>0, <1>1, <1>2, <1>3, <1>5, <1>6, <1>7, SameRows, SameSteps DEF LaunchInv

\* claimNext keeps the invariant: it finds no run occupying the agent.
LEMMA ClaimKeeps ==
    ASSUME LaunchInv, NEW r \in Runs, Claim(r)
    PROVE  LaunchInv'
<1> USE DEF LiveSteps, CleanupSteps, Steps
<1> DEFINE v == "scheduler"
<1>0. /\ v \in Workers /\ v \in Loops /\ ~AtWork(v)
      /\ run[r].state = "none" /\ \A x \in Runs : ~Occupies(x)
      /\ RowFacts(run[r], cont[r], ctl[r], sock[r])
  BY DEF Workers, Loops, Claim, AtWork, Idle, LaunchInv, RowsSound
<1>1. /\ UNCHANGED <<cont, ctl, sock, mon, up, trouble>> /\ op' = [op EXCEPT ![r] = v]
      /\ at' = [at EXCEPT ![v] = [pc |-> "prepare", run |-> r, saw |-> "none"]]
  BY DEF Claim, Fine
<1>2. PICK t \in BOOLEAN :
        run' = [run EXCEPT ![r] = [NoRun EXCEPT !.state = "starting", !.tuned = t]]
  BY LaunchAssumption DEF Claim
<1>3. PICK s \in RunRow : /\ run' = [run EXCEPT ![r] = s]
                          /\ s.state = "starting" /\ s.phase = "intent" /\ s.nonce = FALSE
                          /\ s.cid = FALSE /\ s.cleanup = "not_needed"
  <2> DEFINE s == [NoRun EXCEPT !.state = "starting", !.tuned = t]
  <2>1. s \in RunRow
    BY DEF NoRun, RunRow, Phases
  <2>2. /\ s.state = "starting" /\ s.phase = "intent" /\ s.nonce = FALSE
        /\ s.cid = FALSE /\ s.cleanup = "not_needed"
    BY DEF NoRun
  <2> QED BY <1>2, <2>1, <2>2
<1>4. run' \in [Runs -> RunRow] /\ run'[r] = s /\ \A x \in Runs \ {r} : run'[x] = run[x]
  BY <1>3, RunSet
<1>5. /\ at' \in [Workers -> Work] /\ at'[v].pc = "prepare" /\ at'[v].run = r
      /\ \A w \in Workers \ {v} : at'[w] = at[w]
  BY <1>0, <1>1 DEF LaunchInv, TypeOK, Work
<1>6. \A w \in Workers : at[w].pc # "idle" => at[w].run \in Runs /\ at[w].run # r
  <2> SUFFICES ASSUME NEW w \in Workers, at[w].pc # "idle" PROVE at[w].run \in Runs /\ at[w].run # r
    OBVIOUS
  <2>1. at[w].run \in Runs /\ run[at[w].run].state # "none"
    <3>1. at[w] \in Work
      BY DEF LaunchInv, TypeOK
    <3>2. at[w].pc \in LiveSteps \/ at[w].pc \in CleanupSteps \cup {"listed"}
      BY <3>1 DEF Work
    <3> QED BY <3>2, Working DEF StepFacts, Ended
  <2> QED BY <2>1, <1>0
<1>7. Owned' /\ SingleOwner' /\ op' \in [Runs -> Workers \cup {None}]
  BY <1>0, <1>1, <1>5, <1>6, TakesOwned DEF Unattended, AtWork
<1>8. RowsSound'
  <2>1. RowFacts(s, cont[r], ctl[r], sock[r])
    BY <1>0, <1>3 DEF RowFacts
  <2> QED BY <1>1, <1>4, <2>1 DEF RowsSound, LaunchInv
<1>9. StepsSound'
  <2>1. StepFacts(at'[v], s, cont[r], ctl[r], sock[r])
    BY <1>3, <1>5 DEF StepFacts
  <2>2. \A w \in Workers \ {v} : at'[w].pc # "idle" =>
          /\ at'[w].run \in Runs
          /\ StepFacts(at'[w], run'[at'[w].run], cont'[at'[w].run], ctl'[at'[w].run], sock'[at'[w].run])
    BY <1>1, <1>4, <1>5, <1>6, Working
  <2> QED BY <1>1, <1>4, <1>5, <2>1, <2>2 DEF StepsSound
<1>10. OneOccupies'
  BY <1>0, <1>4 DEF OneOccupies, Occupies, Live
<1>11. TypeOK'
  BY <1>1, <1>4, <1>5, <1>7 DEF LaunchInv, TypeOK
<1> QED BY <1>7, <1>8, <1>9, <1>10, <1>11 DEF LaunchInv

-----------------------------------------------------------------------------
(* The operator, the agent, the container and the machine.                 *)

\* A stop, a cancellation or an outcome on record changes nothing the workers
\* rely on.
LEMMA IntentKeeps ==
    ASSUME LaunchInv, NEW r \in Runs, NEW s \in RunRow, run' = [run EXCEPT ![r] = s],
           s.state = run[r].state, s.phase = run[r].phase, s.nonce = run[r].nonce,
           s.cid = run[r].cid, s.cleanup = run[r].cleanup,
           UNCHANGED <<cont, ctl, sock, op, mon, at, up, trouble>>
    PROVE  LaunchInv'
<1>1. run' \in [Runs -> RunRow] /\ run'[r] = s /\ \A x \in Runs \ {r} : run'[x] = run[x]
  BY RunSet
<1>2. \A x \in Runs : /\ run'[x].state = run[x].state /\ run'[x].phase = run[x].phase
                      /\ run'[x].nonce = run[x].nonce /\ run'[x].cid = run[x].cid
                      /\ run'[x].cleanup = run[x].cleanup
  BY <1>1
<1>3. RowsSound'
  BY <1>2 DEF RowsSound, RowFacts, LaunchInv
<1>4. StepsSound'
  BY <1>2 DEF StepsSound, StepFacts, LaunchInv
<1>5. OneOccupies'
  BY <1>2 DEF OneOccupies, Occupies, Live, LaunchInv
<1>6. Owned' /\ SingleOwner' /\ TypeOK'
  BY <1>1 DEF Owned, SingleOwner, AtWork, TypeOK, LaunchInv
<1> QED BY <1>3, <1>4, <1>5, <1>6 DEF LaunchInv

\* A container that exits or is lost changes nothing the workers rely on.
LEMMA ContainerKeeps ==
    ASSUME LaunchInv, NEW r \in Runs, NEW c \in {"exited", "absent"},
           cont' = [cont EXCEPT ![r] = c], c = "exited" => cont[r] = "running",
           UNCHANGED <<run, ctl, sock, op, mon, at, up>>, Fine \/ Mishap
    PROVE  LaunchInv'
<1>1. cont' \in [Runs -> Containers] /\ cont'[r] = c
      /\ \A x \in Runs \ {r} : cont'[x] = cont[x]
  BY ContSet DEF Containers
<1>2. \A x \in Runs : \/ cont'[x] = cont[x]
                      \/ cont'[x] = "absent"
                      \/ cont[x] = "running" /\ cont'[x] = "exited"
  BY <1>1
<1>3. RowsSound'
  BY <1>2 DEF RowsSound, RowFacts, LaunchInv
<1>4. StepsSound'
  <2> SUFFICES ASSUME NEW w \in Workers, at[w].pc # "idle"
               PROVE  /\ at[w].run \in Runs
                      /\ StepFacts(at[w], run[at[w].run], cont'[at[w].run],
                                   ctl[at[w].run], sock[at[w].run])
    BY DEF StepsSound
  <2>1. /\ at[w].run \in Runs
        /\ StepFacts(at[w], run[at[w].run], cont[at[w].run], ctl[at[w].run], sock[at[w].run])
    BY Working
  <2> QED BY <1>2, <2>1 DEF StepFacts
<1>5. OneOccupies' /\ Owned' /\ SingleOwner'
  BY DEF OneOccupies, Occupies, Live, Owned, SingleOwner, AtWork, LaunchInv
<1>6. TypeOK'
  <2>1. trouble' \in 0..MaxTrouble
    BY MishapType DEF Fine, LaunchInv, TypeOK
  <2> QED BY <1>1, <2>1 DEF TypeOK, LaunchInv
<1> QED BY <1>3, <1>4, <1>5, <1>6 DEF LaunchInv

\* What the operator, the agent and the machine do keeps the invariant.
LEMMA EnvironmentKeeps ==
    ASSUME LaunchInv, NEW r \in Runs, Environment(r)
    PROVE  LaunchInv'
<1>0. run[r] \in RunRow
  BY Types
<1>1. CASE RequestStop(r)
  <2>1. PICK s \in RunRow :
          /\ s = [run[r] EXCEPT !.want = "stop"]
          /\ s.state = run[r].state /\ s.phase = run[r].phase /\ s.nonce = run[r].nonce
          /\ s.cid = run[r].cid /\ s.cleanup = run[r].cleanup
    BY <1>0, IntentRow
  <2>2. run' = [run EXCEPT ![r] = s] /\ UNCHANGED <<cont, ctl, sock, op, mon, at, up, trouble>>
    BY <1>1, <2>1 DEF RequestStop, memory
  <2> QED BY <2>1, <2>2, IntentKeeps
<1>2. CASE CancelTask(r)
  <2>1. PICK s \in RunRow :
          /\ s = [run[r] EXCEPT !.cancelled = TRUE]
          /\ s.state = run[r].state /\ s.phase = run[r].phase /\ s.nonce = run[r].nonce
          /\ s.cid = run[r].cid /\ s.cleanup = run[r].cleanup
    BY <1>0, IntentRow
  <2>2. run' = [run EXCEPT ![r] = s] /\ UNCHANGED <<cont, ctl, sock, op, mon, at, up, trouble>>
    BY <1>2, <2>1 DEF CancelTask, memory
  <2> QED BY <2>1, <2>2, IntentKeeps
<1>3. CASE RequestOutcome(r)
  <2>1. PICK s \in RunRow :
          /\ s = [run[r] EXCEPT !.want = "outcome"]
          /\ s.state = run[r].state /\ s.phase = run[r].phase /\ s.nonce = run[r].nonce
          /\ s.cid = run[r].cid /\ s.cleanup = run[r].cleanup
    BY <1>0, IntentRow
  <2>2. run' = [run EXCEPT ![r] = s] /\ UNCHANGED <<cont, ctl, sock, op, mon, at, up, trouble>>
    BY <1>3, <2>1 DEF RequestOutcome, memory
  <2> QED BY <2>1, <2>2, IntentKeeps
<1>4. CASE ContainerExits(r)
  <2>1. /\ cont[r] = "running" /\ cont' = [cont EXCEPT ![r] = "exited"] /\ Fine
        /\ UNCHANGED <<run, ctl, sock, op, mon, at, up>>
    BY <1>4 DEF ContainerExits, memory, Fine
  <2> QED BY <2>1, ContainerKeeps
<1>5. CASE ContainerLost(r)
  <2>1. /\ cont' = [cont EXCEPT ![r] = "absent"] /\ Mishap
        /\ UNCHANGED <<run, ctl, sock, op, mon, at, up>>
    BY <1>5 DEF ContainerLost, memory
  <2> QED BY <2>1, ContainerKeeps
<1> QED BY <1>1, <1>2, <1>3, <1>4, <1>5 DEF Environment

\* A crash forgets the workers, the maps and the sockets; nothing durable
\* relies on them.
LEMMA CrashKeeps ==
    ASSUME LaunchInv, Crash
    PROVE  LaunchInv'
<1>1. /\ sock' = [r \in Runs |-> FALSE] /\ op' = [r \in Runs |-> None]
      /\ mon' = [r \in Runs |-> None] /\ at' = [w \in Workers |-> Idle]
      /\ up' = FALSE /\ Mishap /\ UNCHANGED <<run, cont, ctl>>
  BY DEF Crash, durable
<1>2. Idle \in Work /\ Idle.pc = "idle"
  BY DEF Idle, Work, Steps
<1>3. \A w \in Workers : at'[w].pc = "idle"
  BY <1>1, <1>2
<1>4. TypeOK'
  BY <1>1, <1>2, MishapType DEF TypeOK, LaunchInv
<1>5. RowsSound'
  BY <1>1 DEF RowsSound, RowFacts, LaunchInv
<1>6. StepsSound' /\ Owned' /\ SingleOwner'
  BY <1>3 DEF StepsSound, Owned, SingleOwner, AtWork
<1>7. OneOccupies'
  BY <1>1 DEF OneOccupies, Occupies, Live, LaunchInv
<1> QED BY <1>4, <1>5, <1>6, <1>7 DEF LaunchInv

-----------------------------------------------------------------------------
(* The theorems.                                                           *)

\* The invariant holds in the initial state.
LEMMA InitSound == Init => LaunchInv
<1> SUFFICES ASSUME Init PROVE LaunchInv
  OBVIOUS
<1>1. Idle \in Work /\ Idle.pc = "idle"
  BY DEF Idle, Work, Steps
<1>2. /\ NoRun \in RunRow /\ NoRun.state = "none" /\ NoRun.nonce = FALSE
      /\ NoRun.cleanup = "not_needed" /\ NoRun.cid = FALSE /\ NoRun.phase = "intent"
  BY DEF NoRun, RunRow, Phases
<1>3. TypeOK
  BY <1>1, <1>2, LaunchAssumption DEF Init, TypeOK, Containers, Controls
<1>4. RowsSound
  BY <1>2 DEF Init, RowsSound, RowFacts
<1>5. StepsSound /\ Owned /\ SingleOwner
  BY <1>1 DEF Init, StepsSound, Owned, SingleOwner, AtWork
<1>6. OneOccupies
  BY <1>2 DEF Init, OneOccupies, Occupies, Live
<1> QED BY <1>3, <1>4, <1>5, <1>6 DEF LaunchInv

\* Every step keeps the invariant.
LEMMA NextSound == LaunchInv /\ [Next]_vars => LaunchInv'
<1> SUFFICES ASSUME LaunchInv, [Next]_vars PROVE LaunchInv'
  OBVIOUS
<1>1. ASSUME NEW w \in Workers, WorkerStep(w) PROVE LaunchInv'
  <2>1. CASE LaunchStep(w)
    BY <2>1, LaunchStepKeeps
  <2>2. CASE ReconcileStep(w)
    BY <2>2, ReconcileStepKeeps
  <2>3. CASE EndStep(w)
    BY <2>3, AwaitExitKeeps, FinishKeeps, RecordTerminalKeeps, TakeCleanupKeeps,
       RetryCleanupKeeps, StopContainerKeeps, RemoveContainerKeeps, CloseSocketKeeps,
       CheckControlKeeps, RemoveDirectoryKeeps, RecordCleanupKeeps DEF EndStep
  <2>4. CASE w \in Runs /\ Watch(w)
    BY <2>4, WatchKeeps
  <2> QED BY <1>1, <2>1, <2>2, <2>3, <2>4 DEF WorkerStep
<1>2. ASSUME NEW r \in Runs, Claim(r) \/ TakeLive(r) \/ Environment(r) PROVE LaunchInv'
  BY <1>2, ClaimKeeps, TakeLiveKeeps, EnvironmentKeeps
<1>3. ASSUME NEW w \in {"reconciler", "gc"}, NEW r \in Runs, ListCleanup(w, r) PROVE LaunchInv'
  BY <1>3, ListCleanupKeeps
<1>4. CASE Crash
  BY <1>4, CrashKeeps
<1>5. CASE Restart \/ UNCHANGED vars
  <2>1. UNCHANGED <<run, cont, ctl, sock, op, mon, at, trouble>> /\ up' \in BOOLEAN
    BY <1>5 DEF Restart, vars, durable, memory, LaunchInv, TypeOK
  <2> QED BY <2>1 DEF LaunchInv, TypeOK, RowsSound, StepsSound, Owned, SingleOwner, AtWork,
                      OneOccupies, Occupies, Live
<1> QED BY <1>1, <1>2, <1>3, <1>4, <1>5 DEF Next

\* The inductive invariant holds in every reachable state.
LEMMA LaunchInvariant == Spec => []LaunchInv
BY InitSound, NextSound, PTL DEF Spec

\* TypeOK: rows, containers, directories, maps and workers stay what they are
\* declared to be, over every fault and crash.
THEOREM LaunchTyped == Spec => []TypeOK
<1>1. LaunchInv => TypeOK
  BY DEF LaunchInv
<1> QED BY <1>1, LaunchInvariant, PTL

\* SingleOwner: acquireRunOperation, registerMonitor and their releases keep
\* the scheduler, the reconciler, the garbage collector and the supervisors
\* apart, for any number of runs, faults and crashes.
THEOREM OwnersApart == Spec => []SingleOwner
<1>1. LaunchInv => SingleOwner
  BY DEF LaunchInv
<1> QED BY <1>1, LaunchInvariant, PTL

\* WriteAhead: the row of a run never says less than the truth about its
\* container, and a cleanup on record as removed has left nothing behind.
THEOREM RowsAhead == Spec => []WriteAhead
<1>1. LaunchInv => WriteAhead
  <2> SUFFICES ASSUME LaunchInv, NEW r \in Runs
               PROVE  /\ cont[r] # "absent" =>
                            run[r].nonce /\ run[r].cleanup \in {"pending", "blocked"}
                      /\ cont[r] \in {"running", "exited"} =>
                            run[r].phase \in {"start_issued", "process_observed"}
                      /\ run[r].cleanup = "removed" =>
                            cont[r] = "absent" /\ ctl[r] = "absent" /\ ~sock[r]
    BY DEF WriteAhead
  <2>1. RowFacts(run[r], cont[r], ctl[r], sock[r]) /\ run[r] \in RunRow
    BY Types DEF LaunchInv, RowsSound
  <2> QED BY <2>1 DEF RowFacts, Issued, RunRow
<1> QED BY <1>1, LaunchInvariant, PTL

\* OneContainer: an agent never has two containers.
THEOREM OneContainerKept == Spec => []OneContainer
<1>1. LaunchInv => OneContainer
  <2> SUFFICES ASSUME LaunchInv PROVE OneContainer
    OBVIOUS
  <2>1. \A r \in Runs : cont[r] # "absent" => Occupies(r)
    <3> SUFFICES ASSUME NEW r \in Runs, cont[r] # "absent" PROVE Occupies(r)
      OBVIOUS
    <3>1. RowFacts(run[r], cont[r], ctl[r], sock[r]) /\ run[r] \in RunRow
      BY Types DEF LaunchInv, RowsSound
    <3> QED BY <3>1 DEF RowFacts, RunRow, Occupies
  <2> QED BY <2>1 DEF OneContainer, LaunchInv, OneOccupies
<1> QED BY <1>1, LaunchInvariant, PTL

\* StartedOnce: the container of a run is created and started at most once,
\* by the launcher or by the reconciler that takes over from a crashed one.
THEOREM StartsOnce == Spec => []StartedOnce
<1>1. LaunchInv => StartedOnce
  BY Working DEF StartedOnce, StepFacts
<1> QED BY <1>1, LaunchInvariant, PTL

\* AgentReachable: a live run with a container has all of its control files,
\* and a watched run is active and its agent can reach the daemon.
THEOREM AgentsReachable == Spec => []AgentReachable
<1>1. LaunchInv => AgentReachable
  <2> SUFFICES ASSUME LaunchInv, NEW r \in Runs
               PROVE  /\ Live(r) /\ cont[r] # "absent" => ctl[r] = "ready"
                      /\ at[r].pc = "watch" => run[r].state = "active" /\ sock[r]
    BY DEF AgentReachable
  <2>1. Live(r) /\ cont[r] # "absent" => ctl[r] = "ready"
    BY DEF LaunchInv, RowsSound, RowFacts, Live
  <2>2. ASSUME at[r].pc = "watch" PROVE run[r].state = "active" /\ sock[r]
    <3>1. r \in Workers /\ AtWork(r)
      BY <2>2, Names DEF AtWork
    <3>2. at[r].run = r
      BY <3>1, LaunchAssumption DEF LaunchInv, Owned
    <3> QED BY <2>2, <3>1, <3>2, Working DEF StepFacts
  <2> QED BY <2>1, <2>2
<1> QED BY <1>1, LaunchInvariant, PTL

=============================================================================
