----------------------- MODULE ControlPlaneDataProofs -----------------------
(***************************************************************************)
(* Theorems about what the requests and the starts of ControlPlane work    *)
(* on, for any number of processes and handlers and any workload: project  *)
(* rows and their repositories, the calls that work on them, and the       *)
(* operator's capabilities.                                                *)
(*                                                                         *)
(* The invariant PlaneInv says where each call is (Located), what each job *)
(* and each repair knows of its project (JobFacts, RepairFacts), that the  *)
(* process with the lock has one job for a project (JobsApart), that an    *)
(* operation id belongs to one project (OpsOwned), and what rows and       *)
(* repositories say of each other (RowsSound, PartialsSound).              *)
(***************************************************************************)
EXTENDS ControlPlaneProofs

USE DEF Starting, Listening, StoreOpen, LockHeld, Ended, Phases, Served

----------------------------------------------------------------------------
(* Types.                                                                  *)

Statuses == {"none", "creating", "active", "error", "archived", "deleted"}
Actions == {"", "initialize", "verify"}

\* What a job does before its transaction, and the part that makes files.
JobPcs == {"init", "prepare", "mark", "publish", "build", "promote", "confirm", "verify",
           "finish", "fail"}
MakingPcs == {"init", "prepare", "mark", "publish", "build", "promote", "confirm"}
Pcs == JobPcs \cup {"idle", "gate", "transact", "preflight", "insert", "read", "update"}

Jobs == [project: Projects \cup {None}, op: 0..MaxOps, initial: Nat, action: Actions, fact: Nat]
Finals == [op: 0..MaxOps, initial: Nat, canonical: Nat]
Partials == [project: Projects \cup {None}, initial: Nat, stage: 0..Complete]

\* A project's row; names may be anything.
Row(row) ==
    /\ row = [status |-> row.status, name |-> row.name, action |-> row.action, op |-> row.op,
              initial |-> row.initial, canonical |-> row.canonical, version |-> row.version]
    /\ row.status \in Statuses /\ row.action \in Actions /\ row.op \in 0..MaxOps
    /\ row.initial \in Nat /\ row.canonical \in Nat /\ row.version \in Nat

Frame(c) ==
    /\ c = [pc |-> c.pc, at |-> c.at, q |-> c.q, seen |-> c.seen, job |-> c.job]
    /\ c.pc \in Pcs /\ c.at \in Daemons \cup {None} /\ c.q \in load.requests \cup {None}
    /\ Row(c.seen) /\ c.job \in Jobs

Typed ==
    /\ load \in Workloads
    /\ calls = [w \in Workers |-> calls[w]]
    /\ \A w \in Workers : Frame(calls[w])
    /\ projects = [p \in Projects |-> projects[p]]
    /\ \A p \in Projects : Row(projects[p])
    /\ finals \in [Projects -> Finals]
    /\ partials \in [OpIds -> Partials]
    /\ quarantine \subseteq OpIds
    /\ lastOp \in 0..MaxOps
    /\ source \in Nat

----------------------------------------------------------------------------
(* Where the calls are.                                                    *)

\* The phases of a process in which requests are under way.
Requested == Listening \cup {"draining", "closing", "closed"}

\* A starting process works in its own name and only while it reconciles; a
\* handler has a process that serves, or served and has not exited.
Located ==
    /\ \A d \in Daemons : calls[d] # Idle =>
          calls[d].at = d /\ phase[d] = "reconcile" /\ calls[d].pc \in JobPcs
    /\ \A h \in Handlers : calls[h] # Idle =>
          /\ calls[h].at \in Daemons /\ phase[calls[h].at] \in Requested
          /\ calls[h].q \in load.requests
    /\ \A w \in Workers : /\ calls[w].pc = "idle" => calls[w] = Idle
                          /\ calls[w].pc = "read" => calls[w].q.op = "project.repair"

----------------------------------------------------------------------------
(* Rows, jobs and repositories.                                            *)

\* A project keeps the commit its registration fixed for as long as it has a
\* row.
Fixed(p, initial) ==
    /\ p \in Projects
    /\ projects[p].status # "none"
    /\ projects[p].status = "deleted" \/ projects[p].initial = initial

RowsSound ==
    \A p \in Projects :
        /\ (projects[p].status = "creating") <=> (projects[p].action # "")
        /\ projects[p].action = "initialize" => projects[p].canonical = NoCommit
        /\ Exists(p) => Fixed(p, finals[p].initial) /\ finals[p].canonical >= finals[p].initial

PartialsSound ==
    \A o \in OpIds :
        /\ partials[o] = NoPartial \/ partials[o].stage > 0
        /\ partials[o].stage >= Marked => Fixed(partials[o].project, partials[o].initial)

Job(w) == calls[w].pc \in JobPcs

\* The process of the job has the lock, so nobody else has touched the row.
Current(w) == Job(w) /\ phase[calls[w].at] \in LockHeld

\* What a job knows of its project.
JobFacts(w) ==
    LET j == calls[w].job
    IN /\ Job(w) =>
            /\ Fixed(j.project, j.initial)
            /\ calls[w].pc \in MakingPcs => j.action = "initialize"
            /\ calls[w].pc = "finish" =>
                  \/ j.project \notin Rows \/ j.project \in damaged
                  \/ RepositoryValid(j.project, j.initial)
       /\ Current(w) =>
            /\ projects[j.project].status = "creating"
            /\ projects[j.project].op = j.op
            /\ projects[j.project].action = j.action

\* What a repair has read still says where the repository starts, and a repair
\* that makes one has seen a project that never was active.
RepairFacts(h) ==
    calls[h].pc = "update" =>
        /\ calls[h].q.op = "project.repair"
        /\ Fixed(calls[h].q.project, calls[h].seen.initial)
        /\ calls[h].job.action # ""
        /\ calls[h].job.action = "initialize" => calls[h].seen.canonical = NoCommit

\* Two jobs of the process that has the lock are about different projects.
JobsApart ==
    \A v, w \in Workers :
        v # w /\ Current(v) /\ Current(w) => calls[v].job.project # calls[w].job.project

\* An operation id is given to one project: owner says to which.
OwnedDisk(owner) ==
    /\ \A o \in OpIds : partials[o] # NoPartial => o <= lastOp /\ partials[o].project = owner[o]
    /\ \A p \in Projects : Exists(p) => finals[p].op \in 1..lastOp /\ owner[finals[p].op] = p
    /\ \A o \in quarantine : o <= lastOp

Owned(owner) ==
    /\ OwnedDisk(owner)
    /\ \A p \in Projects : projects[p].action # "" =>
          projects[p].op \in 1..lastOp /\ owner[projects[p].op] = p
    /\ \A w \in Workers : Job(w) =>
          calls[w].job.op \in 1..lastOp /\ owner[calls[w].job.op] = calls[w].job.project

OpsOwned == \E owner \in [OpIds -> Projects \cup {None}] : Owned(owner)

RegistryInv ==
    /\ RowsSound
    /\ PartialsSound
    /\ \A w \in Workers : JobFacts(w)
    /\ \A h \in Handlers : RepairFacts(h)
    /\ JobsApart
    /\ OpsOwned
    /\ RepositoriesMatchRows

PlaneInv == ProcessInv /\ Typed /\ Located /\ RegistryInv

----------------------------------------------------------------------------
(* Calls: one worker moves, or a process does.                             *)

CallsTyped ==
    /\ load \in Workloads
    /\ calls = [w \in Workers |-> calls[w]]
    /\ \A w \in Workers : Frame(calls[w])

StoreTyped ==
    /\ projects = [p \in Projects |-> projects[p]]
    /\ \A p \in Projects : Row(projects[p])
    /\ finals \in [Projects -> Finals]
    /\ partials \in [OpIds -> Partials]
    /\ quarantine \subseteq OpIds
    /\ lastOp \in 0..MaxOps
    /\ source \in Nat

\* The type of a state has a part about calls and one about the store.
LEMMA TypedParts ==
    /\ Typed <=> CallsTyped /\ StoreTyped
    /\ Typed' <=> CallsTyped' /\ StoreTyped'
BY DEF Typed, CallsTyped, StoreTyped

\* The empty values have their types.
LEMMA EmptyTyped ==
    /\ Row(NoProject) /\ NoJob \in Jobs /\ NoFinal \in Finals /\ NoPartial \in Partials
    /\ Frame(Idle)
    /\ Idle.pc = "idle" /\ Idle.at = None /\ Idle.q = None /\ Idle.seen = NoProject /\ Idle.job = NoJob
<1>1. 0 \in 0..MaxOps
  BY RegistryAssumption
<1>2. Row(NoProject)
  BY <1>1 DEF Row, NoProject, Statuses, Actions, NoOp, NoCommit
<1>3. NoJob \in Jobs /\ NoFinal \in Finals /\ NoPartial \in Partials
  BY <1>1 DEF NoJob, Jobs, NoFinal, Finals, NoPartial, Partials, Actions, NoOp, NoCommit, Complete
<1>4. Frame(Idle)
  BY <1>2, <1>3 DEF Frame, Idle, Pcs
<1>5. QED
  BY <1>2, <1>3, <1>4 DEF Idle

\* A call with the fields of calls[w] but for its program counter.
At(w, pc) == [pc |-> pc, at |-> calls[w].at, q |-> calls[w].q, seen |-> calls[w].seen,
              job |-> calls[w].job]

\* Moving the program counter gives a call of that form.
LEMMA AtTyped ==
    ASSUME CallsTyped, NEW w \in Workers, NEW pc \in Pcs
    PROVE  Frame(At(w, pc)) /\ [calls[w] EXCEPT !.pc = pc] = At(w, pc)
<1>1. Frame(calls[w])
  BY DEF CallsTyped
<1>2. [calls[w] EXCEPT !.pc = pc] = At(w, pc)
  BY <1>1 DEF Frame, At
<1>3. Frame(At(w, pc))
  BY <1>1 DEF Frame, At
<1>4. QED
  BY <1>2, <1>3

\* Goto moves the program counter and nothing else.
LEMMA GotoIs ==
    ASSUME CallsTyped, NEW w \in Workers, NEW pc \in Pcs, Goto(w, pc)
    PROVE  calls' = [calls EXCEPT ![w] = At(w, pc)]
<1>1. calls' = [calls EXCEPT ![w] = [calls[w] EXCEPT !.pc = pc]]
  BY DEF Goto
<1>2. QED
  BY <1>1, AtTyped

\* Updates of several fields of a call, and what they make of it.
WithJob(r, m, j) == [r EXCEPT !.pc = m, !.job = j]
WithRequest(r, m, a, q) == [r EXCEPT !.pc = m, !.at = a, !.q = q]
WithOwner(r, m, a, j) == [r EXCEPT !.pc = m, !.at = a, !.job = j]
WithSeen(r, m, s, j) == [r EXCEPT !.pc = m, !.seen = s, !.job = j]

\* Each update, field by field.
LEMMA Updated ==
    ASSUME NEW r, r = [pc |-> r.pc, at |-> r.at, q |-> r.q, seen |-> r.seen, job |-> r.job],
           NEW m, NEW a, NEW q, NEW s, NEW j
    PROVE  /\ WithJob(r, m, j) =
                 [pc |-> m, at |-> r.at, q |-> r.q, seen |-> r.seen, job |-> j]
           /\ WithRequest(r, m, a, q) =
                 [pc |-> m, at |-> a, q |-> q, seen |-> r.seen, job |-> r.job]
           /\ WithOwner(r, m, a, j) =
                 [pc |-> m, at |-> a, q |-> r.q, seen |-> r.seen, job |-> j]
           /\ WithSeen(r, m, s, j) =
                 [pc |-> m, at |-> r.at, q |-> r.q, seen |-> s, job |-> j]
<1>1. PICK r1 : r1 = [r EXCEPT !.pc = m]
  OBVIOUS
<1>2. r1 = [pc |-> m, at |-> r.at, q |-> r.q, seen |-> r.seen, job |-> r.job]
  BY <1>1
<1>3. PICK r2 : r2 = [r1 EXCEPT !.at = a]
  OBVIOUS
<1>4. r2 = [pc |-> m, at |-> a, q |-> r.q, seen |-> r.seen, job |-> r.job]
  BY <1>2, <1>3
<1>5. PICK r3 : r3 = [r1 EXCEPT !.seen = s]
  OBVIOUS
<1>6. r3 = [pc |-> m, at |-> r.at, q |-> r.q, seen |-> s, job |-> r.job]
  BY <1>2, <1>5
<1>7. WithJob(r, m, j) =
         [pc |-> m, at |-> r.at, q |-> r.q, seen |-> r.seen, job |-> j]
  <2>1. [r1 EXCEPT !.job = j] = [pc |-> m, at |-> r.at, q |-> r.q, seen |-> r.seen, job |-> j]
    BY <1>2
  <2>2. QED
    BY <1>1, <2>1 DEF WithJob
<1>8. WithRequest(r, m, a, q) =
         [pc |-> m, at |-> a, q |-> q, seen |-> r.seen, job |-> r.job]
  <2>1. [r2 EXCEPT !.q = q] = [pc |-> m, at |-> a, q |-> q, seen |-> r.seen, job |-> r.job]
    BY <1>4
  <2>2. QED
    BY <1>1, <1>3, <2>1 DEF WithRequest
<1>9. WithOwner(r, m, a, j) =
         [pc |-> m, at |-> a, q |-> r.q, seen |-> r.seen, job |-> j]
  <2>1. [r2 EXCEPT !.job = j] = [pc |-> m, at |-> a, q |-> r.q, seen |-> r.seen, job |-> j]
    BY <1>4
  <2>2. QED
    BY <1>1, <1>3, <2>1 DEF WithOwner
<1>10. WithSeen(r, m, s, j) =
         [pc |-> m, at |-> r.at, q |-> r.q, seen |-> s, job |-> j]
  <2>1. [r3 EXCEPT !.job = j] = [pc |-> m, at |-> r.at, q |-> r.q, seen |-> s, job |-> j]
    BY <1>6
  <2>2. QED
    BY <1>1, <1>5, <2>1 DEF WithSeen
<1>11. QED
  BY <1>7, <1>8, <1>9, <1>10

\* What worker w may make of its call while the processes stay where they are.
Proceeds(w, c) ==
    /\ Frame(c)
    /\ \/ c = Idle
       \/ /\ calls[w] # Idle /\ c.at = calls[w].at /\ c.q = calls[w].q /\ c.pc # "idle"
          /\ w \in Daemons => c.pc \in JobPcs
          /\ c.pc = "read" => c.q.op = "project.repair"

\* A worker's call changes as it may, all others stay where they are.
LEMMA WorkerMoves ==
    ASSUME CallsTyped, Located, phase' = phase, load' = load,
           NEW w \in Workers, NEW c, Proceeds(w, c), calls' = [calls EXCEPT ![w] = c]
    PROVE  /\ CallsTyped' /\ Located'
           /\ calls'[w] = c
           /\ \A v \in Workers \ {w} : calls'[v] = calls[v]
<1>1. \A v \in Workers : calls'[v] = IF v = w THEN c ELSE calls[v]
  BY DEF CallsTyped
<1>2. CallsTyped'
  <2>1. calls' = [v \in Workers |-> calls'[v]]
    BY DEF CallsTyped
  <2>2. ASSUME NEW v \in Workers PROVE Frame(calls[v])'
    BY <1>1 DEF CallsTyped, Frame, Proceeds
  <2>3. QED
    BY <2>1, <2>2 DEF CallsTyped
<1>3. Located'
  <2>1. \A d \in Daemons : d \in Workers /\ \A h \in Handlers : h \in Workers /\ h \notin Daemons
    BY ControlPlaneAssumption DEF Workers
  <2>2. ASSUME NEW d \in Daemons, calls'[d] # Idle
        PROVE  calls'[d].at = d /\ phase'[d] = "reconcile" /\ calls'[d].pc \in JobPcs
    BY <1>1, <2>1, <2>2 DEF Located, Proceeds
  <2>3. ASSUME NEW h \in Handlers, calls'[h] # Idle
        PROVE  /\ calls'[h].at \in Daemons /\ phase'[calls'[h].at] \in Requested
               /\ calls'[h].q \in load'.requests
    <3>1. h \in Workers
      BY DEF Workers
    <3>2. QED
      BY <1>1, <2>3, <3>1 DEF Located, Proceeds
  <2>4. ASSUME NEW v \in Workers
        PROVE  /\ calls'[v].pc = "idle" => calls'[v] = Idle
               /\ calls'[v].pc = "read" => calls'[v].q.op = "project.repair"
    BY <1>1, EmptyTyped DEF Located, Proceeds
  <2>5. QED
    BY <2>2, <2>3, <2>4 DEF Located
<1>4. QED
  BY <1>1, <1>2, <1>3

\* Nothing moves here.
LEMMA CallsStay ==
    ASSUME CallsTyped, Located, phase' = phase, load' = load, calls' = calls
    PROVE  CallsTyped' /\ Located'
BY DEF CallsTyped, Located, Frame

\* A process moves to another phase and its calls, if it had any, end or may
\* go on there.
LEMMA ProcessMovesCalls ==
    ASSUME CallsTyped, Located, phase \in [Daemons -> Phases], load' = load,
           NEW d \in Daemons, NEW new, phase' = [phase EXCEPT ![d] = new],
           \/ calls' = CallsWithout(d)
           \/ /\ calls' = calls
              /\ phase[d] \in Requested => new \in Requested
              /\ phase[d] = "reconcile" => calls[d] = Idle
    PROVE  /\ CallsTyped' /\ Located'
           /\ \A w \in Workers : \/ calls'[w] = Idle
                                 \/ calls'[w] = calls[w] /\ calls[w].at # d
                                 \/ calls'[w] = calls[w] /\ phase[d] \in Requested
<1>1. \A e \in Daemons : phase'[e] = IF e = d THEN new ELSE phase[e]
  OBVIOUS
<1>2. \A w \in Workers : calls'[w] = calls[w] \/ calls'[w] = Idle
  BY DEF CallsWithout
<1>3. CallsTyped'
  <2>1. calls' = [v \in Workers |-> calls'[v]]
    BY DEF CallsTyped, CallsWithout
  <2>2. ASSUME NEW v \in Workers PROVE Frame(calls[v])'
    <3>1. CASE calls'[v] = calls[v]
      BY <3>1 DEF CallsTyped, Frame
    <3>2. CASE calls'[v] = Idle
      BY <3>2, EmptyTyped DEF Frame
    <3>3. QED
      BY <1>2, <3>1, <3>2
  <2>3. QED
    BY <2>1, <2>2 DEF CallsTyped
<1>4. Daemons \subseteq Workers /\ Handlers \subseteq Workers /\ None \notin Daemons
  BY ControlPlaneAssumption DEF Workers
<1>5. ASSUME NEW w \in Workers, calls'[w] # Idle
      PROVE  calls'[w] = calls[w] /\ (calls[w].at # d \/ (calls' = calls /\ phase[d] \in Requested))
  <2>1. calls'[w] = calls[w]
    BY <1>2, <1>5
  <2>2. CASE calls' = CallsWithout(d)
    BY <1>5, <2>1, <2>2, EmptyTyped DEF CallsWithout
  <2>3. CASE calls' = calls /\ (phase[d] = "reconcile" => calls[d] = Idle)
    BY <1>4, <1>5, <2>1, <2>3 DEF Located, Workers
  <2>4. QED
    BY <2>1, <2>2, <2>3
<1>6. Located'
  <2>1. ASSUME NEW e \in Daemons, calls'[e] # Idle
        PROVE  calls'[e].at = e /\ phase'[e] = "reconcile" /\ calls'[e].pc \in JobPcs
    <3>1. calls'[e] = calls[e] /\ (e # d \/ phase[d] \in Requested)
      BY <1>4, <1>5, <2>1 DEF Located
    <3>2. calls[e].at = e /\ phase[e] = "reconcile" /\ calls[e].pc \in JobPcs
      BY <2>1, <3>1 DEF Located
    <3>3. QED
      BY <1>1, <3>1, <3>2 DEF Requested
  <2>2. ASSUME NEW h \in Handlers, calls'[h] # Idle
        PROVE  /\ calls'[h].at \in Daemons /\ phase'[calls'[h].at] \in Requested
               /\ calls'[h].q \in load'.requests
    <3>1. calls'[h] = calls[h] /\ (calls[h].at # d \/ (calls' = calls /\ phase[d] \in Requested))
      BY <1>4, <1>5, <2>2
    <3>2. calls[h].at \in Daemons /\ phase[calls[h].at] \in Requested /\ calls[h].q \in load.requests
      BY <2>2, <3>1 DEF Located
    <3>3. calls' = calls /\ calls[h].at = d => new \in Requested
      <4>1. SUFFICES ASSUME calls' = calls, calls[h].at = d PROVE new \in Requested
        OBVIOUS
      <4>2. CASE calls' = CallsWithout(d)
        <5>1. calls'[h] = Idle
          BY <1>4, <4>1, <4>2 DEF CallsWithout
        <5>2. QED
          BY <2>2, <5>1
      <4>3. QED
        BY <3>2, <4>1, <4>2
    <3>4. QED
      BY <1>1, <3>1, <3>2, <3>3
  <2>3. ASSUME NEW v \in Workers
        PROVE  /\ calls'[v].pc = "idle" => calls'[v] = Idle
               /\ calls'[v].pc = "read" => calls'[v].q.op = "project.repair"
    BY <1>2, EmptyTyped DEF Located
  <2>4. QED
    BY <2>1, <2>2, <2>3 DEF Located
<1>7. QED
  BY <1>3, <1>5, <1>6

----------------------------------------------------------------------------
(* Rows and repositories stay.                                             *)

\* All that the invariant says of rows and repositories by themselves.
DiskSound == RowsSound /\ PartialsSound /\ RepositoriesMatchRows

\* What is said of rows and repositories alone stays while they do.
LEMMA DiskStays ==
    ASSUME UNCHANGED registryVars
    PROVE  /\ DiskSound => DiskSound'
           /\ StoreTyped => StoreTyped'
           /\ Rows' = Rows
           /\ \A p, i : Fixed(p, i) => Fixed(p, i)'
           /\ \A p, i : RepositoryValid(p, i)' <=> RepositoryValid(p, i)
BY DEF registryVars, DiskSound, StoreTyped, Rows, Fixed, RepositoryValid, RowsSound, PartialsSound,
       RepositoriesMatchRows, ActiveBacked, PinnedInitial, QuarantinedUnwanted, Exists,
       RowsIn, InitializedValid

\* No job begins, and no process gets the lock with jobs under way; a repair
\* that begins knows what it has read.
LEMMA StandingBy ==
    ASSUME RegistryInv, UNCHANGED registryVars,
           \A w \in Workers : \/ calls'[w] = calls[w]
                              \/ calls'[w].pc \notin JobPcs /\ RepairFacts(w)',
           \A w \in Workers : Current(w)' => Current(w)
    PROVE  RegistryInv'
<1>1. DiskSound'
  BY DiskStays DEF RegistryInv, DiskSound
<1>2. ASSUME NEW w \in Workers PROVE JobFacts(w)'
  <2>1. CASE calls'[w] = calls[w]
    <3>1. Job(w)' => Job(w)
      BY <2>1 DEF Job
    <3>2. JobFacts(w)
      BY DEF RegistryInv
    <3>3. QED
      BY <2>1, <3>1, <3>2, DiskStays DEF JobFacts, registryVars
  <2>2. CASE calls'[w].pc \notin JobPcs
    BY <2>2 DEF JobFacts, Job, Current
  <2>3. QED
    BY <2>1, <2>2
<1>3. ASSUME NEW h \in Handlers PROVE RepairFacts(h)'
  BY DiskStays DEF RegistryInv, RepairFacts, Workers
<1>4. JobsApart'
  <2>1. \A w \in Workers : Current(w)' => calls'[w] = calls[w]
    BY DEF Current, Job
  <2>2. QED
    BY <2>1 DEF RegistryInv, JobsApart
<1>5. OpsOwned'
  <2>1. PICK owner \in [OpIds -> Projects \cup {None}] : Owned(owner)
    BY DEF RegistryInv, OpsOwned
  <2>2. Owned(owner)'
    <3>1. \A w \in Workers : Job(w)' => Job(w) /\ calls'[w] = calls[w]
      BY DEF Job
    <3>2. QED
      BY <2>1, <3>1 DEF Owned, OwnedDisk, registryVars, Exists
  <2>3. QED
    BY <2>2 DEF OpsOwned
<1>6. QED
  BY <1>1, <1>2, <1>3, <1>4, <1>5 DEF RegistryInv, DiskSound

\* The same when no repair begins.
LEMMA Bystanding ==
    ASSUME RegistryInv, UNCHANGED registryVars,
           \A w \in Workers : \/ calls'[w] = calls[w]
                              \/ calls'[w].pc \notin JobPcs \cup {"update"},
           \A w \in Workers : Current(w)' => Current(w)
    PROVE  RegistryInv'
<1>1. \A w \in Workers : calls'[w].pc # "update" => RepairFacts(w)'
  BY DEF RepairFacts
<1>2. QED
  BY <1>1, StandingBy

PlaneKept == Typed' /\ Located' /\ RegistryInv'

\* A worker's call ends, or is about something else than a job or a repair.
LEMMA CallMoves ==
    ASSUME PlaneInv, UNCHANGED registryVars, phase' = phase, load' = load,
           NEW w \in Workers, NEW c, Proceeds(w, c), c.pc \notin JobPcs \cup {"update"},
           calls' = [calls EXCEPT ![w] = c]
    PROVE  PlaneKept
<1>1. CallsTyped /\ StoreTyped /\ Located /\ RegistryInv
  BY TypedParts DEF PlaneInv
<1>2. /\ CallsTyped' /\ Located' /\ calls'[w] = c
      /\ \A v \in Workers \ {w} : calls'[v] = calls[v]
  BY <1>1, WorkerMoves
<1>3. \A v \in Workers : Current(v)' => Current(v)
  BY <1>2 DEF Current, Job
<1>4. RegistryInv'
  BY <1>1, <1>2, <1>3, Bystanding
<1>5. Typed'
  BY <1>1, <1>2, DiskStays, TypedParts
<1>6. QED
  BY <1>2, <1>4, <1>5 DEF PlaneKept

\* A call returns.
LEMMA ReturnKeeps ==
    ASSUME PlaneInv, UNCHANGED registryVars, phase' = phase, load' = load,
           NEW w \in Workers, Return(w)
    PROVE  PlaneKept
<1>1. PICK c : c = Idle
  OBVIOUS
<1>2. Proceeds(w, c) /\ c.pc \notin JobPcs \cup {"update"} /\ calls' = [calls EXCEPT ![w] = c]
  BY <1>1, EmptyTyped DEF Proceeds, Return, JobPcs
<1>3. QED
  BY <1>2, CallMoves

\* A process moves and leaves rows and repositories alone.
LEMMA PlaneMoves ==
    ASSUME PlaneInv, UNCHANGED registryVars, load' = load,
           NEW d \in Daemons, NEW new, phase' = [phase EXCEPT ![d] = new],
           \/ calls' = CallsWithout(d)
           \/ /\ calls' = calls
              /\ phase[d] \in Requested => new \in Requested
              /\ phase[d] = "reconcile" => calls[d] = Idle,
           new \in LockHeld /\ phase[d] \in Requested => phase[d] \in LockHeld
    PROVE  PlaneKept
<1>1. CallsTyped /\ StoreTyped /\ Located /\ RegistryInv /\ phase \in [Daemons -> Phases]
  BY TypedParts DEF PlaneInv, ProcessInv
<1>2. /\ CallsTyped' /\ Located'
      /\ \A w \in Workers : \/ calls'[w] = Idle
                            \/ calls'[w] = calls[w] /\ calls[w].at # d
                            \/ calls'[w] = calls[w] /\ phase[d] \in Requested
  BY <1>1, ProcessMovesCalls
<1>3. \A e \in Daemons : phase'[e] = IF e = d THEN new ELSE phase[e]
  BY <1>1
<1>4. Idle.pc \notin JobPcs \cup {"update"}
  BY EmptyTyped DEF JobPcs
<1>5. ASSUME NEW w \in Workers, Current(w)' PROVE Current(w)
  <2>1. calls'[w] # Idle
    BY <1>4, <1>5 DEF Current, Job
  <2>2. calls'[w] = calls[w] /\ (calls[w].at = d => phase[d] \in Requested)
    BY <1>2, <2>1
  <2>3. calls[w].at \in Daemons
    BY <1>1, <2>1, <2>2 DEF Located, Workers
  <2>4. QED
    BY <1>3, <1>5, <2>2, <2>3 DEF Current, Job
<1>6. RegistryInv'
  BY <1>1, <1>2, <1>4, <1>5, Bystanding
<1>7. Typed'
  BY <1>1, <1>2, DiskStays, TypedParts
<1>8. QED
  BY <1>2, <1>6, <1>7 DEF PlaneKept

\* Steps of a process that leave rows and repositories alone.
LEMMA StartPlane ==
    ASSUME PlaneInv, NEW d \in Daemons,
           \/ Start(d) \/ AcquireDataDirLock(d) \/ applyTaskBudgetMigration(d)
           \/ applyProjectDeleteCapabilityMigration(d) \/ MigrationRecorded(d) \/ StoreOpened(d)
           \/ Scanned(d) \/ ReconciledCreating(d) \/ Reconciled(d) \/ StartFails(d)
    PROVE  PlaneKept
<1> USE DEF Become, dataVars, Requested
<1>1. CASE StartFails(d)
  BY <1>1, PlaneMoves DEF StartFails
<1>2. CASE ReconciledCreating(d)
  BY <1>2, PlaneMoves DEF ReconciledCreating
<1>3. ASSUME \/ Start(d) \/ AcquireDataDirLock(d) \/ applyTaskBudgetMigration(d)
             \/ applyProjectDeleteCapabilityMigration(d) \/ MigrationRecorded(d) \/ StoreOpened(d)
             \/ Scanned(d) \/ Reconciled(d)
      PROVE  PlaneKept
  <2>1. /\ UNCHANGED registryVars /\ load' = load /\ calls' = calls
        /\ phase[d] \notin Requested \cup {"reconcile"}
        /\ \E new : phase' = [phase EXCEPT ![d] = new]
    <3>1. CASE Start(d)
      BY <3>1 DEF Start
    <3>2. CASE AcquireDataDirLock(d)
      BY <3>2 DEF AcquireDataDirLock
    <3>3. CASE applyTaskBudgetMigration(d) \/ applyProjectDeleteCapabilityMigration(d)
      BY <3>3 DEF applyTaskBudgetMigration, applyProjectDeleteCapabilityMigration
    <3>4. CASE MigrationRecorded(d)
      BY <3>4 DEF MigrationRecorded
    <3>5. CASE StoreOpened(d)
      BY <3>5 DEF StoreOpened
    <3>6. CASE Scanned(d)
      BY <3>6 DEF Scanned
    <3>7. CASE Reconciled(d)
      BY <3>7 DEF Reconciled
    <3>8. QED
      BY <1>3, <3>1, <3>2, <3>3, <3>4, <3>5, <3>6, <3>7
  <2>2. PICK new : phase' = [phase EXCEPT ![d] = new]
    BY <2>1
  <2>3. QED
    BY <2>1, <2>2, PlaneMoves
<1>4. QED
  BY <1>1, <1>2, <1>3

\* The same of a process that serves and stops.
LEMMA StopPlane ==
    ASSUME PlaneInv, NEW d \in Daemons,
           \/ removeStaleSocket(d) \/ ListenUnix(d) \/ Degraded(d) \/ Healthy(d) \/ Stop(d)
           \/ CloseListener(d) \/ CloseStore(d) \/ ReleaseLock(d) \/ Exit(d) \/ Crash(d)
    PROVE  PlaneKept
<1> USE DEF Become, dataVars, Requested
<1>1. CASE removeStaleSocket(d)
  <2>1. phase[d] = "listen" /\ UNCHANGED registryVars /\ load' = load /\ calls' = calls
    BY <1>1 DEF removeStaleSocket
  <2>2. phase \in [Daemons -> Phases]
    BY DEF PlaneInv, ProcessInv
  <2>3. PICK new : phase' = [phase EXCEPT ![d] = new]
    <3>1. phase = [phase EXCEPT ![d] = "listen"]
      BY <2>1, <2>2
    <3>2. QED
      BY <1>1, <3>1 DEF removeStaleSocket
  <2>4. QED
    BY <2>1, <2>3, PlaneMoves
<1>2. CASE ListenUnix(d)
  <2>1. phase[d] = "listen" /\ UNCHANGED registryVars /\ load' = load /\ calls' = calls
    BY <1>2 DEF ListenUnix
  <2>2. PICK new : phase' = [phase EXCEPT ![d] = new]
    BY <1>2 DEF ListenUnix
  <2>3. QED
    BY <2>1, <2>2, PlaneMoves
<1>3. CASE Degraded(d)
  BY <1>3, PlaneMoves DEF Degraded
<1>4. CASE Healthy(d)
  BY <1>4, PlaneMoves DEF Healthy
<1>5. CASE Stop(d)
  BY <1>5, PlaneMoves DEF Stop
<1>6. CASE CloseListener(d)
  BY <1>6, PlaneMoves DEF CloseListener
<1>7. CASE CloseStore(d)
  BY <1>7, PlaneMoves DEF CloseStore
<1>8. CASE ReleaseLock(d)
  BY <1>8, PlaneMoves DEF ReleaseLock
<1>9. CASE Exit(d)
  BY <1>9, PlaneMoves DEF Exit
<1>10. CASE Crash(d)
  BY <1>10, PlaneMoves DEF Crash
<1>11. QED
  BY <1>1, <1>2, <1>3, <1>4, <1>5, <1>6, <1>7, <1>8, <1>9, <1>10

\* Steps that change neither calls nor phases nor the registry.
LEMMA NothingMoves ==
    ASSUME PlaneInv, UNCHANGED registryVars, phase' = phase, load' = load, calls' = calls
    PROVE  PlaneKept
<1>1. CallsTyped /\ StoreTyped /\ Located /\ RegistryInv
  BY TypedParts DEF PlaneInv
<1>2. RegistryInv'
  BY <1>1, Bystanding DEF Current, Job
<1>3. QED
  BY <1>1, <1>2, CallsStay, DiskStays, TypedParts DEF PlaneKept

\* A request is admitted, passes its gate or not, or resolves the source.
LEMMA RequestPlane ==
    ASSUME PlaneInv, NEW h \in Handlers,
           Gate(h) \/ Preflight(h) \/ Abort(h) \/ TransactAuthority(h)
    PROVE  PlaneKept
<1>1. h \in Workers /\ h \notin Daemons /\ CallsTyped /\ Frame(calls[h]) /\ source \in Nat
  BY ControlPlaneAssumption DEF Workers, PlaneInv, Typed, CallsTyped
<1>2. CASE Abort(h) \/ TransactAuthority(h)
  BY <1>1, <1>2, ReturnKeeps DEF Abort, TransactAuthority, dataVars, requestFrame
<1>3. CASE Gate(h)
  <2>1. UNCHANGED registryVars /\ phase' = phase /\ load' = load /\ Running(h)
    BY <1>3 DEF Gate, requestFrame, CanTransact
  <2>2. CASE Return(h)
    BY <1>1, <2>1, <2>2, ReturnKeeps
  <2>3. CASE Goto(h, FirstStep(calls[h].q))
    <3>1. PICK pc \in {"preflight", "read", "transact"} : pc = FirstStep(calls[h].q)
      BY DEF FirstStep
    <3>2. PICK c : c = At(h, pc)
      OBVIOUS
    <3>3. Frame(c) /\ calls' = [calls EXCEPT ![h] = c]
      BY <1>1, <2>3, <3>1, <3>2, GotoIs, AtTyped DEF Pcs
    <3>4. c.pc = pc /\ c.at = calls[h].at /\ c.q = calls[h].q
      BY <3>2 DEF At
    <3>5. Proceeds(h, c) /\ c.pc \notin JobPcs \cup {"update"}
      <4>1. c.pc = "read" => c.q.op = "project.repair"
        BY <3>1, <3>4 DEF FirstStep
      <4>2. QED
        BY <1>1, <2>1, <3>1, <3>3, <3>4, <4>1 DEF Proceeds, Running, JobPcs
    <3>6. QED
      BY <1>1, <2>1, <3>3, <3>5, CallMoves
  <2>4. QED
    BY <1>3, <2>2, <2>3 DEF Gate
<1>4. CASE Preflight(h)
  <2>1. UNCHANGED registryVars /\ phase' = phase /\ load' = load /\ Running(h)
    BY <1>4 DEF Preflight, requestFrame, CanRunGit, CanTransact
  <2>2. CASE Return(h)
    BY <1>1, <2>1, <2>2, ReturnKeeps
  <2>3. CASE calls' = [calls EXCEPT ![h].pc = "insert", ![h].job.initial = source]
    <3>1. PICK c : c = [pc |-> "insert", at |-> calls[h].at, q |-> calls[h].q, seen |-> calls[h].seen,
                        job |-> [calls[h].job EXCEPT !.initial = source]]
      OBVIOUS
    <3>2. calls' = [calls EXCEPT ![h] = c]
      <4>1. PICK j : j = [calls[h].job EXCEPT !.initial = source]
        OBVIOUS
      <4>2. calls' = [calls EXCEPT ![h] = WithJob(calls[h], "insert", j)]
        BY <1>1, <2>3, <4>1 DEF CallsTyped, WithJob
      <4>3. WithJob(calls[h], "insert", j) = c
        BY <1>1, <3>1, <4>1, Updated DEF Frame
      <4>4. QED
        BY <4>2, <4>3
    <3>3. [calls[h].job EXCEPT !.initial = source] \in Jobs
      BY <1>1 DEF Frame, Jobs
    <3>4. Frame(c) /\ c.pc = "insert" /\ c.at = calls[h].at /\ c.q = calls[h].q
      BY <1>1, <3>1, <3>3 DEF Frame, Pcs
    <3>5. Proceeds(h, c) /\ c.pc \notin JobPcs \cup {"update"}
      BY <1>1, <2>1, <3>4 DEF Proceeds, Running, JobPcs
    <3>6. QED
      BY <1>1, <2>1, <3>2, <3>5, CallMoves
  <2>4. QED
    BY <1>4, <2>2, <2>3 DEF Preflight
<1>5. QED
  BY <1>2, <1>3, <1>4

\* A process that listens admits a request.
LEMMA CallPlane ==
    ASSUME PlaneInv, NEW h \in Handlers, Call(h) PROVE PlaneKept
<1>1. h \in Workers /\ h \notin Daemons /\ CallsTyped /\ StoreTyped /\ Located /\ RegistryInv
  BY ControlPlaneAssumption, TypedParts DEF Workers, PlaneInv
<1>2. PICK d \in Daemons, q \in load.requests :
        /\ phase[d] \in Listening
        /\ calls' = [calls EXCEPT ![h] =
              [Idle EXCEPT !.pc = IF Gated(q) THEN "gate" ELSE FirstStep(q), !.at = d, !.q = q]]
  BY DEF Call, Live
<1>3. UNCHANGED registryVars /\ phase' = phase /\ load' = load /\ calls[h] = Idle
  BY DEF Call, dataVars
<1>4. PICK pc \in {"gate", "preflight", "read", "transact"} :
        pc = IF Gated(q) THEN "gate" ELSE FirstStep(q)
  BY DEF FirstStep
<1>5. PICK c : c = [pc |-> pc, at |-> d, q |-> q, seen |-> NoProject, job |-> NoJob]
  OBVIOUS
<1>6. calls' = [calls EXCEPT ![h] = c] /\ c.pc = pc /\ c.at = d /\ c.q = q
  <2>1. calls' = [calls EXCEPT ![h] = WithRequest(Idle, pc, d, q)]
    BY <1>2, <1>4 DEF WithRequest
  <2>2. WithRequest(Idle, pc, d, q) = c
    BY <1>5, EmptyTyped, Updated DEF Frame
  <2>3. QED
    BY <1>5, <2>1, <2>2
<1>7. Frame(c)
  BY <1>4, <1>5, EmptyTyped DEF Frame, Pcs
<1>8. \A v \in Workers : calls'[v] = IF v = h THEN c ELSE calls[v]
  BY <1>1, <1>6 DEF CallsTyped
<1>9. CallsTyped'
  <2>1. calls' = [v \in Workers |-> calls'[v]]
    BY <1>1, <1>6 DEF CallsTyped
  <2>2. ASSUME NEW v \in Workers PROVE Frame(calls[v])'
    BY <1>1, <1>3, <1>7, <1>8 DEF CallsTyped, Frame
  <2>3. QED
    BY <1>1, <1>3, <2>1, <2>2 DEF CallsTyped
<1>10. Located'
  <2>1. \A e \in Daemons : calls'[e] = calls[e]
    BY <1>1, <1>8 DEF Workers
  <2>2. ASSUME NEW g \in Handlers, calls'[g] # Idle
        PROVE  /\ calls'[g].at \in Daemons /\ phase'[calls'[g].at] \in Requested
               /\ calls'[g].q \in load'.requests
    BY <1>1, <1>2, <1>3, <1>6, <1>8, <2>2 DEF Located, Workers, Requested
  <2>3. ASSUME NEW v \in Workers
        PROVE  /\ calls'[v].pc = "idle" => calls'[v] = Idle
               /\ calls'[v].pc = "read" => calls'[v].q.op = "project.repair"
    <3>1. pc = "read" => q.op = "project.repair"
      BY <1>4 DEF FirstStep
    <3>2. QED
      BY <1>1, <1>4, <1>6, <1>8, <3>1 DEF Located
  <2>4. QED
    BY <1>1, <1>3, <2>1, <2>2, <2>3 DEF Located
<1>11. RegistryInv'
  <2>1. \A v \in Workers : calls'[v] = calls[v] \/ calls'[v].pc \notin JobPcs \cup {"update"}
    BY <1>4, <1>6, <1>8 DEF JobPcs
  <2>2. \A v \in Workers : Current(v)' => Current(v)
    BY <1>3, <2>1 DEF Current, Job
  <2>3. QED
    BY <1>1, <1>3, <2>1, <2>2, Bystanding
<1>12. QED
  BY <1>1, <1>3, <1>9, <1>10, <1>11, DiskStays, TypedParts DEF PlaneKept

----------------------------------------------------------------------------
(* Jobs that work on files.                                                *)

rowVars == <<projects, lastOp, source, damaged>>

\* The registered commits stay while the rows do.
LEMMA RowsStay ==
    ASSUME UNCHANGED rowVars
    PROVE  Rows' = Rows /\ \A p, i : Fixed(p, i)' <=> Fixed(p, i)
BY DEF rowVars, Rows, Fixed

\* The job of worker w goes on: same project, operation and commit.
Continues(w, c) ==
    /\ calls[w] # Idle /\ Job(w)
    /\ Frame(c) /\ c.pc \in JobPcs
    /\ c.at = calls[w].at /\ c.q = calls[w].q
    /\ c.job.project = calls[w].job.project /\ c.job.op = calls[w].job.op
    /\ c.job.initial = calls[w].job.initial /\ c.job.action = calls[w].job.action
    /\ c.pc \in MakingPcs => calls[w].pc \in MakingPcs
    /\ c.pc = "finish" => RepositoryValid(c.job.project, c.job.initial)'

\* What is on disk afterwards fits, and no repository changed its marker.
DiskKept ==
    /\ StoreTyped' /\ DiskSound'
    /\ \A p \in Projects : \A i : RepositoryValid(p, i) => RepositoryValid(p, i)'
    /\ \A owner \in [OpIds -> Projects \cup {None}] : Owned(owner) => OwnedDisk(owner)'

\* A job goes on after what it did to the disk.
LEMMA JobMoves ==
    ASSUME PlaneInv, phase' = phase, load' = load, UNCHANGED rowVars, DiskKept,
           NEW w \in Workers, NEW c, Continues(w, c), calls' = [calls EXCEPT ![w] = c]
    PROVE  PlaneKept
<1>1. CallsTyped /\ StoreTyped /\ Located /\ RegistryInv
  BY TypedParts DEF PlaneInv
<1>2. Proceeds(w, c)
  BY DEF Continues, Proceeds, JobPcs
<1>3. /\ CallsTyped' /\ Located' /\ calls'[w] = c
      /\ \A v \in Workers \ {w} : calls'[v] = calls[v]
  BY <1>1, <1>2, WorkerMoves
<1>4. \A v \in Workers : /\ Job(v)' <=> Job(v)
                         /\ Current(v)' <=> Current(v)
                         /\ calls'[v].job.project = calls[v].job.project
                         /\ calls'[v].job.op = calls[v].job.op
  BY <1>3 DEF Job, Current, Continues
<1>5. ASSUME NEW v \in Workers PROVE JobFacts(v)'
  <2>1. JobFacts(v)
    BY <1>1 DEF RegistryInv
  <2>2. CASE v = w
    <3>1. calls'[w].job.initial = calls[w].job.initial /\ calls'[w].job.action = calls[w].job.action
      BY <1>3 DEF Continues
    <3>2. JobFacts(w) /\ (Current(w)' => Current(w)) /\ Job(w)
      BY <2>1, <2>2, <1>4 DEF Continues
    <3>3. Fixed(calls[w].job.project, calls[w].job.initial)'
      BY <1>4, <3>1, <3>2, RowsStay DEF JobFacts
    <3>4. (calls[w].pc = "finish" => RepositoryValid(calls[w].job.project, calls[w].job.initial))'
      BY <1>3 DEF Continues
    <3>5. calls'[w].pc \in MakingPcs => calls'[w].job.action = "initialize"
      BY <1>3, <3>1, <3>2 DEF Continues, JobFacts
    <3>6. Current(w)' => /\ projects'[calls'[w].job.project].status = "creating"
                         /\ projects'[calls'[w].job.project].op = calls'[w].job.op
                         /\ projects'[calls'[w].job.project].action = calls'[w].job.action
      BY <1>4, <3>1, <3>2 DEF JobFacts, rowVars
    <3>7. QED
      BY <2>2, <3>3, <3>4, <3>5, <3>6 DEF JobFacts
  <2>3. CASE v # w
    <3>1. calls'[v] = calls[v]
      BY <1>3, <2>3
    <3>2. QED
      BY <1>4, <2>1, <3>1, RowsStay DEF JobFacts, rowVars, DiskKept, Fixed
  <2>4. QED
    BY <2>2, <2>3
<1>6. ASSUME NEW h \in Handlers PROVE RepairFacts(h)'
  <2>1. h \in Workers /\ RepairFacts(h)
    BY <1>1 DEF RegistryInv, Workers
  <2>2. calls'[h] = calls[h] \/ calls'[h].pc # "update"
    BY <1>3, <2>1 DEF Continues, JobPcs
  <2>3. QED
    BY <2>1, <2>2, RowsStay DEF RepairFacts
<1>7. JobsApart'
  BY <1>1, <1>4 DEF RegistryInv, JobsApart
<1>8. OpsOwned'
  <2>1. PICK owner \in [OpIds -> Projects \cup {None}] : Owned(owner)
    BY <1>1 DEF RegistryInv, OpsOwned
  <2>2. OwnedDisk(owner)'
    BY <2>1 DEF DiskKept
  <2>3. Owned(owner)'
    BY <1>4, <2>1, <2>2 DEF Owned, rowVars
  <2>4. QED
    BY <2>3 DEF OpsOwned
<1>9. RegistryInv'
  BY <1>5, <1>6, <1>7, <1>8 DEF RegistryInv, DiskKept, DiskSound
<1>10. QED
  BY <1>3, <1>9, TypedParts DEF PlaneKept, DiskKept

\* Nothing on disk changes.
LEMMA DiskKeptStill == ASSUME PlaneInv, UNCHANGED registryVars PROVE DiskKept
<1>1. StoreTyped /\ DiskSound
  BY TypedParts DEF PlaneInv, RegistryInv, DiskSound
<1>2. \A owner : Owned(owner) => OwnedDisk(owner)'
  BY DEF Owned, OwnedDisk, registryVars, Exists
<1>3. QED
  BY <1>1, <1>2, DiskStays DEF DiskKept

\* A partial repository is written by a job that owns its operation.
LEMMA PartialWritten ==
    ASSUME PlaneInv, NEW w \in Workers, Job(w), UNCHANGED rowVars,
           UNCHANGED <<finals, quarantine>>,
           NEW x \in Partials, partials' = [partials EXCEPT ![calls[w].job.op] = x],
           x = NoPartial \/ (x.stage > 0 /\ x.project = calls[w].job.project),
           x.stage >= Marked => Fixed(x.project, x.initial)
    PROVE  DiskKept
<1>1. StoreTyped /\ DiskSound /\ RegistryInv
  BY TypedParts DEF PlaneInv, RegistryInv, DiskSound
<1>2. PICK o : o = calls[w].job.op
  OBVIOUS
<1>3. o \in 1..lastOp /\ o \in OpIds /\ o <= lastOp
  <2>1. PICK owner \in [OpIds -> Projects \cup {None}] : Owned(owner)
    BY <1>1 DEF RegistryInv, OpsOwned
  <2>2. o \in 1..lastOp
    BY <1>2, <2>1 DEF Owned
  <2>3. QED
    BY <1>1, <2>2, RegistryAssumption DEF StoreTyped, OpIds
<1>4. \A n \in OpIds : partials'[n] = IF n = o THEN x ELSE partials[n]
  BY <1>1, <1>2 DEF StoreTyped
<1>5. StoreTyped'
  BY <1>1 DEF StoreTyped, rowVars
<1>6. PartialsSound'
  <2>1. SUFFICES ASSUME NEW n \in OpIds
                 PROVE  (/\ partials[n] = NoPartial \/ partials[n].stage > 0
                         /\ partials[n].stage >= Marked =>
                               Fixed(partials[n].project, partials[n].initial))'
    BY DEF PartialsSound
  <2>2. CASE n = o
    BY <1>4, <2>2, RowsStay
  <2>3. CASE n # o
    BY <1>1, <1>4, <2>3, RowsStay DEF DiskSound, PartialsSound
  <2>4. QED
    BY <2>2, <2>3
<1>7. RowsSound'
  BY <1>1, RowsStay DEF DiskSound, RowsSound, rowVars, Exists
<1>8. RepositoriesMatchRows'
  BY <1>1, RowsStay DEF DiskSound, RepositoriesMatchRows, ActiveBacked, PinnedInitial,
     QuarantinedUnwanted, InitializedValid, RepositoryValid, Exists, RowsIn, rowVars
<1>9. ASSUME NEW owner \in [OpIds -> Projects \cup {None}], Owned(owner) PROVE OwnedDisk(owner)'
  <2>1. o <= lastOp /\ owner[o] = calls[w].job.project
    BY <1>2, <1>3, <1>9 DEF Owned
  <2>2. ASSUME NEW n \in OpIds, partials'[n] # NoPartial
        PROVE  n <= lastOp /\ partials'[n].project = owner[n]
    <3>1. CASE n = o
      BY <1>4, <2>1, <2>2, <3>1
    <3>2. CASE n # o
      <4>1. partials'[n] = partials[n]
        BY <1>4, <3>2
      <4>2. OwnedDisk(owner)
        BY <1>9 DEF Owned
      <4>3. QED
        BY <2>2, <4>1, <4>2 DEF OwnedDisk
    <3>3. QED
      BY <3>1, <3>2
  <2>3. QED
    BY <1>9, <2>2 DEF Owned, OwnedDisk, Exists, rowVars
<1>10. \A p, i : RepositoryValid(p, i) => RepositoryValid(p, i)'
  BY DEF RepositoryValid, Exists
<1>11. QED
  BY <1>5, <1>6, <1>7, <1>8, <1>9, <1>10 DEF DiskKept, DiskSound

\* What every job step leaves alone.
LEMMA JobStepFrame ==
    ASSUME NEW w, JobStep(w)
    PROVE  phase' = phase /\ load' = load /\ Running(w)
BY DEF JobStep, Initialize, PreparePartial, MarkPartial, PublishPartial, BuildRepository,
       PromoteRepository, VerifyRepository, GitFails, FinishJob, jobFrame, CanRunGit, CanTransact,
       CanTouchFiles

\* A job goes from one place to the next, after what it did to the disk.
LEMMA JobGoes ==
    ASSUME PlaneInv, phase' = phase, load' = load, UNCHANGED rowVars, DiskKept,
           NEW w \in Workers, Running(w), NEW pc \in JobPcs \ {"finish"},
           calls[w].pc \in MakingPcs \cup {"verify"},
           pc \in MakingPcs => calls[w].pc \in MakingPcs,
           Goto(w, pc)
    PROVE  PlaneKept
<1>1. PICK c : c = At(w, pc)
  OBVIOUS
<1>2. CallsTyped /\ pc \in Pcs
  BY TypedParts DEF PlaneInv, Pcs
<1>3. Frame(c) /\ calls' = [calls EXCEPT ![w] = c]
  BY <1>1, <1>2, AtTyped, GotoIs
<1>4. c.pc = pc /\ c.at = calls[w].at /\ c.q = calls[w].q /\ c.job = calls[w].job
  BY <1>1 DEF At
<1>5. Continues(w, c)
  BY <1>3, <1>4 DEF Continues, Running, Job, JobPcs, MakingPcs
<1>6. QED
  BY <1>3, <1>5, JobMoves

\* The job and its operation, as every step on a partial repository needs them.
LEMMA JobKnown ==
    ASSUME PlaneInv, NEW w \in Workers, Job(w)
    PROVE  /\ calls[w].job \in Jobs
           /\ calls[w].job.op \in OpIds
           /\ Fixed(calls[w].job.project, calls[w].job.initial)
           /\ partials[calls[w].job.op] \in Partials
           /\ partials[calls[w].job.op] # NoPartial =>
                 partials[calls[w].job.op].project = calls[w].job.project
           /\ partials[calls[w].job.op] = NoPartial \/ partials[calls[w].job.op].stage > 0
           /\ partials[calls[w].job.op].stage >= Marked =>
                 Fixed(partials[calls[w].job.op].project, partials[calls[w].job.op].initial)
<1>1. StoreTyped /\ RegistryInv /\ CallsTyped
  BY TypedParts DEF PlaneInv
<1>2. PICK owner \in [OpIds -> Projects \cup {None}] : Owned(owner)
  BY <1>1 DEF RegistryInv, OpsOwned
<1>3. calls[w].job.op \in 1..lastOp /\ owner[calls[w].job.op] = calls[w].job.project
  BY <1>2 DEF Owned
<1>4. calls[w].job.op \in OpIds
  BY <1>1, <1>3, RegistryAssumption DEF StoreTyped, OpIds
<1>5. /\ calls[w].job \in Jobs /\ partials[calls[w].job.op] \in Partials
      /\ Fixed(calls[w].job.project, calls[w].job.initial)
  BY <1>1, <1>4 DEF StoreTyped, CallsTyped, Frame, RegistryInv, JobFacts
<1>6. partials[calls[w].job.op] # NoPartial =>
         partials[calls[w].job.op].project = calls[w].job.project
  BY <1>2, <1>3, <1>4 DEF Owned, OwnedDisk
<1>7. /\ partials[calls[w].job.op] = NoPartial \/ partials[calls[w].job.op].stage > 0
      /\ partials[calls[w].job.op].stage >= Marked =>
            Fixed(partials[calls[w].job.op].project, partials[calls[w].job.op].initial)
  BY <1>1, <1>4 DEF RegistryInv, PartialsSound
<1>8. QED
  BY <1>4, <1>5, <1>6, <1>7

\* A partial repository with another stage.
Staged(x, n) == [x EXCEPT !.stage = n]
Pinned(x, n, i) == [x EXCEPT !.stage = n, !.initial = i]

Stages == 0..Complete

\* A partial repository that gets further keeps its other fields.
LEMMA StagedIs ==
    ASSUME NEW x, x \in Partials, NEW n, n \in Stages, NEW y, y = Staged(x, n)
    PROVE  /\ y = [project |-> x.project, initial |-> x.initial, stage |-> n]
           /\ y.project = x.project /\ y.initial = x.initial /\ y.stage = n
           /\ y \in Partials
BY DEF Partials, Staged, Stages

\* A published marker fixes stage and commit and keeps the project.
LEMMA PinnedIs ==
    ASSUME NEW x, x \in Partials, NEW n, n \in Stages, NEW i, i \in Nat, NEW z, z = Pinned(x, n, i)
    PROVE  /\ z.project = x.project /\ z.initial = i /\ z.stage = n
           /\ z \in Partials
<1>1. PICK y : y = [x EXCEPT !.stage = n]
  OBVIOUS
<1>2. y = [project |-> x.project, initial |-> x.initial, stage |-> n]
  BY <1>1 DEF Partials
<1>3. [y EXCEPT !.initial = i] = [project |-> x.project, initial |-> i, stage |-> n]
  BY <1>2
<1>4. z = [y EXCEPT !.initial = i]
  BY <1>1 DEF Pinned
<1>5. QED
  BY <1>3, <1>4 DEF Partials, Stages

\* The stages.
LEMMA StageFacts ==
    /\ EmptyDir \in Stages /\ Temporary \in Stages /\ Marked \in Stages
    /\ EmptyDir > 0 /\ Temporary > 0 /\ Marked > 0
    /\ ~(EmptyDir >= Marked) /\ ~(Temporary >= Marked) /\ ~(0 >= Marked) /\ ~(0 >= Temporary)
    /\ EmptyDir # 0 /\ 0 \in Stages
    /\ \A n \in Stages : n >= Temporary => n > 0
    /\ \A n \in Marked..(Complete - 1) : n + 1 \in Stages /\ n + 1 > 0 /\ n >= Marked
BY DEF EmptyDir, Temporary, Marked, Complete, Stages

\* Every step of a job on its partial repository.
LEMMA PartialSteps ==
    ASSUME PlaneInv, NEW w \in Workers, Job(w),
           LET j == calls[w].job
           IN \/ MakePartial(j) \/ WriteTemporaryMarker(j) \/ PublishMarker(j)
              \/ DropTemporaryMarker(j) \/ BuildPartial(j)
    PROVE  DiskKept /\ UNCHANGED rowVars
<1>1. PICK j, o, x : j = calls[w].job /\ o = j.op /\ x = partials[o]
  OBVIOUS
<1>2. /\ j \in Jobs /\ o \in OpIds /\ Fixed(j.project, j.initial) /\ x \in Partials
      /\ x # NoPartial => x.project = j.project
      /\ x = NoPartial \/ x.stage > 0
      /\ x.stage >= Marked => Fixed(x.project, x.initial)
  BY <1>1, JobKnown
<1>3. x.stage \in Stages /\ j.initial \in Nat /\ j.project \in Projects \cup {None}
  BY <1>2 DEF Partials, Jobs, Stages
<1>4. partials \in [OpIds -> Partials]
  BY DEF PlaneInv, Typed
<1>5. UNCHANGED rowVars /\ UNCHANGED <<finals, quarantine>>
  BY DEF MakePartial, WriteTemporaryMarker, PublishMarker, DropTemporaryMarker, BuildPartial,
         registryRowVars, rowVars
<1>6. ASSUME NEW y \in Partials, partials' = [partials EXCEPT ![o] = y],
             y = NoPartial \/ (y.stage > 0 /\ y.project = j.project),
             y.stage >= Marked => Fixed(y.project, y.initial)
      PROVE  DiskKept
  BY <1>1, <1>5, <1>6, PartialWritten
<1> SUFFICES DiskKept
  BY <1>5
<1>7. NoPartial.stage = 0 /\ NoPartial.project = None
  BY DEF NoPartial
<1>8. CASE MakePartial(j)
  <2>1. CASE x # NoPartial
    <3>1. partials' = [partials EXCEPT ![o] = x]
      BY <1>1, <1>2, <1>4, <1>8, <2>1 DEF MakePartial
    <3>2. QED
      BY <1>2, <1>6, <2>1, <3>1
  <2>2. CASE x = NoPartial
    <3>1. PICK y : y = [project |-> j.project, initial |-> NoCommit, stage |-> EmptyDir]
      OBVIOUS
    <3>2. partials' = [partials EXCEPT ![o] = y]
      BY <1>1, <1>8, <2>2, <3>1 DEF MakePartial
    <3>3. y \in Partials /\ y.stage = EmptyDir /\ y.project = j.project
      BY <1>3, <3>1, StageFacts DEF Partials, NoCommit, Stages
    <3>4. QED
      BY <1>6, <3>2, <3>3, StageFacts
  <2>3. QED
    BY <2>1, <2>2
<1>9. CASE WriteTemporaryMarker(j)
  <2>1. x.stage = EmptyDir /\ partials' = [partials EXCEPT ![o] = Staged(x, Temporary)]
    BY <1>1, <1>9 DEF WriteTemporaryMarker, Stage, Staged
  <2>2. PICK y : y = Staged(x, Temporary)
    OBVIOUS
  <2>3. y \in Partials /\ y.stage = Temporary /\ y.project = x.project
    BY <1>2, <2>2, StagedIs, StageFacts
  <2>4. QED
    <3>1. x # NoPartial
      BY <1>7, <2>1, StageFacts
    <3>2. QED
      BY <1>2, <1>6, <2>1, <2>2, <2>3, <3>1, StageFacts
<1>10. CASE PublishMarker(j)
  <2>1. PICK n : n = IF x.stage = Temporary THEN Marked ELSE x.stage
    OBVIOUS
  <2>2. x.stage >= Temporary /\ partials' = [partials EXCEPT ![o] = Pinned(x, n, j.initial)]
    BY <1>1, <1>2, <1>4, <1>10, <2>1 DEF PublishMarker, Stage, Pinned
  <2>3. n \in Stages /\ n > 0
    BY <1>3, <2>1, <2>2, StageFacts
  <2>4. PICK y : y = Pinned(x, n, j.initial)
    OBVIOUS
  <2>5. y \in Partials /\ y.stage = n /\ y.project = x.project /\ y.initial = j.initial
    BY <1>2, <1>3, <2>3, <2>4, PinnedIs
  <2>6. x # NoPartial
    BY <1>7, <2>2, StageFacts
  <2>7. QED
    BY <1>2, <1>6, <2>2, <2>3, <2>4, <2>5, <2>6
<1>11. CASE DropTemporaryMarker(j)
  <2>1. PICK n : n = IF x.stage = Temporary THEN EmptyDir ELSE x.stage
    OBVIOUS
  <2>2. partials' = [partials EXCEPT ![o] = Staged(x, n)]
    BY <1>1, <1>2, <1>4, <1>11, <2>1 DEF DropTemporaryMarker, Staged
  <2>3. n \in Stages
    BY <1>3, <2>1, StageFacts
  <2>4. PICK y : y = Staged(x, n)
    OBVIOUS
  <2>5. /\ y \in Partials /\ y.stage = n /\ y.project = x.project /\ y.initial = x.initial
        /\ y = [project |-> x.project, initial |-> x.initial, stage |-> n]
    BY <1>2, <2>3, <2>4, StagedIs
  <2>6. CASE x = NoPartial
    <3>1. n = 0
      BY <1>7, <2>1, <2>6 DEF Temporary
    <3>2. y = NoPartial
      BY <2>5, <2>6, <3>1 DEF NoPartial
    <3>3. QED
      BY <1>6, <1>7, <2>2, <2>4, <2>5, <3>2, StageFacts
  <2>7. CASE x # NoPartial
    <3>1. n > 0 /\ (n >= Marked => x.stage >= Marked)
      BY <1>2, <1>3, <2>1, <2>7, StageFacts DEF Stages, Complete
    <3>2. QED
      BY <1>2, <1>6, <2>2, <2>4, <2>5, <2>7, <3>1
  <2>8. QED
    BY <2>6, <2>7
<1>12. CASE BuildPartial(j)
  <2>1. PICK n : n = x.stage + 1
    OBVIOUS
  <2>2. x.stage \in Marked..(Complete - 1) /\ partials' = [partials EXCEPT ![o] = Staged(x, n)]
    BY <1>1, <1>2, <1>4, <1>12, <2>1 DEF BuildPartial, Stage, Staged
  <2>3. n \in Stages /\ n > 0
    BY <1>3, <2>1, <2>2, StageFacts
  <2>4. PICK y : y = Staged(x, n)
    OBVIOUS
  <2>5. y \in Partials /\ y.stage = n /\ y.project = x.project /\ y.initial = x.initial
    BY <1>2, <2>3, <2>4, StagedIs
  <2>6. x # NoPartial /\ Fixed(x.project, x.initial)
    BY <1>2, <1>7, <2>2, StageFacts
  <2>7. QED
    BY <1>2, <1>6, <2>2, <2>3, <2>4, <2>5, <2>6
<1>13. QED
  BY <1>1, <1>8, <1>9, <1>10, <1>11, <1>12

\* A complete partial repository becomes the project's.
LEMMA PromoteKeeps ==
    ASSUME PlaneInv, NEW w \in Workers, Job(w), PromotePartial(calls[w].job)
    PROVE  DiskKept /\ UNCHANGED rowVars
<1>1. PICK j, o, x : j = calls[w].job /\ o = j.op /\ x = partials[o]
  OBVIOUS
<1>2. /\ j \in Jobs /\ o \in OpIds /\ Fixed(j.project, j.initial) /\ x \in Partials
      /\ x # NoPartial => x.project = j.project
      /\ x.stage >= Marked => Fixed(x.project, x.initial)
  BY <1>1, JobKnown
<1>3. StoreTyped /\ DiskSound /\ RegistryInv
  BY TypedParts DEF PlaneInv, RegistryInv, DiskSound
<1>4. /\ x.stage = Complete /\ ~Exists(j.project) /\ UNCHANGED rowVars /\ quarantine' = quarantine
      /\ partials' = [partials EXCEPT ![o] = NoPartial]
      /\ finals' = [finals EXCEPT ![j.project] =
                       [op |-> o, initial |-> x.initial, canonical |-> x.initial]]
  BY <1>1 DEF PromotePartial, Stage, registryRowVars, rowVars
<1>5. Fixed(j.project, x.initial) /\ x.initial \in Nat
  BY <1>2, <1>4 DEF Complete, Marked, NoPartial, Partials
<1>6. PICK p : p = j.project
  OBVIOUS
<1>7. PICK f : f = [op |-> o, initial |-> x.initial, canonical |-> x.initial]
  OBVIOUS
<1>8. /\ f \in Finals /\ f # NoFinal /\ f.op = o /\ f.initial = x.initial
      /\ f.canonical >= f.initial
  BY <1>2, <1>5, <1>7 DEF Finals, NoFinal, NoOp, OpIds
<1>9. /\ p \in Projects
      /\ \A n \in Projects : finals'[n] = IF n = p THEN f ELSE finals[n]
      /\ \A n \in OpIds : partials'[n] = IF n = o THEN NoPartial ELSE partials[n]
  BY <1>2, <1>3, <1>4, <1>6, <1>7 DEF StoreTyped, Fixed
<1>10. StoreTyped'
  BY <1>3, <1>4, <1>7, <1>8, EmptyTyped DEF StoreTyped, rowVars
<1>11. PartialsSound'
  <2>1. NoPartial.stage = 0
    BY DEF NoPartial
  <2>2. SUFFICES ASSUME NEW n \in OpIds
                 PROVE  (/\ partials[n] = NoPartial \/ partials[n].stage > 0
                         /\ partials[n].stage >= Marked =>
                               Fixed(partials[n].project, partials[n].initial))'
    BY DEF PartialsSound
  <2>3. CASE n = o
    BY <1>9, <2>1, <2>3, StageFacts
  <2>4. CASE n # o
    BY <1>3, <1>4, <1>9, <2>4, RowsStay DEF DiskSound, PartialsSound
  <2>5. QED
    BY <2>3, <2>4
<1>12. \A n \in Projects : n # p => (Exists(n)' <=> Exists(n)) /\ finals'[n] = finals[n]
  BY <1>9 DEF Exists
<1>13. Exists(p)' /\ finals'[p].initial = x.initial /\ finals'[p].canonical >= finals'[p].initial
  BY <1>8, <1>9 DEF Exists
<1>14. RowsSound'
  <2>1. SUFFICES ASSUME NEW n \in Projects, Exists(n)'
                 PROVE  Fixed(n, finals[n].initial)' /\ finals'[n].canonical >= finals'[n].initial
    BY <1>3, <1>4 DEF DiskSound, RowsSound, rowVars
  <2>2. CASE n = p
    BY <1>4, <1>5, <1>6, <1>13, <2>2, RowsStay
  <2>3. CASE n # p
    BY <1>3, <1>4, <1>12, <2>1, <2>3, RowsStay DEF DiskSound, RowsSound
  <2>4. QED
    BY <2>2, <2>3
<1>15. projects[p].status \notin {"none", "deleted"} => x.initial = projects[p].initial
  BY <1>5, <1>6 DEF Fixed
<1>16. RepositoriesMatchRows'
  <2>1. projects' = projects /\ damaged' = damaged
    BY <1>4 DEF rowVars
  <2>2. ActiveBacked'
    <3>1. SUFFICES ASSUME NEW n \in Projects, projects[n].status = "active"
                   PROVE  (InitializedValid(n, projects[n].initial) \/ n \in damaged)'
      BY <2>1 DEF ActiveBacked, RowsIn
    <3>2. CASE n = p
      BY <1>13, <1>15, <2>1, <3>1, <3>2 DEF InitializedValid, RepositoryValid
    <3>3. CASE n # p
      <4>1. InitializedValid(n, projects[n].initial) \/ n \in damaged
        BY <1>3, <3>1 DEF DiskSound, RepositoriesMatchRows, ActiveBacked, RowsIn
      <4>2. QED
        BY <1>12, <2>1, <3>3, <4>1 DEF InitializedValid, RepositoryValid
    <3>4. QED
      BY <3>2, <3>3
  <2>3. PinnedInitial'
    <3>1. SUFFICES ASSUME NEW n \in Rows, Exists(n)' PROVE finals'[n].initial = projects'[n].initial
      BY <1>4, RowsStay DEF PinnedInitial
    <3>2. n \in Projects /\ projects[n].status \notin {"none", "deleted"}
      BY DEF Rows
    <3>3. CASE n = p
      BY <1>13, <1>15, <2>1, <3>2, <3>3
    <3>4. CASE n # p
      BY <1>3, <1>12, <2>1, <3>1, <3>2, <3>4 DEF DiskSound, RepositoriesMatchRows, PinnedInitial
    <3>5. QED
      BY <3>3, <3>4
  <2>4. QuarantinedUnwanted'
    BY <1>3, <1>4, <2>1, RowsStay DEF DiskSound, RepositoriesMatchRows, QuarantinedUnwanted
  <2>5. QED
    BY <2>2, <2>3, <2>4 DEF RepositoriesMatchRows
<1>17. ASSUME NEW n \in Projects, NEW i, RepositoryValid(n, i) PROVE RepositoryValid(n, i)'
  BY <1>4, <1>6, <1>12, <1>17 DEF RepositoryValid
<1>18. ASSUME NEW owner \in [OpIds -> Projects \cup {None}], Owned(owner) PROVE OwnedDisk(owner)'
  <2>1. OwnedDisk(owner) /\ o \in 1..lastOp /\ owner[o] = p
    BY <1>1, <1>6, <1>18 DEF Owned
  <2>2. lastOp' = lastOp
    BY <1>4 DEF rowVars
  <2>3. \A n \in OpIds : partials'[n] # NoPartial => n <= lastOp' /\ partials'[n].project = owner[n]
    BY <1>9, <2>1, <2>2 DEF OwnedDisk
  <2>4. \A n \in Projects : Exists(n)' => finals'[n].op \in 1..lastOp' /\ owner[finals'[n].op] = n
    BY <1>8, <1>9, <1>12, <2>1, <2>2 DEF OwnedDisk
  <2>5. QED
    BY <1>4, <2>1, <2>2, <2>3, <2>4 DEF OwnedDisk
<1>19. QED
  BY <1>4, <1>10, <1>11, <1>14, <1>16, <1>17, <1>18 DEF DiskKept, DiskSound

\* The steps of a job but the transaction that ends it.
LEMMA FileSteps ==
    ASSUME PlaneInv, NEW w \in Workers, JobStep(w), ~FinishJob(w)
    PROVE  PlaneKept
<1> USE DEF JobPcs, MakingPcs
<1>1. phase' = phase /\ load' = load /\ Running(w)
  BY JobStepFrame
<1>2. UNCHANGED registryVars => DiskKept /\ UNCHANGED rowVars
  BY DiskKeptStill DEF registryVars, rowVars
<1>3. ASSUME NEW pc \in JobPcs \ {"finish"}, DiskKept /\ UNCHANGED rowVars,
             calls[w].pc \in MakingPcs \cup {"verify"},
             pc \in MakingPcs => calls[w].pc \in MakingPcs, Goto(w, pc)
      PROVE  PlaneKept
  BY <1>1, <1>3, JobGoes
<1>4. CASE Initialize(w)
  <2>1. calls[w].pc = "init" /\ UNCHANGED registryVars
    BY <1>4 DEF Initialize
  <2>2. PICK pc \in {"confirm", "prepare"} : Goto(w, pc)
    BY <1>4 DEF Initialize
  <2>3. QED
    BY <1>2, <1>3, <2>1, <2>2
<1>5. CASE PreparePartial(w)
  <2>1. calls[w].pc = "prepare" /\ Job(w) /\ MakePartial(calls[w].job) /\ Goto(w, "mark")
    BY <1>5 DEF PreparePartial, Job
  <2>2. DiskKept /\ UNCHANGED rowVars
    BY <2>1, PartialSteps
  <2>3. QED
    BY <1>3, <2>1, <2>2
<1>6. CASE MarkPartial(w)
  <2>1. calls[w].pc = "mark" /\ Job(w)
    BY <1>6 DEF MarkPartial, Job
  <2>2. DiskKept /\ UNCHANGED rowVars
    BY <1>2, <1>6, <2>1, PartialSteps DEF MarkPartial
  <2>3. PICK pc \in {"publish", "build", "fail"} : Goto(w, pc)
    BY <1>6 DEF MarkPartial
  <2>4. QED
    BY <1>3, <2>1, <2>2, <2>3
<1>7. CASE PublishPartial(w)
  <2>1. calls[w].pc = "publish" /\ Job(w)
    BY <1>7 DEF PublishPartial, Job
  <2>2. DiskKept /\ UNCHANGED rowVars
    BY <1>7, <2>1, PartialSteps DEF PublishPartial
  <2>3. PICK pc \in {"build", "fail"} : Goto(w, pc)
    BY <1>7 DEF PublishPartial
  <2>4. QED
    BY <1>3, <2>1, <2>2, <2>3
<1>8. CASE BuildRepository(w)
  <2>1. calls[w].pc = "build" /\ Job(w)
    BY <1>8 DEF BuildRepository, Job
  <2>2. CASE BuildPartial(calls[w].job) /\ UNCHANGED calls
    <3>1. DiskKept /\ UNCHANGED rowVars
      BY <2>1, <2>2, PartialSteps
    <3>2. CallsTyped
      BY TypedParts DEF PlaneInv
    <3>3. Goto(w, "build")
      <4>1. At(w, "build") = calls[w]
        BY <2>1, <3>2 DEF At, CallsTyped, Frame
      <4>2. [calls[w] EXCEPT !.pc = "build"] = calls[w]
        BY <3>2, <4>1, AtTyped DEF Pcs
      <4>3. calls = [calls EXCEPT ![w] = calls[w]]
        BY <3>2 DEF CallsTyped
      <4>4. QED
        BY <2>2, <4>2, <4>3 DEF Goto
    <3>4. QED
      BY <1>3, <2>1, <3>1, <3>3
  <2>3. CASE UNCHANGED registryVars
    <3>1. CASE UNCHANGED calls
      BY <1>1, <2>3, <3>1, NothingMoves
    <3>2. CASE \E pc \in {"promote", "fail"} : Goto(w, pc)
      <4>1. PICK pc \in {"promote", "fail"} : Goto(w, pc)
        BY <3>2
      <4>2. QED
        BY <1>2, <1>3, <2>1, <2>3, <4>1
    <3>3. QED
      BY <1>8, <3>1, <3>2 DEF BuildRepository
  <2>4. QED
    BY <1>8, <2>2, <2>3 DEF BuildRepository
<1>9. CASE PromoteRepository(w)
  <2>1. calls[w].pc = "promote" /\ Job(w)
    BY <1>9 DEF PromoteRepository, Job
  <2>2. DiskKept /\ UNCHANGED rowVars
    BY <1>2, <1>9, <2>1, PromoteKeeps DEF PromoteRepository
  <2>3. PICK pc \in {"confirm", "fail"} : Goto(w, pc)
    BY <1>9 DEF PromoteRepository
  <2>4. QED
    BY <1>3, <2>1, <2>2, <2>3
<1>10. CASE VerifyRepository(w)
  <2>1. calls[w].pc \in {"confirm", "verify"} /\ Job(w) /\ UNCHANGED registryVars
    BY <1>10 DEF VerifyRepository, Job
  <2>2. CASE Goto(w, "fail")
    BY <1>2, <1>3, <2>1, <2>2
  <2>3. CASE ~Goto(w, "fail")
    <3>1. PICK j, k : j = calls[w].job /\ k = [j EXCEPT !.fact = finals[j.project].canonical]
      OBVIOUS
    <3>2. /\ RepositoryValid(j.project, j.initial)
          /\ calls' = [calls EXCEPT ![w].pc = "finish",
                                    ![w].job.fact = finals[calls[w].job.project].canonical]
      BY <1>10, <2>3, <3>1 DEF VerifyRepository, InitializedValid
    <3>3. CallsTyped /\ Frame(calls[w])
      BY TypedParts DEF PlaneInv, CallsTyped
    <3>4. j \in Jobs /\ j.project \in Projects /\ finals[j.project].canonical \in Nat
      <4>1. j \in Jobs /\ j.project \in Projects
        BY <2>1, <3>1, JobKnown DEF Fixed
      <4>2. finals \in [Projects -> Finals]
        BY DEF PlaneInv, Typed
      <4>3. QED
        BY <4>1, <4>2 DEF Finals
    <3>5. /\ k \in Jobs /\ k.project = j.project /\ k.op = j.op /\ k.initial = j.initial
          /\ k.action = j.action
      BY <3>1, <3>4 DEF Jobs
    <3>6. PICK c : c = [pc |-> "finish", at |-> calls[w].at, q |-> calls[w].q,
                        seen |-> calls[w].seen, job |-> k]
      OBVIOUS
    <3>7. calls' = [calls EXCEPT ![w] = c]
      <4>1. calls' = [calls EXCEPT ![w] = WithJob(calls[w], "finish", k)]
        BY <3>1, <3>2, <3>3 DEF CallsTyped, WithJob
      <4>2. WithJob(calls[w], "finish", k) = c
        BY <3>3, <3>6, Updated DEF Frame
      <4>3. QED
        BY <4>1, <4>2
    <3>8. Frame(c) /\ c.pc = "finish" /\ c.at = calls[w].at /\ c.q = calls[w].q /\ c.job = k
      BY <3>3, <3>5, <3>6 DEF Frame, Pcs
    <3>9. RepositoryValid(j.project, j.initial)'
      BY <2>1, <3>2 DEF RepositoryValid, Exists, registryVars
    <3>10. Continues(w, c)
      BY <1>1, <2>1, <3>1, <3>5, <3>8, <3>9 DEF Continues, Running
    <3>11. QED
      BY <1>1, <1>2, <2>1, <3>7, <3>10, JobMoves
  <2>4. QED
    BY <2>2, <2>3
<1>11. CASE GitFails(w)
  BY <1>2, <1>3, <1>11 DEF GitFails
<1>12. QED
  BY <1>4, <1>5, <1>6, <1>7, <1>8, <1>9, <1>10, <1>11 DEF JobStep

----------------------------------------------------------------------------
(* Transactions that write a project's row.                                *)

\* A row never comes back and its initial commit never changes.
Succeeds(old, row) ==
    /\ old.status # "none" => row.status # "none"
    /\ old.status = "deleted" => row.status = "deleted"
    /\ old.status # "none" => row.status = "deleted" \/ row.initial = old.initial

\* What a transaction may write into the row of p.
Writes(p, row) ==
    /\ Row(row) /\ Succeeds(projects[p], row)
    /\ projects' = [projects EXCEPT ![p] = row]
    /\ UNCHANGED <<finals, partials, quarantine, source, damaged>>
    /\ (row.status = "creating") <=> (row.action # "")
    /\ row.action = "initialize" => row.canonical = NoCommit
    /\ row.status = "active" => InitializedValid(p, row.initial) \/ p \in damaged
    /\ row.action = "" => lastOp' = lastOp
    /\ row.action # "" => lastOp < MaxOps /\ lastOp' = lastOp + 1 /\ row.op = lastOp + 1

\* What worker w does then: nothing that depends on rows, or the job that the
\* row asks for.
Follows(p, row, c) ==
    \/ c.pc \notin JobPcs \cup {"update"}
    \/ /\ c.job.project = p /\ c.job.op = row.op /\ c.job.initial = row.initial
       /\ c.job.action = row.action /\ row.status = "creating"
       /\ \/ c.pc = "verify"
          \/ c.pc = "init" /\ row.action = "initialize"

\* The next operation id is new and within the model's bound.
LEMMA NextOp ==
    ASSUME PlaneInv, NEW p \in Projects, NEW row, Writes(p, row)
    PROVE  /\ lastOp \in Nat /\ lastOp' \in {lastOp, lastOp + 1} /\ lastOp' \in 0..MaxOps
           /\ row.action # "" => /\ lastOp' = lastOp + 1 /\ row.op = lastOp + 1
                                 /\ lastOp + 1 \in OpIds /\ lastOp + 1 \in 1..(lastOp + 1)
<1>1. lastOp \in Nat /\ lastOp <= MaxOps /\ MaxOps \in Nat
  BY TypedParts, RegistryAssumption DEF PlaneInv, StoreTyped
<1>2. /\ row.action = "" => lastOp' = lastOp
      /\ row.action # "" => lastOp < MaxOps /\ lastOp' = lastOp + 1 /\ row.op = lastOp + 1
  BY DEF Writes
<1>3. CASE row.action = ""
  <2>1. lastOp' = lastOp
    BY <1>2, <1>3
  <2>2. lastOp' \in {lastOp, lastOp + 1} /\ lastOp' \in 0..MaxOps
    BY <1>1, <2>1
  <2>3. QED
    BY <1>1, <1>3, <2>2, Zenon
<1>4. CASE row.action # ""
  <2>1. lastOp < MaxOps /\ lastOp' = lastOp + 1 /\ row.op = lastOp + 1
    BY <1>2, <1>4, Zenon
  <2>2. lastOp + 1 \in 0..MaxOps /\ lastOp + 1 \in 1..MaxOps /\ lastOp + 1 \in 1..(lastOp + 1)
    BY <1>1, <2>1
  <2>3. QED
    BY <1>1, <2>1, <2>2 DEF OpIds
<1>5. QED
  BY <1>3, <1>4

\* What the write leaves of the store, and of what is known about it.
LEMMA WriteStays ==
    ASSUME PlaneInv, NEW p \in Projects, NEW row, Writes(p, row)
    PROVE  /\ StoreTyped'
           /\ \A n \in Projects : projects'[n] = IF n = p THEN row ELSE projects[n]
           /\ \A n, i : Fixed(n, i) => Fixed(n, i)'
           /\ \A n, i : Fixed(n, i) /\ n \in Rows' => n \in Rows
           /\ \A n, i : RepositoryValid(n, i)' <=> RepositoryValid(n, i)
           /\ lastOp \in Nat /\ lastOp' \in {lastOp, lastOp + 1}
<1>1. StoreTyped
  BY TypedParts DEF PlaneInv
<1>2. \A n \in Projects : projects'[n] = IF n = p THEN row ELSE projects[n]
  BY <1>1 DEF Writes, StoreTyped
<1>3. lastOp \in Nat /\ lastOp' \in {lastOp, lastOp + 1} /\ lastOp' \in 0..MaxOps
  BY NextOp
<1>4. StoreTyped'
  <2>1. projects' = [n \in Projects |-> projects'[n]]
    BY <1>1 DEF Writes, StoreTyped
  <2>2. \A n \in Projects : Row(projects'[n])
    BY <1>1, <1>2 DEF Writes, StoreTyped
  <2>3. QED
    BY <1>1, <1>3, <2>1, <2>2 DEF Writes, StoreTyped
<1>5. ASSUME NEW n, NEW i, Fixed(n, i) PROVE Fixed(n, i)'
  BY <1>2, <1>5 DEF Fixed, Writes, Succeeds
<1>6. ASSUME NEW n, NEW i, Fixed(n, i), n \in Rows' PROVE n \in Rows
  BY <1>2, <1>6 DEF Fixed, Rows, Writes, Succeeds
<1>7. \A n, i : RepositoryValid(n, i)' <=> RepositoryValid(n, i)
  BY DEF RepositoryValid, Exists, Writes
<1>8. QED
  BY <1>2, <1>3, <1>4, <1>5, <1>6, <1>7

\* A transaction's row fits the repositories on disk.
LEMMA WriteDisk ==
    ASSUME PlaneInv, NEW p \in Projects, NEW row, Writes(p, row)
    PROVE  DiskSound'
<1>1. StoreTyped /\ RowsSound /\ PartialsSound /\ RepositoriesMatchRows /\ OpsOwned
  BY TypedParts DEF PlaneInv, RegistryInv
<1>2. /\ UNCHANGED <<finals, partials, quarantine, damaged>>
      /\ \A n \in Projects : Exists(n)' <=> Exists(n)
  BY DEF Writes, Exists
<1>3. /\ \A n \in Projects : projects'[n] = IF n = p THEN row ELSE projects[n]
      /\ \A n, i : Fixed(n, i) => Fixed(n, i)'
      /\ lastOp \in Nat
  BY WriteStays
<1>4. \A n \in Projects : Exists(n)' =>
          Fixed(n, finals[n].initial)' /\ finals'[n].canonical >= finals'[n].initial
  BY <1>1, <1>2, <1>3 DEF RowsSound
<1>5. RowsSound'
  <2>1. SUFFICES ASSUME NEW n \in Projects
                 PROVE  /\ (projects'[n].status = "creating") <=> (projects'[n].action # "")
                        /\ projects'[n].action = "initialize" => projects'[n].canonical = NoCommit
    BY <1>4 DEF RowsSound
  <2>2. QED
    BY <1>1, <1>3 DEF RowsSound, Writes
<1>6. PartialsSound'
  BY <1>1, <1>2, <1>3 DEF PartialsSound
<1>7. ActiveBacked'
  <2>1. SUFFICES ASSUME NEW n \in Projects, projects'[n].status = "active"
                 PROVE  (InitializedValid(n, projects[n].initial) \/ n \in damaged)'
    BY DEF ActiveBacked, RowsIn
  <2>2. \A i : InitializedValid(n, i)' <=> InitializedValid(n, i)
    BY <1>2 DEF InitializedValid, RepositoryValid
  <2>3. CASE n = p
    BY <1>2, <1>3, <2>1, <2>2, <2>3 DEF Writes
  <2>4. CASE n # p
    BY <1>1, <1>2, <1>3, <2>1, <2>2, <2>4 DEF RepositoriesMatchRows, ActiveBacked, RowsIn
  <2>5. QED
    BY <2>3, <2>4
<1>8. PinnedInitial'
  BY <1>4 DEF PinnedInitial, Rows, Fixed
<1>9. QuarantinedUnwanted'
  <2>1. SUFFICES ASSUME NEW o \in quarantine, NEW n \in Projects, n \in Rows',
                        projects'[n].action = "initialize", projects'[n].op = o
                 PROVE  FALSE
    BY <1>2 DEF QuarantinedUnwanted, Rows
  <2>2. o <= lastOp /\ o \in Nat
    <3>1. PICK owner : Owned(owner)
      BY <1>1 DEF OpsOwned
    <3>2. o <= lastOp /\ o \in OpIds
      BY <1>1, <3>1 DEF Owned, OwnedDisk, StoreTyped
    <3>3. QED
      BY <3>2 DEF OpIds
  <2>3. CASE n = p
    <3>1. row.action = "initialize" /\ row.op = o
      BY <1>3, <2>1, <2>3
    <3>2. o = lastOp + 1
      BY <3>1, NextOp
    <3>3. QED
      BY <1>3, <2>2, <3>2
  <2>4. CASE n # p
    BY <1>1, <1>3, <2>1, <2>4 DEF RepositoriesMatchRows, QuarantinedUnwanted, Rows
  <2>5. QED
    BY <2>3, <2>4
<1>10. QED
  BY <1>5, <1>6, <1>7, <1>8, <1>9 DEF DiskSound, RepositoriesMatchRows

\* A transaction keeps each operation id with one project.
LEMMA WriteOwned ==
    ASSUME PlaneInv, NEW p \in Projects, NEW row, Writes(p, row),
           NEW w \in Workers, Follows(p, row, calls[w])',
           \A v \in Workers \ {w} : calls'[v] = calls[v]
    PROVE  OpsOwned'
<1>1. PICK owner \in [OpIds -> Projects \cup {None}] : Owned(owner)
  BY DEF PlaneInv, RegistryInv, OpsOwned
<1>2. StoreTyped /\ lastOp \in Nat /\ RowsSound
  BY TypedParts, RegistryAssumption DEF PlaneInv, StoreTyped, RegistryInv
<1>3. \A n \in Projects : projects'[n] = IF n = p THEN row ELSE projects[n]
  BY WriteStays
<1>4. UNCHANGED <<finals, partials, quarantine>> /\ \A n \in Projects : Exists(n)' <=> Exists(n)
  BY DEF Writes, Exists
<1>5. CASE row.action = ""
  <2>1. lastOp' = lastOp /\ row.status # "creating"
    BY <1>5 DEF Writes
  <2>2. \A v \in Workers : Job(v)' => v # w
    BY <2>1 DEF Follows, Job
  <2>3. \A v \in Workers : Job(v)' => Job(v) /\ calls'[v] = calls[v]
    BY <2>2 DEF Job
  <2>4. Owned(owner)'
    BY <1>1, <1>3, <1>4, <1>5, <2>1, <2>3 DEF Owned, OwnedDisk
  <2>5. QED
    BY <2>4 DEF OpsOwned
<1>6. CASE row.action # ""
  <2>1. PICK m : m = lastOp + 1
    OBVIOUS
  <2>2. m \in OpIds /\ lastOp' = m /\ row.op = m /\ m \in 1..m
    BY <1>6, <2>1, NextOp
  <2>3. PICK new : new = [owner EXCEPT ![m] = p]
    OBVIOUS
  <2>4. /\ new \in [OpIds -> Projects \cup {None}]
        /\ new[m] = p /\ \A o \in OpIds : o # m => new[o] = owner[o]
    BY <2>2, <2>3
  <2>5. \A o \in OpIds : o <= lastOp => o <= m /\ o # m
    BY <1>2, <2>1 DEF OpIds
  <2>6. \A o \in 1..lastOp : o \in OpIds /\ o \in 1..m /\ o # m
    BY <1>2, <2>1, RegistryAssumption DEF OpIds, StoreTyped
  <2>7. OwnedDisk(new)'
    <3>1. OwnedDisk(owner) /\ quarantine \subseteq OpIds
      BY <1>1, <1>2 DEF Owned, StoreTyped
    <3>2. \A o \in OpIds : partials'[o] # NoPartial => o <= lastOp' /\ partials'[o].project = new[o]
      BY <1>4, <2>2, <2>4, <2>5, <3>1 DEF OwnedDisk
    <3>3. \A n \in Projects : Exists(n)' => finals'[n].op \in 1..lastOp' /\ new[finals'[n].op] = n
      BY <1>4, <2>2, <2>4, <2>6, <3>1 DEF OwnedDisk
    <3>4. \A o \in quarantine' : o <= lastOp'
      BY <1>4, <2>2, <2>5, <3>1 DEF OwnedDisk
    <3>5. QED
      BY <3>2, <3>3, <3>4 DEF OwnedDisk
  <2>8. ASSUME NEW n \in Projects, projects'[n].action # ""
        PROVE  projects'[n].op \in 1..lastOp' /\ new[projects'[n].op] = n
    BY <1>1, <1>3, <2>2, <2>4, <2>6, <2>8 DEF Owned
  <2>9. ASSUME NEW v \in Workers, Job(v)'
        PROVE  calls'[v].job.op \in 1..lastOp' /\ new[calls'[v].job.op] = calls'[v].job.project
    <3>1. CASE v = w
      <4>1. calls'[w].job.op = row.op /\ calls'[w].job.project = p
        BY <2>9, <3>1 DEF Follows, Job
      <4>2. QED
        BY <2>2, <2>4, <3>1, <4>1
    <3>2. CASE v # w
      <4>1. Job(v) /\ calls'[v] = calls[v]
        BY <2>9, <3>2 DEF Job
      <4>2. calls[v].job.op \in 1..lastOp /\ owner[calls[v].job.op] = calls[v].job.project
        BY <1>1, <4>1 DEF Owned
      <4>3. QED
        BY <2>2, <2>4, <2>6, <4>1, <4>2
    <3>3. QED
      BY <3>1, <3>2
  <2>10. Owned(new)'
    BY <2>7, <2>8, <2>9 DEF Owned
  <2>11. QED
    BY <2>4, <2>10 DEF OpsOwned
<1>7. QED
  BY <1>5, <1>6

\* A transaction that follows a row keeps all that is said of rows and jobs.
LEMMA WriteRegistry ==
    ASSUME PlaneInv, NEW p \in Projects, NEW row, Writes(p, row), phase' = phase,
           NEW w \in Workers, Follows(p, row, calls[w])',
           \A v \in Workers \ {w} : calls'[v] = calls[v],
           \A v \in Workers \ {w} : Current(v) => calls[v].job.project # p
    PROVE  RegistryInv' /\ StoreTyped'
<1>1. RegistryInv
  BY DEF PlaneInv
<1>2. DiskSound' /\ OpsOwned' /\ StoreTyped'
  BY WriteDisk, WriteOwned, WriteStays
<1>3. \A v \in Workers \ {w} : (Job(v)' <=> Job(v)) /\ (Current(v)' <=> Current(v))
  BY DEF Job, Current
<1>4. /\ \A n \in Projects : projects'[n] = IF n = p THEN row ELSE projects[n]
      /\ damaged' = damaged
  <2>1. damaged' = damaged
    BY DEF Writes
  <2>2. QED
    BY <2>1, WriteStays
<1>5. ASSUME NEW v \in Workers PROVE JobFacts(v)'
  <2>1. CASE v # w
    <3>1. PICK j : j = calls[v].job
      OBVIOUS
    <3>2. JobFacts(v) /\ calls'[v] = calls[v] /\ (Job(v)' <=> Job(v)) /\ (Current(v)' <=> Current(v))
      BY <1>1, <1>3, <2>1 DEF RegistryInv
    <3>3. Job(v) => Fixed(j.project, j.initial) /\ Fixed(j.project, j.initial)'
      BY <3>1, <3>2, WriteStays DEF JobFacts
    <3>4. Job(v) => (j.project \in Rows' => j.project \in Rows)
      BY <3>3, WriteStays
    <3>5. RepositoryValid(j.project, j.initial)' <=> RepositoryValid(j.project, j.initial)
      BY WriteStays
    <3>6. Current(v) => projects'[j.project] = projects[j.project]
      BY <1>4, <2>1, <3>1, <3>3 DEF Current, Fixed
    <3>7. QED
      BY <1>4, <3>1, <3>2, <3>3, <3>4, <3>5, <3>6 DEF JobFacts
  <2>2. CASE v = w
    <3>1. CASE ~Job(w)'
      BY <2>2, <3>1 DEF JobFacts, Current, Job
    <3>2. CASE Job(w)'
      <4>1. /\ calls'[w].job.project = p /\ calls'[w].job.op = row.op
            /\ calls'[w].job.initial = row.initial /\ calls'[w].job.action = row.action
            /\ row.status = "creating" /\ calls'[w].pc # "finish"
            /\ calls'[w].pc \in MakingPcs => row.action = "initialize"
        BY <3>2 DEF Follows, Job, MakingPcs
      <4>2. Fixed(calls[w].job.project, calls[w].job.initial)'
        BY <1>4, <4>1 DEF Fixed
      <4>3. QED
        BY <1>4, <2>2, <4>1, <4>2 DEF JobFacts
    <3>3. QED
      BY <3>1, <3>2
  <2>3. QED
    BY <2>1, <2>2
<1>6. ASSUME NEW h \in Handlers PROVE RepairFacts(h)'
  <2>1. h \in Workers /\ RepairFacts(h)
    BY <1>1 DEF RegistryInv, Workers
  <2>2. CASE h = w
    BY <2>2 DEF Follows, RepairFacts, JobPcs
  <2>3. CASE h # w
    BY <2>1, <2>3, WriteStays DEF RepairFacts
  <2>4. QED
    BY <2>2, <2>3
<1>7. JobsApart'
  <2>1. SUFFICES ASSUME NEW u \in Workers, NEW v \in Workers, u # v, Current(u)', Current(v)'
                 PROVE  calls'[u].job.project # calls'[v].job.project
    BY DEF JobsApart
  <2>2. Current(w)' => calls'[w].job.project = p
    BY DEF Current, Job, Follows
  <2>3. CASE u # w /\ v # w
    BY <1>1, <1>3, <2>1, <2>3 DEF RegistryInv, JobsApart
  <2>4. CASE u = w \/ v = w
    BY <1>3, <2>1, <2>2, <2>4
  <2>5. QED
    BY <2>3, <2>4
<1>8. QED
  BY <1>2, <1>5, <1>6, <1>7 DEF RegistryInv, DiskSound

\* A handler's transaction that goes on with the row it wrote.
LEMMA WriteMoves ==
    ASSUME PlaneInv, phase' = phase, load' = load,
           NEW p \in Projects, NEW row, Writes(p, row),
           NEW w \in Workers, NEW c, Proceeds(w, c), Follows(p, row, c),
           calls' = [calls EXCEPT ![w] = c],
           \A v \in Workers \ {w} : Current(v) => calls[v].job.project # p
    PROVE  PlaneKept
<1>1. CallsTyped /\ Located
  BY TypedParts DEF PlaneInv
<1>2. /\ CallsTyped' /\ Located' /\ calls'[w] = c
      /\ \A v \in Workers \ {w} : calls'[v] = calls[v]
  BY <1>1, WorkerMoves
<1>3. Follows(p, row, calls[w])'
  BY <1>2 DEF Follows
<1>4. RegistryInv' /\ StoreTyped'
  BY <1>2, <1>3, WriteRegistry
<1>5. QED
  BY <1>2, <1>4, TypedParts DEF PlaneKept

\* A transaction that writes the row of p and ends its call; the row has no
\* pending action afterwards.
LEMMA WriteReturns ==
    ASSUME PlaneInv, phase' = phase, load' = load,
           NEW p \in Projects, NEW row, Writes(p, row),
           NEW w \in Workers, Return(w),
           \A v \in Workers \ {w} : Current(v) => calls[v].job.project # p
    PROVE  PlaneKept
<1>1. PICK c : c = Idle
  OBVIOUS
<1>2. Proceeds(w, c) /\ Follows(p, row, c) /\ calls' = [calls EXCEPT ![w] = c]
  BY <1>1, EmptyTyped DEF Proceeds, Return, Follows, JobPcs
<1>3. QED
  BY <1>2, WriteMoves

\* Updates of several fields of a row.
Finishing(r, s, c, v) ==
    [r EXCEPT !.status = s, !.canonical = c, !.action = "", !.op = NoOp, !.version = v]
Restated(r, s, v) == [r EXCEPT !.status = s, !.version = v]
Advanced(r, c, v) == [r EXCEPT !.canonical = c, !.version = v]

\* A row is the record of its fields.
LEMMA RowOf ==
    ASSUME NEW s, s \in Statuses, NEW n, NEW a, a \in Actions, NEW o, o \in 0..MaxOps,
           NEW i, i \in Nat, NEW c, c \in Nat, NEW v, v \in Nat,
           NEW x, x = [status |-> s, name |-> n, action |-> a, op |-> o,
                       initial |-> i, canonical |-> c, version |-> v]
    PROVE  /\ Row(x)
           /\ x.status = s /\ x.name = n /\ x.action = a /\ x.op = o
           /\ x.initial = i /\ x.canonical = c /\ x.version = v
<1>1. /\ x.status = s /\ x.name = n /\ x.action = a /\ x.op = o
      /\ x.initial = i /\ x.canonical = c /\ x.version = v
  OBVIOUS
<1>2. QED
  BY <1>1 DEF Row

\* A finished action's row, field by field.
LEMMA FinishingIs ==
    ASSUME NEW r, NEW s \in Statuses, NEW c \in Nat, NEW v \in Nat, NEW x,
           Row(r), x = Finishing(r, s, c, v)
    PROVE  /\ Row(x)
           /\ x = [status |-> s, name |-> r.name, action |-> "", op |-> NoOp,
                   initial |-> r.initial, canonical |-> c, version |-> v]
<1>1. PICK r1 : r1 = [r EXCEPT !.status = s]
  OBVIOUS
<1>2. r1 = [status |-> s, name |-> r.name, action |-> r.action, op |-> r.op,
            initial |-> r.initial, canonical |-> r.canonical, version |-> r.version]
  BY <1>1 DEF Row
<1>3. PICK r2 : r2 = [r1 EXCEPT !.canonical = c]
  OBVIOUS
<1>4. r2 = [status |-> s, name |-> r.name, action |-> r.action, op |-> r.op,
            initial |-> r.initial, canonical |-> c, version |-> r.version]
  BY <1>2, <1>3
<1>5. PICK r3 : r3 = [r2 EXCEPT !.action = ""]
  OBVIOUS
<1>6. r3 = [status |-> s, name |-> r.name, action |-> "", op |-> r.op,
            initial |-> r.initial, canonical |-> c, version |-> r.version]
  BY <1>4, <1>5
<1>7. PICK r4 : r4 = [r3 EXCEPT !.op = NoOp]
  OBVIOUS
<1>8. r4 = [status |-> s, name |-> r.name, action |-> "", op |-> NoOp,
            initial |-> r.initial, canonical |-> c, version |-> r.version]
  BY <1>6, <1>7
<1>9. x = [r4 EXCEPT !.version = v]
  BY <1>1, <1>3, <1>5, <1>7 DEF Finishing
<1>10. x = [status |-> s, name |-> r.name, action |-> "", op |-> NoOp,
            initial |-> r.initial, canonical |-> c, version |-> v]
  BY <1>8, <1>9
<1>11. PICK a, o, i : a = "" /\ o = NoOp /\ i = r.initial
  OBVIOUS
<1>12. o \in 0..MaxOps
  <2>1. 0 \in 0..MaxOps
    BY RegistryAssumption
  <2>2. QED
    BY <1>11, <2>1 DEF NoOp
<1>13. a \in Actions /\ i \in Nat
  BY <1>11 DEF Actions, Row
<1>14. x = [status |-> s, name |-> r.name, action |-> a, op |-> o,
            initial |-> i, canonical |-> c, version |-> v]
  BY <1>10, <1>11
<1>15. Row(x)
  BY <1>12, <1>13, <1>14, RowOf
<1>16. QED
  BY <1>10, <1>15

\* A row in another state, field by field.
LEMMA RestatedIs ==
    ASSUME NEW r, NEW s \in Statuses, NEW v \in Nat, NEW x,
           Row(r), x = Restated(r, s, v)
    PROVE  /\ Row(x)
           /\ x = [status |-> s, name |-> r.name, action |-> r.action, op |-> r.op,
                   initial |-> r.initial, canonical |-> r.canonical, version |-> v]
<1>1. PICK r1 : r1 = [r EXCEPT !.status = s]
  OBVIOUS
<1>2. r1 = [status |-> s, name |-> r.name, action |-> r.action, op |-> r.op,
            initial |-> r.initial, canonical |-> r.canonical, version |-> r.version]
  BY <1>1 DEF Row
<1>3. x = [r1 EXCEPT !.version = v]
  BY <1>1 DEF Restated
<1>4. x = [status |-> s, name |-> r.name, action |-> r.action, op |-> r.op,
           initial |-> r.initial, canonical |-> r.canonical, version |-> v]
  BY <1>2, <1>3
<1>5. r.op \in 0..MaxOps /\ r.action \in Actions /\ r.initial \in Nat /\ r.canonical \in Nat
  BY DEF Row
<1>6. QED
  BY <1>4, <1>5, RowOf

\* A row with another canonical commit, field by field.
LEMMA AdvancedIs ==
    ASSUME NEW r, NEW c \in Nat, NEW v \in Nat, NEW x,
           Row(r), x = Advanced(r, c, v)
    PROVE  /\ Row(x)
           /\ x = [status |-> r.status, name |-> r.name, action |-> r.action, op |-> r.op,
                   initial |-> r.initial, canonical |-> c, version |-> v]
<1>1. PICK r1 : r1 = [r EXCEPT !.canonical = c]
  OBVIOUS
<1>2. r1 = [status |-> r.status, name |-> r.name, action |-> r.action, op |-> r.op,
            initial |-> r.initial, canonical |-> c, version |-> r.version]
  BY <1>1 DEF Row
<1>3. x = [r1 EXCEPT !.version = v]
  BY <1>1 DEF Advanced
<1>4. x = [status |-> r.status, name |-> r.name, action |-> r.action, op |-> r.op,
           initial |-> r.initial, canonical |-> c, version |-> v]
  BY <1>2, <1>3
<1>5. r.op \in 0..MaxOps /\ r.action \in Actions /\ r.initial \in Nat /\ r.status \in Statuses
  BY DEF Row
<1>6. QED
  BY <1>4, <1>5, RowOf

\* A job's transaction: the row becomes active, or an error.
LEMMA FinishPlane ==
    ASSUME PlaneInv, NEW w \in Workers, FinishJob(w) PROVE PlaneKept
<1>1. PICK j, p, r : j = calls[w].job /\ p = j.project /\ r = projects[p]
  OBVIOUS
<1>2. /\ phase' = phase /\ load' = load /\ Return(w) /\ CanTransact(w)
      /\ calls[w].pc \in {"finish", "fail"}
      /\ r.status = "creating" /\ r.op = j.op
      /\ UNCHANGED <<finals, partials, quarantine, source, damaged, lastOp>>
  BY <1>1 DEF FinishJob, finishProjectAction, jobFrame, repoVars
<1>3. Job(w) /\ Current(w)
  BY <1>2 DEF Job, JobPcs, Current, CanTransact
<1>4. StoreTyped /\ RegistryInv
  BY TypedParts DEF PlaneInv
<1>5. j \in Jobs /\ Fixed(p, j.initial) /\ p \in Projects
  BY <1>1, <1>3, JobKnown DEF Fixed
<1>6. Row(r) /\ r.initial = j.initial /\ j.fact \in Nat /\ r.version \in Nat /\ r.canonical \in Nat
  BY <1>1, <1>2, <1>4, <1>5 DEF StoreTyped, Fixed, Row, Jobs
<1>7. PICK s, c : /\ s = IF calls[w].pc = "finish" THEN "active" ELSE "error"
                  /\ c = IF calls[w].pc = "finish" THEN j.fact ELSE r.canonical
  OBVIOUS
<1>8. PICK row, v : v = r.version + 1 /\ row = Finishing(r, s, c, v)
  OBVIOUS
<1>9. projects' = [projects EXCEPT ![p] = row]
  BY <1>1, <1>7, <1>8 DEF FinishJob, finishProjectAction, Finishing
<1>10. s \in {"active", "error"} /\ s \in Statuses /\ c \in Nat /\ v \in Nat
  BY <1>6, <1>7, <1>8 DEF Statuses
<1>11. Row(row) /\ row.initial = r.initial /\ row.status = s /\ row.action = ""
  <2>1. Row(r) /\ s \in Statuses /\ c \in Nat /\ v \in Nat /\ row = Finishing(r, s, c, v)
    BY <1>6, <1>8, <1>10
  <2>2. Row(row)
    BY <2>1, FinishingIs
  <2>3. row = [status |-> s, name |-> r.name, action |-> "", op |-> NoOp,
               initial |-> r.initial, canonical |-> c, version |-> v]
    BY <2>1, FinishingIs
  <2>4. QED
    BY <2>2, <2>3
<1>12. s = "active" => InitializedValid(p, row.initial) \/ p \in damaged
  <2>1. SUFFICES ASSUME s = "active" PROVE InitializedValid(p, j.initial) \/ p \in damaged
    BY <1>6, <1>11
  <2>2. calls[w].pc = "finish"
    BY <1>7, <2>1
  <2>3. p \in Rows
    BY <1>1, <1>2, <1>5 DEF Rows
  <2>4. RepositoryValid(p, j.initial) \/ p \in damaged
    BY <1>1, <1>3, <1>4, <2>2, <2>3 DEF RegistryInv, JobFacts
  <2>5. QED
    BY <1>4, <1>5, <2>4 DEF RegistryInv, RowsSound, RepositoryValid, InitializedValid
<1>13. Writes(p, row)
  BY <1>1, <1>2, <1>9, <1>10, <1>11, <1>12 DEF Writes, Succeeds
<1>14. \A u \in Workers \ {w} : Current(u) => calls[u].job.project # p
  BY <1>1, <1>3, <1>4 DEF RegistryInv, JobsApart
<1>15. QED
  BY <1>2, <1>5, <1>13, <1>14, WriteReturns

\* A process that has the lock, listens not yet and does not take up jobs is
\* the only one at work on rows.
LEMMA NoCurrentJobs ==
    ASSUME PlaneInv, NEW d \in Daemons, phase[d] \in LockHeld, phase[d] \notin Requested,
           NEW v \in Workers, phase[d] = "reconcile" => v # d
    PROVE  ~Current(v)
<1>1. SUFFICES ASSUME Current(v) PROVE FALSE
  OBVIOUS
<1>2. calls[v] # Idle /\ phase[calls[v].at] \in LockHeld
  BY <1>1, EmptyTyped DEF Current, Job, JobPcs
<1>3. calls[v].at \in Daemons
  BY <1>2 DEF PlaneInv, Located, Workers
<1>4. calls[v].at = d
  BY <1>2, <1>3 DEF PlaneInv, ProcessInv, LockExclusive
<1>5. CASE v \in Handlers
  BY <1>2, <1>4, <1>5 DEF PlaneInv, Located
<1>6. CASE v \in Daemons
  BY <1>2, <1>4, <1>6 DEF PlaneInv, Located
<1>7. QED
  BY <1>5, <1>6 DEF Workers

TodoTyped == todo \in [Daemons -> SUBSET Projects]

\* A start verifies the active projects.
LEMMA ReconcileActivePlane ==
    ASSUME PlaneInv, TodoTyped, NEW d \in Daemons, ReconcileActive(d) PROVE PlaneKept
<1>1. PICK p \in todo[d] :
        \/ RepositoryValid(p, projects[p].initial) /\ finishActiveVerification(p, TRUE)
        \/ finishActiveVerification(p, FALSE)
  BY DEF ReconcileActive
<1>2. p \in Projects /\ d \in Workers
  BY DEF TodoTyped, Workers
<1>3. CallsTyped /\ Located /\ StoreTyped /\ RegistryInv
  BY TypedParts DEF PlaneInv
<1>4. /\ phase[d] = "verify" /\ phase' = phase /\ load' = load /\ calls' = calls
      /\ UNCHANGED <<finals, partials, quarantine, source, damaged, lastOp>>
  BY <1>1 DEF ReconcileActive, finishActiveVerification, repoVars
<1>5. PICK r : r = projects[p]
  OBVIOUS
<1>6. Row(r) /\ r.version \in Nat /\ r.status = "active" /\ finals[p].canonical \in Nat
  <2>1. r.status = "active"
    BY <1>1, <1>5 DEF finishActiveVerification
  <2>2. QED
    BY <1>2, <1>3, <1>5, <2>1 DEF StoreTyped, Row, Finals
<1>7. r.action = "" /\ (InitializedValid(p, r.initial) \/ p \in damaged)
  BY <1>2, <1>3, <1>5, <1>6
     DEF RegistryInv, RowsSound, RepositoriesMatchRows, ActiveBacked, RowsIn
<1>8. PICK v, c, s : v = r.version + 1 /\ c = finals[p].canonical /\ s = "error"
  OBVIOUS
<1>9. v \in Nat /\ c \in Nat /\ s \in Statuses
  BY <1>6, <1>8 DEF Statuses
<1>10. PICK row : /\ row \in {r, Restated(r, s, v), Advanced(r, c, v)}
                  /\ projects' = [projects EXCEPT ![p] = row]
  BY <1>1, <1>5, <1>8 DEF finishActiveVerification, Restated, Advanced
<1>11. /\ Row(row) /\ row.initial = r.initial /\ row.status \in {"active", "error"}
       /\ row.action = ""
  <2>1. CASE row = r
    BY <1>6, <1>7, <2>1
  <2>2. CASE row = Restated(r, s, v)
    <3>1. /\ Row(row)
          /\ row = [status |-> s, name |-> r.name, action |-> r.action, op |-> r.op,
                    initial |-> r.initial, canonical |-> r.canonical, version |-> v]
      BY <1>6, <1>9, <2>2, RestatedIs
    <3>2. QED
      BY <1>7, <1>8, <3>1
  <2>3. CASE row = Advanced(r, c, v)
    <3>1. /\ Row(row)
          /\ row = [status |-> r.status, name |-> r.name, action |-> r.action, op |-> r.op,
                    initial |-> r.initial, canonical |-> c, version |-> v]
      BY <1>6, <1>9, <2>3, AdvancedIs
    <3>2. QED
      BY <1>6, <1>7, <3>1
  <2>4. QED
    BY <1>10, <2>1, <2>2, <2>3
<1>12. Writes(p, row)
  BY <1>4, <1>5, <1>6, <1>7, <1>10, <1>11 DEF Writes, Succeeds
<1>13. calls[d] = Idle
  BY <1>3, <1>4 DEF Located
<1>14. Follows(p, row, calls[d])'
  BY <1>4, <1>13, EmptyTyped DEF Follows, JobPcs
<1>15. \A u \in Workers \ {d} : ~Current(u)
  BY <1>4, NoCurrentJobs DEF Requested
<1>16. RegistryInv' /\ StoreTyped'
  BY <1>2, <1>4, <1>12, <1>14, <1>15, WriteRegistry
<1>17. CallsTyped' /\ Located'
  BY <1>3, <1>4, CallsStay
<1>18. QED
  BY <1>16, <1>17, TypedParts DEF PlaneKept

\* Only a job of the process with the lock waits for a creating row.
LEMMA NobodyWaits ==
    ASSUME PlaneInv, NEW p, projects[p].status # "creating", NEW v \in Workers, Current(v)
    PROVE  calls[v].job.project # p
BY DEF PlaneInv, RegistryInv, JobFacts

\* A project is archived or deleted.
LEMMA TransactProjectPlane ==
    ASSUME PlaneInv, NEW h \in Handlers, TransactProject(h) PROVE PlaneKept
<1>1. PICK q, p, r : q = calls[h].q /\ p = q.project /\ r = projects[p]
  OBVIOUS
<1>2. h \in Workers /\ StoreTyped /\ RegistryInv
  BY TypedParts DEF PlaneInv, Workers
<1>3. /\ phase' = phase /\ load' = load /\ Return(h)
      /\ ArchiveProject(q) \/ DeleteProject(q)
  BY <1>1 DEF TransactProject, requestFrame
<1>4. /\ p \in Projects /\ r.action = "" /\ r.status \in {"active", "error", "archived"}
      /\ UNCHANGED <<finals, partials, quarantine, source, damaged, lastOp>>
  BY <1>1, <1>3 DEF ArchiveProject, DeleteProject, Rows, repoVars
<1>5. Row(r) /\ r.version \in Nat
  BY <1>1, <1>2, <1>4 DEF StoreTyped, Row
<1>6. PICK row : /\ projects' = [projects EXCEPT ![p] = row]
                 /\ Row(row) /\ row.action = "" /\ row.status \in {"archived", "deleted"}
                 /\ row.status = "deleted" \/ row.initial = r.initial
  <2>1. CASE ArchiveProject(q)
    <3>1. PICK row, s, v : s = "archived" /\ v = r.version + 1 /\ row = Restated(r, s, v)
      OBVIOUS
    <3>2. s \in Statuses /\ v \in Nat
      BY <1>5, <3>1 DEF Statuses
    <3>3. projects' = [projects EXCEPT ![p] = row]
      BY <1>1, <1>2, <1>4, <2>1, <3>1 DEF ArchiveProject, Restated, StoreTyped
    <3>4. Row(row)
      BY <1>5, <3>1, <3>2, RestatedIs
    <3>5. row = [status |-> s, name |-> r.name, action |-> r.action, op |-> r.op,
                 initial |-> r.initial, canonical |-> r.canonical, version |-> v]
      BY <1>5, <3>1, <3>2, RestatedIs
    <3>6. row.action = r.action /\ row.status = s /\ row.initial = r.initial
      BY <3>5
    <3>7. QED
      BY <1>4, <3>1, <3>3, <3>4, <3>6
  <2>2. CASE DeleteProject(q)
    <3>1. PICK row : row = [NoProject EXCEPT !.status = "deleted"]
      OBVIOUS
    <3>2. row = [status |-> "deleted", name |-> None, action |-> "", op |-> NoOp,
                 initial |-> NoCommit, canonical |-> NoCommit, version |-> 0]
      BY <3>1 DEF NoProject
    <3>3. 0 \in 0..MaxOps
      BY RegistryAssumption
    <3>4. Row(row) /\ row.action = "" /\ row.status = "deleted"
      BY <3>2, <3>3 DEF Row, Statuses, Actions, NoOp, NoCommit
    <3>5. projects' = [projects EXCEPT ![p] = row]
      BY <1>1, <2>2, <3>1 DEF DeleteProject
    <3>6. QED
      BY <3>4, <3>5
  <2>3. QED
    BY <1>3, <2>1, <2>2
<1>7. Writes(p, row)
  BY <1>1, <1>4, <1>6 DEF Writes, Succeeds
<1>8. \A v \in Workers \ {h} : Current(v) => calls[v].job.project # p
  BY <1>1, <1>4, NobodyWaits
<1>9. QED
  BY <1>2, <1>3, <1>4, <1>7, <1>8, WriteReturns

\* The intent of a row, as a job.
LEMMA IntentIs ==
    ASSUME NEW p \in Projects, NEW row, Row(row), NEW j, j = projectIntent(p, row)
    PROVE  /\ j \in Jobs /\ j.project = p /\ j.op = row.op /\ j.initial = row.initial
           /\ j.action = row.action
BY DEF projectIntent, Jobs, Row, NoCommit

\* A registration inserts its row and goes on with the job it asks for.
LEMMA InsertPlane ==
    ASSUME PlaneInv, NEW h \in Handlers, InsertProject(h) PROVE PlaneKept
<1>1. PICK q, i : q = calls[h].q /\ i = calls[h].job.initial
  OBVIOUS
<1>2. PICK p \in Projects :
        /\ AddProject(q, i, p)
        /\ calls' = [calls EXCEPT ![h].pc = "init", ![h].job = projectIntent(p, projects'[p])]
  BY <1>1 DEF InsertProject
<1>3. /\ h \in Workers /\ h \notin Daemons /\ StoreTyped /\ CallsTyped /\ RegistryInv
      /\ Frame(calls[h])
  BY TypedParts, ControlPlaneAssumption DEF PlaneInv, Workers, CallsTyped
<1>4. phase' = phase /\ load' = load /\ Running(h)
  BY DEF InsertProject, requestFrame, CanTransact
<1>5. PICK row, o : /\ o = lastOp + 1
                    /\ row = [status |-> "creating", name |-> q.name, action |-> "initialize",
                              op |-> o, initial |-> i, canonical |-> NoCommit, version |-> 1]
  OBVIOUS
<1>6. /\ projects' = [projects EXCEPT ![p] = row] /\ projects[p].status = "none"
      /\ lastOp < MaxOps /\ lastOp' = lastOp + 1
      /\ UNCHANGED <<finals, partials, quarantine, source, damaged>>
  BY <1>2, <1>5 DEF AddProject, repoVars
<1>7. o \in 0..MaxOps /\ i \in Nat
  <2>1. lastOp \in Nat /\ MaxOps \in Nat
    BY <1>3, RegistryAssumption DEF StoreTyped
  <2>2. i \in Nat
    BY <1>1, <1>3 DEF Frame, Jobs
  <2>3. QED
    BY <1>5, <1>6, <2>1, <2>2
<1>8. /\ Row(row) /\ row.status = "creating" /\ row.action = "initialize" /\ row.op = o
      /\ row.initial = i /\ row.canonical = NoCommit
  BY <1>5, <1>7 DEF Row, Statuses, Actions, NoCommit
<1>9. Writes(p, row)
  BY <1>5, <1>6, <1>8 DEF Writes, Succeeds
<1>10. PICK j : j = projectIntent(p, row)
  OBVIOUS
<1>11. /\ j \in Jobs /\ j.project = p /\ j.op = row.op /\ j.initial = row.initial
       /\ j.action = row.action
  BY <1>8, <1>10, IntentIs
<1>12. PICK c : c = [pc |-> "init", at |-> calls[h].at, q |-> calls[h].q, seen |-> calls[h].seen,
                     job |-> j]
  OBVIOUS
<1>13. calls' = [calls EXCEPT ![h] = c]
  <2>1. projects'[p] = row
    BY <1>3, <1>6 DEF StoreTyped
  <2>2. calls' = [calls EXCEPT ![h] = WithJob(calls[h], "init", j)]
    BY <1>2, <1>3, <1>10, <2>1 DEF CallsTyped, WithJob
  <2>3. WithJob(calls[h], "init", j) = c
    BY <1>3, <1>12, Updated DEF Frame
  <2>4. QED
    BY <2>2, <2>3
<1>14. /\ Frame(c) /\ c.pc = "init" /\ c.at = calls[h].at /\ c.q = calls[h].q /\ c.job = j
  BY <1>3, <1>11, <1>12 DEF Frame, Pcs, JobPcs
<1>15. Proceeds(h, c)
  BY <1>3, <1>4, <1>14 DEF Proceeds, Running
<1>16. Follows(p, row, c)
  BY <1>8, <1>11, <1>14 DEF Follows
<1>17. \A v \in Workers \ {h} : Current(v) => calls[v].job.project # p
  BY <1>6, NobodyWaits
<1>18. QED
  BY <1>3, <1>4, <1>9, <1>13, <1>15, <1>16, <1>17, WriteMoves

\* A repair writes its row, if it is still the one that was read.
LEMMA UpdatePlane ==
    ASSUME PlaneInv, NEW h \in Handlers, UpdateProject(h) PROVE PlaneKept
<1>1. PICK q, p, seen, a : /\ q = calls[h].q /\ p = q.project /\ seen = calls[h].seen
                           /\ a = calls[h].job.action
  OBVIOUS
<1>2. /\ h \in Workers /\ h \notin Daemons /\ StoreTyped /\ CallsTyped /\ RegistryInv
      /\ Frame(calls[h])
  BY TypedParts, ControlPlaneAssumption DEF PlaneInv, Workers, CallsTyped
<1>3. /\ phase' = phase /\ load' = load /\ Running(h) /\ calls[h].pc = "update"
      /\ RepairProject(q, seen, a)
      /\ calls' = [calls EXCEPT ![h].pc = IF a = "verify" THEN "verify" ELSE "init",
                                ![h].seen = NoProject,
                                ![h].job = projectIntent(p, projects'[p])]
  BY <1>1 DEF UpdateProject, requestFrame, CanTransact
<1>4. /\ Fixed(p, seen.initial) /\ p \in Projects /\ a \in {"initialize", "verify"}
      /\ a = "initialize" => seen.canonical = NoCommit
  <2>1. RepairFacts(h)
    BY <1>2 DEF RegistryInv
  <2>2. a \in Actions
    BY <1>1, <1>2 DEF Frame, Jobs
  <2>3. QED
    BY <1>1, <1>3, <2>1, <2>2 DEF RepairFacts, Fixed, Actions
<1>5. /\ Row(seen) /\ seen.initial \in Nat /\ seen.canonical \in Nat /\ seen.version \in Nat
  BY <1>1, <1>2 DEF Frame, Row
<1>6. PICK row, o, v :
        /\ o = lastOp + 1 /\ v = seen.version + 1
        /\ row = [status |-> "creating", name |-> seen.name, action |-> a, op |-> o,
                  initial |-> seen.initial, canonical |-> seen.canonical, version |-> v]
  OBVIOUS
<1>7. /\ projects' = [projects EXCEPT ![p] = row] /\ projects[p].status = "error"
      /\ lastOp < MaxOps /\ lastOp' = lastOp + 1
      /\ UNCHANGED <<finals, partials, quarantine, source, damaged>>
  BY <1>1, <1>3, <1>6 DEF RepairProject, repoVars
<1>8. o \in 0..MaxOps /\ v \in Nat
  <2>1. lastOp \in Nat /\ MaxOps \in Nat
    BY <1>2, RegistryAssumption DEF StoreTyped
  <2>2. QED
    BY <1>5, <1>6, <1>7, <2>1
<1>9. /\ Row(row) /\ row.status = "creating" /\ row.action = a /\ row.op = o
      /\ row.initial = seen.initial /\ row.canonical = seen.canonical
  BY <1>4, <1>5, <1>6, <1>8 DEF Row, Statuses, Actions
<1>10. Writes(p, row)
  <2>1. projects[p].initial = seen.initial
    BY <1>4, <1>7 DEF Fixed
  <2>2. QED
    BY <1>4, <1>6, <1>7, <1>9, <2>1 DEF Writes, Succeeds
<1>11. PICK j : j = projectIntent(p, row)
  OBVIOUS
<1>12. /\ j \in Jobs /\ j.project = p /\ j.op = row.op /\ j.initial = row.initial
       /\ j.action = row.action
  BY <1>4, <1>9, <1>11, IntentIs
<1>13. PICK pc \in {"verify", "init"} : pc = IF a = "verify" THEN "verify" ELSE "init"
  OBVIOUS
<1>14. PICK c : c = [pc |-> pc, at |-> calls[h].at, q |-> calls[h].q, seen |-> NoProject, job |-> j]
  OBVIOUS
<1>15. calls' = [calls EXCEPT ![h] = c]
  <2>1. projects'[p] = row
    BY <1>2, <1>4, <1>7 DEF StoreTyped
  <2>2. calls' = [calls EXCEPT ![h] = WithSeen(calls[h], pc, NoProject, j)]
    BY <1>2, <1>3, <1>11, <1>13, <2>1 DEF CallsTyped, WithSeen
  <2>3. WithSeen(calls[h], pc, NoProject, j) = c
    BY <1>2, <1>14, Updated DEF Frame
  <2>4. QED
    BY <2>2, <2>3
<1>16. /\ Frame(c) /\ c.pc = pc /\ c.at = calls[h].at /\ c.q = calls[h].q /\ c.job = j
  BY <1>2, <1>12, <1>13, <1>14, EmptyTyped DEF Frame, Pcs, JobPcs
<1>17. Proceeds(h, c)
  BY <1>2, <1>3, <1>13, <1>16 DEF Proceeds, Running
<1>18. Follows(p, row, c)
  BY <1>4, <1>9, <1>12, <1>13, <1>16 DEF Follows
<1>19. \A u \in Workers \ {h} : Current(u) => calls[u].job.project # p
  BY <1>7, NobodyWaits
<1>20. QED
  BY <1>2, <1>3, <1>4, <1>10, <1>15, <1>17, <1>18, <1>19, WriteMoves

\* A repair reads the row of a project in error.
LEMMA ReadPlane ==
    ASSUME PlaneInv, NEW h \in Handlers, ReadProject(h) PROVE PlaneKept
<1>1. PICK q, p, r : q = calls[h].q /\ p = q.project /\ r = projects[p]
  OBVIOUS
<1>2. /\ h \in Workers /\ h \notin Daemons /\ StoreTyped /\ CallsTyped /\ Located /\ RegistryInv
      /\ Frame(calls[h])
  BY TypedParts, ControlPlaneAssumption DEF PlaneInv, Workers, CallsTyped
<1>3. phase' = phase /\ load' = load /\ Running(h) /\ calls[h].pc = "read" /\ UNCHANGED registryVars
  BY DEF ReadProject, requestFrame, CanTransact
<1>4. CASE Return(h)
  BY <1>2, <1>3, <1>4, ReturnKeeps
<1>5. CASE ~Return(h)
  <2>1. /\ r.status = "error"
        /\ calls' = [calls EXCEPT ![h].pc = "update", ![h].seen = projects[p],
                                  ![h].job.action = RepairAction(projects[p], Exists(p))]
    BY <1>1, <1>5 DEF ReadProject
  <2>2. q.op = "project.repair" /\ q \in load.requests /\ load \in Workloads
    BY <1>1, <1>2, <1>3 DEF Located, Running, CallsTyped
  <2>3. p \in Projects
    BY <1>1, <2>2, ControlPlaneAssumption DEF Named
  <2>4. Row(r)
    BY <1>1, <1>2, <2>3 DEF StoreTyped
  <2>5. PICK a : a = RepairAction(r, Exists(p))
    OBVIOUS
  <2>6. a \in {"initialize", "verify"} /\ (a = "initialize" => r.canonical = NoCommit)
    BY <2>5 DEF RepairAction
  <2>7. PICK j, k : j = calls[h].job /\ k = [j EXCEPT !.action = a]
    OBVIOUS
  <2>8. k \in Jobs /\ k.action = a
    BY <1>2, <2>6, <2>7 DEF Frame, Jobs, Actions
  <2>9. PICK c : c = [pc |-> "update", at |-> calls[h].at, q |-> calls[h].q, seen |-> r, job |-> k]
    OBVIOUS
  <2>10. calls' = [calls EXCEPT ![h] = c]
    <3>1. calls' = [calls EXCEPT ![h] = WithSeen(calls[h], "update", r, k)]
      <4>1. calls' = [calls EXCEPT ![h].pc = "update", ![h].seen = r, ![h].job.action = a]
        BY <1>1, <2>1, <2>5
      <4>2. QED
        BY <1>2, <2>7, <4>1 DEF CallsTyped, WithSeen
    <3>2. WithSeen(calls[h], "update", r, k) = c
      BY <1>2, <2>9, Updated DEF Frame
    <3>3. QED
      BY <3>1, <3>2
  <2>11. /\ Frame(c) /\ c.pc = "update" /\ c.at = calls[h].at /\ c.q = q /\ c.job = k /\ c.seen = r
    BY <1>1, <1>2, <2>4, <2>8, <2>9 DEF Frame, Pcs
  <2>12. Proceeds(h, c)
    BY <1>1, <1>2, <1>3, <2>11 DEF Proceeds, Running
  <2>13. /\ CallsTyped' /\ Located' /\ calls'[h] = c
         /\ \A v \in Workers \ {h} : calls'[v] = calls[v]
    BY <1>2, <1>3, <2>10, <2>12, WorkerMoves
  <2>14. RepairFacts(h)'
    <3>1. Fixed(p, r.initial)
      BY <1>1, <2>1, <2>3 DEF Fixed
    <3>2. Fixed(p, r.initial)'
      BY <1>3, <3>1, DiskStays
    <3>3. Fixed(calls[h].q.project, calls[h].seen.initial)'
      BY <1>1, <2>11, <2>13, <3>2
    <3>4. QED
      BY <2>2, <2>6, <2>8, <2>11, <2>13, <3>3 DEF RepairFacts
  <2>15. \A v \in Workers : calls'[v] = calls[v] \/ (calls'[v].pc \notin JobPcs /\ RepairFacts(v)')
    BY <2>11, <2>13, <2>14 DEF JobPcs
  <2>16. \A v \in Workers : Current(v)' => Current(v)
    BY <1>3, <2>11, <2>13 DEF Current, Job, JobPcs
  <2>17. RegistryInv'
    BY <1>2, <1>3, <2>15, <2>16, StandingBy
  <2>18. QED
    BY <1>2, <1>3, <2>13, <2>17, DiskStays, TypedParts DEF PlaneKept
<1>6. QED
  BY <1>4, <1>5

\* A start takes up the pending action of a creating project.
LEMMA ReconcileCreatingPlane ==
    ASSUME PlaneInv, NEW d \in Daemons, ReconcileCreating(d) PROVE PlaneKept
<1>1. PICK p \in RowsIn("creating") :
        calls' = [calls EXCEPT ![d] =
            [Idle EXCEPT !.pc = IF projects[p].action = "verify" THEN "verify" ELSE "init",
                         !.at = d, !.job = projectIntent(p, projects[p])]]
  BY DEF ReconcileCreating
<1>2. /\ d \in Workers /\ d \notin Handlers /\ StoreTyped /\ CallsTyped /\ Located /\ RegistryInv
  BY TypedParts, ControlPlaneAssumption DEF PlaneInv, Workers
<1>3. /\ phase[d] = "reconcile" /\ calls[d] = Idle /\ phase' = phase /\ load' = load
      /\ UNCHANGED registryVars
  BY DEF ReconcileCreating, dataVars
<1>4. PICK r : r = projects[p]
  OBVIOUS
<1>5. /\ p \in Projects /\ r.status = "creating" /\ Row(r) /\ r.action \in {"initialize", "verify"}
  BY <1>2, <1>4 DEF RowsIn, StoreTyped, Row, Actions, RegistryInv, RowsSound
<1>6. PICK j, pc : /\ j = projectIntent(p, r)
                   /\ pc = IF r.action = "verify" THEN "verify" ELSE "init"
  OBVIOUS
<1>7. /\ j \in Jobs /\ j.project = p /\ j.op = r.op /\ j.initial = r.initial /\ j.action = r.action
  BY <1>5, <1>6, IntentIs
<1>8. PICK c : c = [pc |-> pc, at |-> d, q |-> None, seen |-> NoProject, job |-> j]
  OBVIOUS
<1>9. calls' = [calls EXCEPT ![d] = c]
  <2>1. calls' = [calls EXCEPT ![d] = WithOwner(Idle, pc, d, j)]
    BY <1>1, <1>4, <1>6 DEF WithOwner
  <2>2. WithOwner(Idle, pc, d, j) = c
    BY <1>8, EmptyTyped, Updated DEF Frame
  <2>3. QED
    BY <2>1, <2>2
<1>10. /\ c.pc = pc /\ c.at = d /\ c.job = j /\ Frame(c)
       /\ pc \in JobPcs /\ pc # "finish" /\ (pc \in MakingPcs => r.action = "initialize")
  BY <1>5, <1>6, <1>7, <1>8, EmptyTyped DEF Frame, Pcs, JobPcs, MakingPcs
<1>11. \A v \in Workers : calls'[v] = IF v = d THEN c ELSE calls[v]
  BY <1>2, <1>9 DEF CallsTyped
<1>12. CallsTyped'
  <2>1. calls' = [v \in Workers |-> calls'[v]]
    BY <1>2, <1>9 DEF CallsTyped
  <2>2. ASSUME NEW v \in Workers PROVE Frame(calls[v])'
    BY <1>2, <1>3, <1>10, <1>11 DEF CallsTyped, Frame
  <2>3. QED
    BY <1>2, <1>3, <2>1, <2>2 DEF CallsTyped
<1>13. Located'
  <2>1. ASSUME NEW e \in Daemons, calls'[e] # Idle
        PROVE  calls'[e].at = e /\ phase'[e] = "reconcile" /\ calls'[e].pc \in JobPcs
    BY <1>2, <1>3, <1>10, <1>11, <2>1 DEF Located, Workers
  <2>2. \A h \in Handlers : calls'[h] = calls[h]
    BY <1>2, <1>11 DEF Workers
  <2>3. ASSUME NEW v \in Workers
        PROVE  /\ calls'[v].pc = "idle" => calls'[v] = Idle
               /\ calls'[v].pc = "read" => calls'[v].q.op = "project.repair"
    BY <1>2, <1>10, <1>11 DEF Located, JobPcs
  <2>4. QED
    BY <1>2, <1>3, <2>1, <2>2, <2>3 DEF Located
<1>14. \A v \in Workers \ {d} : calls'[v] = calls[v] /\ (Job(v)' <=> Job(v)) /\ ~Current(v)'
  <2>1. \A v \in Workers \ {d} : ~Current(v)
    BY <1>3, NoCurrentJobs DEF Requested
  <2>2. QED
    BY <1>3, <1>11, <2>1 DEF Job, Current
<1>15. DiskSound'
  BY <1>2, <1>3, DiskStays DEF RegistryInv, DiskSound
<1>16. ASSUME NEW v \in Workers PROVE JobFacts(v)'
  <2>1. CASE v = d
    <3>1. Fixed(p, r.initial)
      BY <1>4, <1>5 DEF Fixed
    <3>2. Fixed(p, r.initial)'
      BY <1>3, <3>1, DiskStays
    <3>3. calls'[v] = c /\ projects'[p] = r
      BY <1>3, <1>4, <1>11, <2>1 DEF registryVars
    <3>4. Fixed(calls[v].job.project, calls[v].job.initial)'
      BY <1>7, <1>10, <3>2, <3>3
    <3>5. QED
      BY <1>5, <1>7, <1>10, <3>3, <3>4 DEF JobFacts
  <2>2. CASE v # d
    <3>1. JobFacts(v) /\ calls'[v] = calls[v] /\ (Job(v)' <=> Job(v)) /\ ~Current(v)'
      BY <1>2, <1>14, <2>2 DEF RegistryInv
    <3>2. QED
      BY <1>3, <3>1, DiskStays DEF JobFacts, registryVars
  <2>3. QED
    BY <2>1, <2>2
<1>17. ASSUME NEW h \in Handlers PROVE RepairFacts(h)'
  <2>1. calls'[h] = calls[h]
    BY <1>2, <1>14 DEF Workers
  <2>2. QED
    BY <1>2, <1>3, <2>1, DiskStays DEF RegistryInv, RepairFacts
<1>18. JobsApart'
  BY <1>14 DEF JobsApart
<1>19. OpsOwned'
  <2>1. PICK owner \in [OpIds -> Projects \cup {None}] : Owned(owner)
    BY <1>2 DEF RegistryInv, OpsOwned
  <2>2. ASSUME NEW v \in Workers, Job(v)'
        PROVE  calls'[v].job.op \in 1..lastOp' /\ owner[calls'[v].job.op] = calls'[v].job.project
    <3>1. CASE v = d
      <4>1. calls'[v].job = j /\ lastOp' = lastOp
        BY <1>3, <1>10, <1>11, <3>1 DEF registryVars
      <4>2. r.op \in 1..lastOp /\ owner[r.op] = p
        BY <1>4, <1>5, <2>1 DEF Owned
      <4>3. QED
        BY <1>7, <4>1, <4>2
    <3>2. CASE v # d
      <4>1. Job(v) /\ calls'[v] = calls[v] /\ lastOp' = lastOp
        BY <1>3, <1>14, <2>2, <3>2 DEF registryVars
      <4>2. QED
        BY <2>1, <4>1 DEF Owned
    <3>3. QED
      BY <3>1, <3>2
  <2>3. Owned(owner)'
    BY <1>3, <2>1, <2>2 DEF Owned, OwnedDisk, registryVars, Exists
  <2>4. QED
    BY <2>3 DEF OpsOwned
<1>20. RegistryInv'
  BY <1>15, <1>16, <1>17, <1>18, <1>19 DEF RegistryInv, DiskSound
<1>21. QED
  BY <1>2, <1>3, <1>12, <1>13, <1>20, DiskStays, TypedParts DEF PlaneKept

----------------------------------------------------------------------------
(* Repositories that are put away, lost or advanced.                       *)

\* Rows and calls stay; repositories go only where no row needs them or where
\* they were lost.
LEMMA RepositoryMoves ==
    ASSUME PlaneInv, calls' = calls, UNCHANGED <<projects, lastOp>>,
           \A w \in Workers : Current(w)' => Current(w),
           StoreTyped', DiskSound', damaged \subseteq damaged',
           \A p \in Projects : \A i : RepositoryValid(p, i) =>
               RepositoryValid(p, i)' \/ p \notin Rows \/ p \in damaged',
           \A owner \in [OpIds -> Projects \cup {None}] : Owned(owner) => OwnedDisk(owner)'
    PROVE  RegistryInv'
<1>1. RegistryInv
  BY DEF PlaneInv
<1>2. Rows' = Rows /\ (\A p, i : Fixed(p, i)' <=> Fixed(p, i)) /\ (\A w : Job(w)' <=> Job(w))
  BY DEF Rows, Fixed, Job
<1>3. ASSUME NEW w \in Workers PROVE JobFacts(w)'
  <2>1. JobFacts(w) /\ (Job(w)' <=> Job(w))
    BY <1>1, <1>2 DEF RegistryInv
  <2>2. PICK j : j = calls[w].job
    OBVIOUS
  <2>3. Job(w) => Fixed(j.project, j.initial) /\ j.project \in Projects
    BY <2>1, <2>2 DEF JobFacts, Fixed
  <2>4. Job(w) /\ calls[w].pc = "finish" =>
           \/ j.project \notin Rows' \/ j.project \in damaged'
           \/ RepositoryValid(j.project, j.initial)'
    BY <1>2, <2>1, <2>2, <2>3 DEF JobFacts
  <2>5. QED
    BY <1>2, <2>1, <2>2, <2>3, <2>4 DEF JobFacts
<1>4. ASSUME NEW h \in Handlers PROVE RepairFacts(h)'
  BY <1>1, <1>2 DEF RegistryInv, RepairFacts
<1>5. JobsApart'
  BY <1>1 DEF RegistryInv, JobsApart
<1>6. OpsOwned'
  <2>1. PICK owner \in [OpIds -> Projects \cup {None}] : Owned(owner)
    BY <1>1 DEF RegistryInv, OpsOwned
  <2>2. OwnedDisk(owner)'
    BY <2>1
  <2>3. Owned(owner)'
    BY <1>2, <2>1, <2>2 DEF Owned
  <2>4. QED
    BY <2>3 DEF OpsOwned
<1>7. QED
  BY <1>3, <1>4, <1>5, <1>6 DEF RegistryInv, DiskSound

\* What every step on repositories alone has in common.
LEMMA RepositoryKeeps ==
    ASSUME PlaneInv, UNCHANGED <<projects, lastOp>>, damaged \subseteq damaged',
           StoreTyped', PartialsSound', QuarantinedUnwanted',
           \A p \in Projects : finals'[p] # NoFinal =>
              /\ finals[p] # NoFinal
              /\ finals'[p].op = finals[p].op
              /\ finals'[p].initial = finals[p].initial
              /\ finals'[p].canonical >= finals[p].canonical,
           \A p \in Projects : finals'[p] = NoFinal /\ finals[p] # NoFinal =>
              p \notin Rows \/ p \in damaged'
    PROVE  /\ DiskSound'
           /\ \A p \in Projects : \A i : RepositoryValid(p, i) =>
                 RepositoryValid(p, i)' \/ p \notin Rows \/ p \in damaged'
<1>1. StoreTyped /\ RegistryInv
  BY TypedParts DEF PlaneInv
<1>2. Rows' = Rows /\ (\A p, i : Fixed(p, i)' <=> Fixed(p, i))
  BY DEF Rows, Fixed
<1>3. \A p \in Projects : Exists(p)' => finals'[p].canonical >= finals'[p].initial
  <2>1. SUFFICES ASSUME NEW p \in Projects, Exists(p)'
                 PROVE  finals'[p].canonical >= finals'[p].initial
    OBVIOUS
  <2>2. /\ Exists(p) /\ finals'[p].initial = finals[p].initial
        /\ finals'[p].canonical >= finals[p].canonical
    BY <2>1 DEF Exists
  <2>3. finals[p].canonical >= finals[p].initial
    BY <1>1, <2>2 DEF RegistryInv, RowsSound
  <2>4. finals[p].canonical \in Nat /\ finals[p].initial \in Nat /\ finals'[p].canonical \in Nat
    BY <1>1 DEF StoreTyped, Finals
  <2>5. QED
    BY <2>2, <2>3, <2>4
<1>4. RowsSound'
  BY <1>1, <1>2, <1>3 DEF RegistryInv, RowsSound, Exists
<1>5. ASSUME NEW p \in Projects, NEW i, RepositoryValid(p, i)
      PROVE  RepositoryValid(p, i)' \/ p \notin Rows \/ p \in damaged'
  BY <1>5 DEF RepositoryValid, Exists
<1>6. ActiveBacked'
  <2>1. SUFFICES ASSUME NEW p \in Projects, projects[p].status = "active"
                 PROVE  (InitializedValid(p, projects[p].initial) \/ p \in damaged)'
    BY DEF ActiveBacked, RowsIn
  <2>2. p \in Rows
    BY <2>1 DEF Rows
  <2>3. InitializedValid(p, projects[p].initial) \/ p \in damaged
    BY <1>1, <2>1 DEF RegistryInv, RepositoriesMatchRows, ActiveBacked, RowsIn
  <2>4. PICK i : i = projects[p].initial
    OBVIOUS
  <2>5. RepositoryValid(p, i)' \/ p \in damaged'
    BY <1>5, <2>2, <2>3, <2>4 DEF InitializedValid
  <2>6. InitializedValid(p, i)' \/ p \in damaged'
    BY <1>3, <2>5 DEF InitializedValid, RepositoryValid
  <2>7. QED
    BY <2>4, <2>6
<1>7. PinnedInitial'
  BY <1>1, <1>2 DEF RegistryInv, RepositoriesMatchRows, PinnedInitial, Exists, Rows
<1>8. QED
  BY <1>4, <1>5, <1>6, <1>7 DEF DiskSound, RepositoriesMatchRows

\* Unknown repositories are put away.
LEMMA QuarantineDisk ==
    ASSUME PlaneInv,
           \/ \E p \in Projects : QuarantineFinal(p)
           \/ \E o \in OpIds : QuarantinePartial(o)
    PROVE  /\ StoreTyped' /\ PartialsSound' /\ QuarantinedUnwanted'
           /\ UNCHANGED <<projects, lastOp, damaged>>
           /\ \A n \in Projects : finals'[n] = finals[n] \/ (finals'[n] = NoFinal /\ n \notin Rows)
           /\ \A owner \in [OpIds -> Projects \cup {None}] : Owned(owner) => OwnedDisk(owner)'
<1>1. StoreTyped /\ RegistryInv
  BY TypedParts DEF PlaneInv
<1>2. PICK owner \in [OpIds -> Projects \cup {None}] : Owned(owner)
  BY <1>1 DEF RegistryInv, OpsOwned
<1>3. UNCHANGED <<projects, lastOp, damaged, source>>
  BY DEF QuarantineFinal, QuarantinePartial, registryRowVars
<1>4. Rows' = Rows /\ \A n, i : Fixed(n, i)' <=> Fixed(n, i)
  BY <1>3, RowsStay DEF rowVars
<1>5. \A n \in Rows : projects[n].action = "initialize" =>
         n \in Projects /\ owner[projects[n].op] = n /\ projects[n].status = "creating"
  BY <1>1, <1>2 DEF Owned, RegistryInv, RowsSound, Rows
<1>6. CASE \E p \in Projects : QuarantineFinal(p)
  <2>1. PICK p \in Projects : QuarantineFinal(p)
    BY <1>6
  <2>2. /\ Exists(p) /\ p \notin Rows /\ partials' = partials
        /\ quarantine' = quarantine \cup {finals[p].op} /\ finals' = [finals EXCEPT ![p] = NoFinal]
    BY <2>1 DEF QuarantineFinal, UnknownFinals
  <2>3. \A n \in Projects : finals'[n] = IF n = p THEN NoFinal ELSE finals[n]
    BY <1>1, <2>2 DEF StoreTyped
  <2>4. finals[p].op \in OpIds /\ owner[finals[p].op] = p /\ finals[p].op <= lastOp
    <3>1. finals[p].op \in 1..lastOp /\ owner[finals[p].op] = p
      BY <1>2, <2>2 DEF Owned, OwnedDisk
    <3>2. lastOp \in Nat /\ MaxOps \in Nat /\ lastOp <= MaxOps
      BY <1>1, RegistryAssumption DEF StoreTyped
    <3>3. QED
      BY <3>1, <3>2 DEF OpIds
  <2>5. StoreTyped'
    BY <1>1, <1>3, <2>2, <2>4, EmptyTyped DEF StoreTyped
  <2>6. PartialsSound'
    BY <1>1, <1>4, <2>2 DEF RegistryInv, PartialsSound
  <2>7. QuarantinedUnwanted'
    <3>1. SUFFICES ASSUME NEW o \in quarantine', NEW n \in Rows,
                          projects[n].action = "initialize", projects[n].op = o
                   PROVE  FALSE
      BY <1>3, <1>4 DEF QuarantinedUnwanted
    <3>2. o \notin quarantine
      BY <1>1, <3>1 DEF RegistryInv, RepositoriesMatchRows, QuarantinedUnwanted
    <3>3. o = finals[p].op
      BY <2>2, <3>1, <3>2
    <3>4. QED
      BY <1>5, <2>2, <2>4, <3>1, <3>3
  <2>8. ASSUME NEW own \in [OpIds -> Projects \cup {None}], Owned(own) PROVE OwnedDisk(own)'
    <3>1. OwnedDisk(own)
      BY <2>8 DEF Owned
    <3>2. \A n \in Projects : Exists(n)' => Exists(n) /\ finals'[n] = finals[n]
      BY <2>3 DEF Exists
    <3>3. \A o \in quarantine' : o <= lastOp
      BY <2>2, <2>4, <3>1 DEF OwnedDisk
    <3>4. QED
      BY <1>3, <2>2, <3>1, <3>2, <3>3 DEF OwnedDisk
  <2>9. QED
    BY <1>3, <2>2, <2>3, <2>5, <2>6, <2>7, <2>8
<1>7. CASE \E o \in OpIds : QuarantinePartial(o)
  <2>1. PICK o \in OpIds : QuarantinePartial(o)
    BY <1>7
  <2>2. /\ partials[o] # NoPartial /\ ~KnownPartial(o) /\ finals' = finals
        /\ quarantine' = quarantine \cup {o} /\ partials' = [partials EXCEPT ![o] = NoPartial]
    BY <2>1 DEF QuarantinePartial, UnknownPartials
  <2>3. \A m \in OpIds : partials'[m] = IF m = o THEN NoPartial ELSE partials[m]
    BY <1>1, <2>2 DEF StoreTyped
  <2>4. o <= lastOp /\ partials[o].project = owner[o]
    BY <1>2, <2>2 DEF Owned, OwnedDisk
  <2>5. StoreTyped'
    BY <1>1, <1>3, <2>2, EmptyTyped DEF StoreTyped
  <2>6. PartialsSound'
    <3>1. NoPartial.stage = 0
      BY DEF NoPartial
    <3>2. SUFFICES ASSUME NEW m \in OpIds
                   PROVE  (/\ partials[m] = NoPartial \/ partials[m].stage > 0
                           /\ partials[m].stage >= Marked =>
                                 Fixed(partials[m].project, partials[m].initial))'
      BY DEF PartialsSound
    <3>3. CASE m = o
      BY <2>3, <3>1, <3>3, StageFacts
    <3>4. CASE m # o
      BY <1>1, <1>4, <2>3, <3>4 DEF RegistryInv, PartialsSound
    <3>5. QED
      BY <3>3, <3>4
  <2>7. QuarantinedUnwanted'
    <3>1. SUFFICES ASSUME NEW m \in quarantine', NEW n \in Rows,
                          projects[n].action = "initialize", projects[n].op = m
                   PROVE  FALSE
      BY <1>3, <1>4 DEF QuarantinedUnwanted
    <3>2. m \notin quarantine
      BY <1>1, <3>1 DEF RegistryInv, RepositoriesMatchRows, QuarantinedUnwanted
    <3>3. m = o
      BY <2>2, <3>1, <3>2
    <3>4. partials[o].project = n /\ projects[n].status = "creating"
      BY <1>5, <2>4, <3>1, <3>3
    <3>5. KnownPartial(o)
      BY <3>1, <3>3, <3>4 DEF KnownPartial
    <3>6. QED
      BY <2>2, <3>5
  <2>8. ASSUME NEW own \in [OpIds -> Projects \cup {None}], Owned(own) PROVE OwnedDisk(own)'
    <3>1. OwnedDisk(own)
      BY <2>8 DEF Owned
    <3>2. \A m \in quarantine' : m <= lastOp
      BY <2>2, <2>4, <3>1 DEF OwnedDisk
    <3>3. \A m \in OpIds : partials'[m] # NoPartial =>
             partials[m] # NoPartial /\ partials'[m] = partials[m]
      BY <2>3
    <3>4. QED
      BY <1>3, <2>2, <3>1, <3>2, <3>3 DEF OwnedDisk, Exists
  <2>9. QED
    BY <1>3, <2>2, <2>5, <2>6, <2>7, <2>8
<1>8. QED
  BY <1>6, <1>7

\* A start puts one unknown repository away.
LEMMA QuarantinePlane ==
    ASSUME PlaneInv, NEW d \in Daemons, QuarantineUnknown(d) PROVE PlaneKept
<1>1. /\ phase[d] \in {"scan", "refuse"} /\ phase' = [phase EXCEPT ![d] = "refuse"]
      /\ load' = load /\ calls' = calls
      /\ \/ \E p \in Projects : QuarantineFinal(p)
         \/ \E o \in OpIds : QuarantinePartial(o)
  BY DEF QuarantineUnknown, Become
<1>2. CallsTyped /\ Located /\ StoreTyped /\ RegistryInv /\ phase \in [Daemons -> Phases]
  BY TypedParts DEF PlaneInv, ProcessInv
<1>3. CallsTyped' /\ Located'
  BY <1>1, <1>2, ProcessMovesCalls DEF Requested
<1>4. ASSUME NEW w \in Workers, Current(w)' PROVE Current(w)
  <2>1. Job(w) /\ calls[w] # Idle
    BY <1>1, <1>4, EmptyTyped DEF Current, Job, JobPcs
  <2>2. calls[w].at \in Daemons
    BY <1>2, <2>1 DEF Located, Workers
  <2>3. QED
    BY <1>1, <1>2, <1>4, <2>1, <2>2 DEF Current
<1>5. /\ StoreTyped' /\ PartialsSound' /\ QuarantinedUnwanted'
      /\ UNCHANGED <<projects, lastOp, damaged>>
      /\ \A n \in Projects : finals'[n] = finals[n] \/ (finals'[n] = NoFinal /\ n \notin Rows)
      /\ \A owner \in [OpIds -> Projects \cup {None}] : Owned(owner) => OwnedDisk(owner)'
  BY <1>1, QuarantineDisk
<1>6. \A n \in Projects : finals'[n] # NoFinal =>
         /\ finals[n] # NoFinal
         /\ finals'[n].op = finals[n].op
         /\ finals'[n].initial = finals[n].initial
         /\ finals'[n].canonical >= finals[n].canonical
  BY <1>2, <1>5 DEF StoreTyped, Finals
<1>7. /\ DiskSound'
      /\ \A n \in Projects : \A i : RepositoryValid(n, i) =>
            RepositoryValid(n, i)' \/ n \notin Rows \/ n \in damaged'
  BY <1>5, <1>6, RepositoryKeeps
<1>8. RegistryInv'
  BY <1>1, <1>4, <1>5, <1>7, RepositoryMoves
<1>9. QED
  BY <1>3, <1>5, <1>8, TypedParts DEF PlaneKept

\* The canonical branch advances, the source moves, or a repository is lost.
LEMMA OutsidePlane ==
    ASSUME PlaneInv, Outside \/ RepositoryLost PROVE PlaneKept
<1>1. /\ phase' = phase /\ load' = load /\ calls' = calls
      /\ UNCHANGED <<projects, lastOp, partials, quarantine>> /\ damaged \subseteq damaged'
      /\ source' \in {source, source + 1}
  BY DEF Outside, RepositoryLost, SourceMoves, AdvanceCanonical, LoseRepository, planeVars,
         repoVars, registryRowVars
<1>2. CallsTyped /\ Located /\ StoreTyped /\ RegistryInv
  BY TypedParts DEF PlaneInv
<1>3. CallsTyped' /\ Located' /\ \A w \in Workers : Current(w)' => Current(w)
  BY <1>1, <1>2, CallsStay DEF Current, Job
<1>4. /\ finals' \in [Projects -> Finals]
      /\ \A n \in Projects :
            \/ finals'[n] = finals[n]
            \/ finals'[n] = NoFinal /\ n \in damaged'
            \/ /\ finals[n] # NoFinal /\ finals'[n] # NoFinal
               /\ finals'[n].op = finals[n].op
               /\ finals'[n].initial = finals[n].initial
               /\ finals'[n].canonical >= finals[n].canonical
  <2>1. finals \in [Projects -> Finals]
    BY <1>2 DEF StoreTyped
  <2>2. CASE finals' = finals
    BY <2>1, <2>2
  <2>3. CASE \E p \in Projects : AdvanceCanonical(p)
    <3>1. PICK p \in Projects : AdvanceCanonical(p)
      BY <2>3
    <3>2. PICK f, g : f = finals[p] /\ g = [f EXCEPT !.canonical = f.canonical + 1]
      OBVIOUS
    <3>3. finals' = [finals EXCEPT ![p] = g] /\ f # NoFinal
      BY <2>1, <3>1, <3>2 DEF AdvanceCanonical, Exists
    <3>4. f \in Finals
      BY <2>1, <3>2
    <3>5. /\ g \in Finals /\ g.op = f.op /\ g.initial = f.initial /\ g.canonical >= f.canonical
          /\ g # NoFinal
      <4>1. /\ g \in Finals /\ g.op = f.op /\ g.initial = f.initial
            /\ g.canonical = f.canonical + 1 /\ f.canonical \in Nat
        BY <3>2, <3>4 DEF Finals
      <4>2. NoFinal.canonical = 0
        BY DEF NoFinal, NoCommit
      <4>3. QED
        BY <4>1, <4>2
    <3>6. \A n \in Projects : finals'[n] = IF n = p THEN g ELSE finals[n]
      BY <2>1, <3>3
    <3>7. QED
      BY <2>1, <3>2, <3>3, <3>5, <3>6
  <2>4. CASE \E p \in Projects : LoseRepository(p)
    <3>1. PICK p \in Projects : LoseRepository(p)
      BY <2>4
    <3>2. finals' = [finals EXCEPT ![p] = NoFinal] /\ p \in damaged'
      BY <3>1 DEF LoseRepository
    <3>3. \A n \in Projects : finals'[n] = IF n = p THEN NoFinal ELSE finals[n]
      BY <2>1, <3>2
    <3>4. QED
      BY <2>1, <3>2, <3>3, EmptyTyped
  <2>5. QED
    BY <2>2, <2>3, <2>4 DEF Outside, RepositoryLost, SourceMoves, repoVars
<1>5. StoreTyped'
  BY <1>1, <1>2, <1>4 DEF StoreTyped
<1>6. \A n \in Projects : finals'[n] # NoFinal =>
         /\ finals[n] # NoFinal
         /\ finals'[n].op = finals[n].op
         /\ finals'[n].initial = finals[n].initial
         /\ finals'[n].canonical >= finals[n].canonical
  BY <1>2, <1>4 DEF StoreTyped, Finals
<1>7. Rows' = Rows /\ \A n, i : Fixed(n, i)' <=> Fixed(n, i)
  BY <1>1 DEF Rows, Fixed
<1>8. PartialsSound' /\ QuarantinedUnwanted'
  BY <1>1, <1>2, <1>7 DEF RegistryInv, PartialsSound, RepositoriesMatchRows, QuarantinedUnwanted
<1>9. /\ DiskSound'
      /\ \A n \in Projects : \A i : RepositoryValid(n, i) =>
            RepositoryValid(n, i)' \/ n \notin Rows \/ n \in damaged'
  <2>1. \A n \in Projects : finals'[n] = NoFinal /\ finals[n] # NoFinal =>
           n \notin Rows \/ n \in damaged'
    BY <1>4
  <2>2. QED
    BY <1>1, <1>5, <1>6, <1>8, <2>1, RepositoryKeeps
<1>10. ASSUME NEW own \in [OpIds -> Projects \cup {None}], Owned(own) PROVE OwnedDisk(own)'
  <2>1. OwnedDisk(own)
    BY <1>10 DEF Owned
  <2>2. QED
    BY <1>1, <1>6, <2>1 DEF OwnedDisk, Exists
<1>11. RegistryInv'
  BY <1>1, <1>3, <1>5, <1>9, <1>10, RepositoryMoves
<1>12. QED
  BY <1>3, <1>5, <1>11, TypedParts DEF PlaneKept

----------------------------------------------------------------------------
(* The invariant.                                                          *)

\* No process runs, nothing is registered and nothing is on disk.
LEMMA PlaneInit == Init => PlaneInv /\ TodoTyped
<1> SUFFICES ASSUME Init PROVE PlaneInv /\ TodoTyped
  OBVIOUS
<1>1. /\ calls = [w \in Workers |-> Idle] /\ load \in Workloads
      /\ todo = [d \in Daemons |-> {}]
      /\ projects = [p \in Projects |-> NoProject] /\ finals = [p \in Projects |-> NoFinal]
      /\ partials = [o \in OpIds |-> NoPartial] /\ quarantine = {} /\ lastOp = 0 /\ source = 1
  BY DEF Init, RegistryInit, NoOp
<1>2. CallsTyped
  <2>1. \A w \in Workers : calls[w] = Idle
    BY <1>1
  <2>2. calls = [w \in Workers |-> calls[w]]
    BY <1>1
  <2>3. QED
    BY <1>1, <2>1, <2>2, EmptyTyped DEF CallsTyped
<1>3. StoreTyped
  <2>1. 0 \in 0..MaxOps
    BY RegistryAssumption
  <2>2. projects = [p \in Projects |-> projects[p]] /\ \A p \in Projects : Row(projects[p])
    BY <1>1, EmptyTyped
  <2>3. QED
    BY <1>1, <2>1, <2>2, EmptyTyped DEF StoreTyped
<1>4. Located
  BY <1>1, EmptyTyped DEF Located, Workers
<1>5. /\ NoProject.status = "none" /\ NoProject.action = "" /\ NoProject.canonical = NoCommit
      /\ NoPartial.stage = 0
  BY DEF NoProject, NoPartial
<1>6. Rows = {} /\ (\A p \in Projects : ~Exists(p)) /\ \A w \in Workers : ~Job(w)
  BY <1>1, <1>5, EmptyTyped DEF Rows, Exists, Job, JobPcs
<1>7. RowsSound
  BY <1>1, <1>5, <1>6 DEF RowsSound
<1>8. PartialsSound
  BY <1>1, <1>5, StageFacts DEF PartialsSound
<1>9. (\A w \in Workers : JobFacts(w)) /\ JobsApart
  BY <1>6 DEF JobFacts, JobsApart, Current
<1>10. \A h \in Handlers : RepairFacts(h)
  BY <1>1, EmptyTyped DEF RepairFacts, Workers
<1>11. OpsOwned
  <2>1. PICK owner : owner = [o \in OpIds |-> None]
    OBVIOUS
  <2>2. owner \in [OpIds -> Projects \cup {None}]
    BY <2>1
  <2>3. Owned(owner)
    BY <1>1, <1>5, <1>6 DEF Owned, OwnedDisk
  <2>4. QED
    BY <2>2, <2>3 DEF OpsOwned
<1>12. RepositoriesMatchRows
  <2>1. RowsIn("active") = {}
    BY <1>1, <1>5 DEF RowsIn
  <2>2. QED
    BY <1>1, <1>6, <2>1 DEF RepositoriesMatchRows, ActiveBacked, PinnedInitial, QuarantinedUnwanted
<1>13. RegistryInv
  BY <1>7, <1>8, <1>9, <1>10, <1>11, <1>12 DEF RegistryInv
<1>14. TodoTyped
  BY <1>1 DEF TodoTyped
<1>15. QED
  BY <1>2, <1>3, <1>4, <1>13, <1>14, ProcessInit, TypedParts DEF PlaneInv

\* A start verifies projects only.
LEMMA TodoStep == TodoTyped /\ [Next]_vars => TodoTyped'
<1> SUFFICES ASSUME TodoTyped, [Next]_vars PROVE TodoTyped'
  OBVIOUS
<1>1. ASSUME NEW w, JobStep(w) PROVE todo' = todo
  BY <1>1 DEF JobStep, Initialize, PreparePartial, MarkPartial, PublishPartial, BuildRepository,
              PromoteRepository, VerifyRepository, GitFails, FinishJob, jobFrame
<1>2. ASSUME NEW d \in Daemons, ReconciledCreating(d) PROVE TodoTyped'
  <2>1. RowsIn("active") \in SUBSET Projects
    BY DEF RowsIn
  <2>2. QED
    BY <1>2, <2>1 DEF ReconciledCreating, TodoTyped
<1>3. ASSUME NEW d \in Daemons, ReconcileActive(d) PROVE TodoTyped'
  BY <1>3 DEF ReconcileActive, TodoTyped
<1>4. ASSUME NEW d \in Daemons, DaemonStep(d), ~ReconciledCreating(d), ~ReconcileActive(d)
      PROVE  todo' = todo
  BY <1>1, <1>4 DEF DaemonStep, Start, AcquireDataDirLock, MigrateInTransaction,
     applyTaskBudgetMigration, applyProjectDeleteCapabilityMigration, MigrationRecorded, StoreOpened,
     QuarantineUnknown, Scanned, ReconcileCreating, Reconciled, removeStaleSocket, ListenUnix,
     CloseListener, CloseStore, ReleaseLock, Exit, planeVars
<1>5. ASSUME NEW d \in Daemons,
             Start(d) \/ StartFails(d) \/ Degraded(d) \/ Healthy(d) \/ Stop(d) \/ Crash(d)
      PROVE  todo' = todo
  BY <1>5 DEF Start, StartFails, Degraded, Healthy, Stop, Crash
<1>6. ASSUME NEW h \in Handlers, Call(h) \/ RequestStep(h) PROVE todo' = todo
  BY <1>1, <1>6 DEF Call, RequestStep, Gate, TransactAuthority, TransactProject, Preflight,
     InsertProject, ReadProject, UpdateProject, Abort, requestFrame
<1>7. CASE Outside \/ RepositoryLost \/ UNCHANGED vars
  BY <1>7 DEF Outside, RepositoryLost, vars, planeVars, TodoTyped
<1>8. ASSUME todo' = todo PROVE TodoTyped'
  BY <1>8 DEF TodoTyped
<1>9. QED
  BY <1>2, <1>3, <1>4, <1>5, <1>6, <1>7, <1>8 DEF Next

\* Every step keeps the invariant.
LEMMA PlaneStep == PlaneInv /\ TodoTyped /\ [Next]_vars => PlaneKept
<1> SUFFICES ASSUME PlaneInv, TodoTyped, [Next]_vars PROVE PlaneKept
  OBVIOUS
<1>1. ASSUME NEW w \in Workers, JobStep(w) PROVE PlaneKept
  BY <1>1, FileSteps, FinishPlane DEF JobStep
<1>2. ASSUME NEW d \in Daemons, DaemonStep(d) PROVE PlaneKept
  <2>1. CASE \/ Start(d) \/ AcquireDataDirLock(d) \/ applyTaskBudgetMigration(d)
             \/ applyProjectDeleteCapabilityMigration(d) \/ MigrationRecorded(d) \/ StoreOpened(d)
             \/ Scanned(d) \/ ReconciledCreating(d) \/ Reconciled(d)
    BY <2>1, StartPlane
  <2>2. CASE \/ removeStaleSocket(d) \/ ListenUnix(d) \/ CloseListener(d) \/ CloseStore(d)
             \/ ReleaseLock(d) \/ Exit(d)
    BY <2>2, StopPlane
  <2>3. CASE MigrateInTransaction(d)
    BY <2>3, NothingMoves DEF MigrateInTransaction, planeVars
  <2>4. CASE QuarantineUnknown(d) \/ ReconcileCreating(d) \/ ReconcileActive(d)
    BY <2>4, QuarantinePlane, ReconcileCreatingPlane, ReconcileActivePlane
  <2>5. CASE JobStep(d)
    BY <1>1, <2>5 DEF Workers
  <2>6. QED
    BY <1>2, <2>1, <2>2, <2>3, <2>4, <2>5 DEF DaemonStep
<1>3. ASSUME NEW d \in Daemons,
             Start(d) \/ StartFails(d) \/ Degraded(d) \/ Healthy(d) \/ Stop(d) \/ Crash(d)
      PROVE  PlaneKept
  BY <1>3, StartPlane, StopPlane
<1>4. ASSUME NEW h \in Handlers, RequestStep(h) PROVE PlaneKept
  <2>1. CASE Gate(h) \/ Preflight(h) \/ Abort(h) \/ TransactAuthority(h)
    BY <2>1, RequestPlane
  <2>2. CASE TransactProject(h) \/ InsertProject(h) \/ ReadProject(h) \/ UpdateProject(h)
    BY <2>2, TransactProjectPlane, InsertPlane, ReadPlane, UpdatePlane
  <2>3. CASE JobStep(h)
    BY <1>1, <2>3 DEF Workers
  <2>4. QED
    BY <1>4, <2>1, <2>2, <2>3 DEF RequestStep
<1>5. ASSUME NEW h \in Handlers, Call(h) PROVE PlaneKept
  BY <1>5, CallPlane
<1>6. CASE Outside \/ RepositoryLost
  BY <1>6, OutsidePlane
<1>7. CASE UNCHANGED vars
  BY <1>7, NothingMoves DEF vars, planeVars
<1>8. QED
  BY <1>2, <1>3, <1>4, <1>5, <1>6, <1>7 DEF Next

\* The invariant holds throughout.
LEMMA PlaneInvariant == Spec => [](PlaneInv /\ TodoTyped)
<1>1. PlaneInv /\ TodoTyped /\ [Next]_vars => (PlaneInv /\ TodoTyped)'
  BY PlaneStep, TodoStep, ProcessStep DEF PlaneInv, PlaneKept
<1>2. QED
  BY <1>1, PlaneInit, PTL DEF Spec

\* Rows and repositories agree: an active project has the complete repository
\* it was registered with, unless that was lost behind the daemon's back, and
\* QuarantineUnknown takes away nothing a pending initialization waits for,
\* whatever was interrupted, repeated or done beside it by an old handler.
THEOREM RepositoriesAgree == Spec => []RepositoriesMatchRows
<1>1. PlaneInv /\ TodoTyped => RepositoriesMatchRows
  BY DEF PlaneInv, RegistryInv
<1>2. QED
  BY <1>1, PlaneInvariant, PTL

----------------------------------------------------------------------------
(* What makes a repository appear.                                         *)

\* Repositories change where they are put away, advanced, lost or promoted.
FinalsMove ==
    \/ finals' = finals
    \/ \E p \in Projects : QuarantineFinal(p) \/ AdvanceCanonical(p) \/ LoseRepository(p)
    \/ \E w \in Workers : /\ calls[w].pc = "promote" /\ CanTouchFiles(w)
                          /\ PromotePartial(calls[w].job)

\* Every step that touches a final repository is one of these.
LEMMA FinalsMoveOnly == [Next]_vars => FinalsMove
<1> SUFFICES ASSUME [Next]_vars PROVE FinalsMove
  OBVIOUS
<1> USE DEF FinalsMove, registryVars, repoVars, dataVars
<1>1. ASSUME NEW w \in Workers, JobStep(w) PROVE FinalsMove
  <2>1. CASE Initialize(w) \/ VerifyRepository(w) \/ GitFails(w)
    BY <2>1 DEF Initialize, VerifyRepository, GitFails
  <2>2. CASE PreparePartial(w) \/ MarkPartial(w) \/ PublishPartial(w) \/ BuildRepository(w)
    BY <2>2 DEF PreparePartial, MarkPartial, PublishPartial, BuildRepository, MakePartial,
                WriteTemporaryMarker, PublishMarker, DropTemporaryMarker, BuildPartial
  <2>3. CASE PromoteRepository(w)
    BY <2>3 DEF PromoteRepository
  <2>4. CASE FinishJob(w)
    BY <2>4 DEF FinishJob, finishProjectAction
  <2>5. QED
    BY <1>1, <2>1, <2>2, <2>3, <2>4 DEF JobStep
<1>2. ASSUME NEW d \in Daemons, DaemonStep(d) PROVE FinalsMove
  <2>1. CASE JobStep(d)
    BY <1>1, <2>1 DEF Workers
  <2>2. CASE QuarantineUnknown(d)
    BY <2>2 DEF QuarantineUnknown, QuarantinePartial
  <2>3. CASE ReconcileActive(d)
    BY <2>3 DEF ReconcileActive, finishActiveVerification
  <2>4. ASSUME ~JobStep(d), ~QuarantineUnknown(d), ~ReconcileActive(d) PROVE finals' = finals
    BY <1>2, <2>4 DEF DaemonStep, Start, AcquireDataDirLock, MigrateInTransaction,
       applyTaskBudgetMigration, applyProjectDeleteCapabilityMigration, MigrationRecorded,
       StoreOpened, Scanned, ReconcileCreating, ReconciledCreating, Reconciled, removeStaleSocket,
       ListenUnix, CloseListener, CloseStore, ReleaseLock, Exit
  <2>5. QED
    BY <2>1, <2>2, <2>3, <2>4
<1>3. ASSUME NEW d \in Daemons,
             Start(d) \/ StartFails(d) \/ Degraded(d) \/ Healthy(d) \/ Stop(d) \/ Crash(d)
      PROVE  FinalsMove
  BY <1>3 DEF Start, StartFails, Degraded, Healthy, Stop, Crash
<1>4. ASSUME NEW h \in Handlers, RequestStep(h) PROVE FinalsMove
  <2>1. CASE JobStep(h)
    BY <1>1, <2>1 DEF Workers
  <2>2. CASE Gate(h) \/ TransactAuthority(h) \/ Preflight(h) \/ ReadProject(h) \/ Abort(h)
    BY <2>2 DEF Gate, TransactAuthority, Preflight, ReadProject, Abort
  <2>3. CASE TransactProject(h) \/ InsertProject(h) \/ UpdateProject(h)
    BY <2>3 DEF TransactProject, InsertProject, UpdateProject, ArchiveProject, DeleteProject,
                AddProject, RepairProject
  <2>4. QED
    BY <1>4, <2>1, <2>2, <2>3 DEF RequestStep
<1>5. ASSUME NEW h \in Handlers, Call(h) PROVE FinalsMove
  BY <1>5 DEF Call
<1>6. CASE Outside \/ RepositoryLost
  BY <1>6 DEF Outside, RepositoryLost, SourceMoves
<1>7. CASE UNCHANGED vars
  BY <1>7 DEF vars
<1>8. QED
  BY <1>2, <1>3, <1>4, <1>5, <1>6, <1>7 DEF Next

\* A job of the process with the lock makes a repository only for a project
\* that never was active; any other job's process has given the lock back.
LEMMA PromotedBy ==
    ASSUME PlaneInv, NEW w \in Workers, calls[w].pc = "promote", CanTouchFiles(w)
    PROVE  \/ projects[calls[w].job.project].canonical = NoCommit
           \/ w \in Handlers /\ phase[calls[w].at] = "closed"
<1>1. Job(w) /\ calls[w].pc \in MakingPcs /\ calls[w] # Idle
  BY EmptyTyped DEF Job, JobPcs, MakingPcs
<1>2. JobFacts(w) /\ RowsSound /\ Located
  BY DEF PlaneInv, RegistryInv
<1>3. CASE Current(w)
  <2>1. PICK j : j = calls[w].job
    OBVIOUS
  <2>2. j.project \in Projects /\ j.action = "initialize" /\ projects[j.project].action = j.action
    BY <1>1, <1>2, <1>3, <2>1 DEF JobFacts, Fixed
  <2>3. QED
    BY <1>2, <2>1, <2>2 DEF RowsSound
<1>4. CASE ~Current(w)
  <2>1. phase[calls[w].at] \notin LockHeld
    BY <1>1, <1>4 DEF Current
  <2>2. w \in Handlers /\ phase[calls[w].at] \in Requested
    BY <1>1, <1>2, <2>1 DEF Located, Workers
  <2>3. QED
    BY <2>1, <2>2 DEF Requested
<1>5. QED
  BY <1>3, <1>4

\* One step of a repository.
LEMMA NotRebuilt ==
    ASSUME PlaneInv, [Next]_vars, NEW p \in Rows, projects[p].canonical # NoCommit
    PROVE  \/ finals'[p] = NoFinal
           \/ Exists(p) /\ finals'[p].canonical >= finals[p].canonical
           \/ ~Exists(p) /\ LeftBehind(p)
<1>1. StoreTyped
  BY TypedParts DEF PlaneInv
<1>2. finals \in [Projects -> Finals] /\ p \in Projects /\ finals[p].canonical \in Nat
  BY <1>1 DEF StoreTyped, Finals, Rows
<1>3. CASE finals'[p] = finals[p]
  BY <1>2, <1>3 DEF Exists
<1>4. ASSUME NEW r \in Projects, QuarantineFinal(r) \/ LoseRepository(r)
      PROVE  finals'[p] = finals[p] \/ finals'[p] = NoFinal
  BY <1>2, <1>4 DEF QuarantineFinal, LoseRepository
<1>5. ASSUME NEW r \in Projects, AdvanceCanonical(r)
      PROVE  \/ finals'[p] = finals[p]
             \/ Exists(p) /\ finals'[p].canonical >= finals[p].canonical
  <2>1. PICK f, g : f = finals[r] /\ g = [f EXCEPT !.canonical = f.canonical + 1]
    OBVIOUS
  <2>2. finals' = [finals EXCEPT ![r] = g] /\ Exists(r)
    BY <1>2, <1>5, <2>1 DEF AdvanceCanonical
  <2>3. g.canonical = f.canonical + 1 /\ f.canonical \in Nat
    BY <1>2, <2>1 DEF Finals
  <2>4. g.canonical >= f.canonical
    BY <2>3
  <2>5. QED
    BY <1>2, <2>1, <2>2, <2>4
<1>6. ASSUME NEW w \in Workers, calls[w].pc = "promote", CanTouchFiles(w),
             PromotePartial(calls[w].job)
      PROVE  finals'[p] = finals[p] \/ (~Exists(p) /\ LeftBehind(p))
  <2>1. CASE calls[w].job.project # p
    BY <1>2, <1>6, <2>1 DEF PromotePartial
  <2>2. CASE calls[w].job.project = p
    <3>1. ~Exists(p)
      BY <1>6, <2>2 DEF PromotePartial
    <3>2. w \in Handlers /\ phase[calls[w].at] = "closed"
      BY <1>6, <2>2, PromotedBy
    <3>3. QED
      BY <1>6, <2>2, <3>1, <3>2 DEF LeftBehind
  <2>3. QED
    BY <2>1, <2>2
<1>7. FinalsMove
  BY FinalsMoveOnly
<1>8. QED
  BY <1>3, <1>4, <1>5, <1>6, <1>7 DEF FinalsMove

\* A project that was active never gets a repository made anew from the commit
\* it was registered with, neither by a repair nor by a start that finds its
\* initialization pending; RepairAction's choice and the compare-and-swap of
\* the row see to it.  A handler that its closed process left behind is the
\* exception.
THEOREM ActiveNeverRebuilt == Spec => NeverRebuilt
<1>1. ASSUME PlaneInv /\ TodoTyped, [Next]_vars
      PROVE  \A p \in Rows : projects[p].canonical # NoCommit =>
                \/ finals'[p] = NoFinal
                \/ Exists(p) /\ finals'[p].canonical >= finals[p].canonical
                \/ ~Exists(p) /\ LeftBehind(p)
  BY <1>1, NotRebuilt
<1>2. PlaneInv /\ TodoTyped /\ [Next]_vars =>
        [\A p \in Rows : projects[p].canonical # NoCommit =>
                \/ finals'[p] = NoFinal
                \/ Exists(p) /\ finals'[p].canonical >= finals[p].canonical
                \/ ~Exists(p) /\ LeftBehind(p)]_vars
  BY <1>1
<1>3. QED
  BY <1>2, PlaneInvariant, PTL DEF Spec, NeverRebuilt

----------------------------------------------------------------------------
(* What a step does to the calls of handlers, to the history and the       *)
(* limits.                                                                 *)

HandlersKept ==
    /\ history' = history
    /\ \A e \in Daemons : phase'[e] = "record6" => phase[e] = "record6"
    /\ left'["calls"] = left["calls"] /\ load' = load
    /\ \A h \in Handlers : calls'[h] = calls[h] \/ calls'[h] = Idle

LimitsTyped == left \in [Limits -> Int]

\* A job of a starting process is not a handler's.
LEMMA JobStepElsewhere ==
    ASSUME CallsTyped, NEW w \in Workers, JobStep(w), NEW v \in Workers \ {w}
    PROVE  calls'[v] = calls[v]
<1>1. CASE \/ Initialize(w) \/ PreparePartial(w) \/ MarkPartial(w) \/ PublishPartial(w)
           \/ PromoteRepository(w) \/ GitFails(w)
  BY <1>1 DEF Initialize, PreparePartial, MarkPartial, PublishPartial, PromoteRepository, GitFails,
              Goto, CallsTyped
<1>2. CASE BuildRepository(w)
  BY <1>2 DEF BuildRepository, Goto, CallsTyped
<1>3. CASE VerifyRepository(w)
  <2>1. PICK pc, job : \/ Goto(w, "fail")
                       \/ calls' = [calls EXCEPT ![w].pc = pc, ![w].job.fact = job]
    BY <1>3 DEF VerifyRepository
  <2>2. QED
    BY <2>1 DEF Goto, CallsTyped
<1>4. CASE FinishJob(w)
  BY <1>4 DEF FinishJob, Return, CallsTyped
<1>5. QED
  BY <1>1, <1>2, <1>3, <1>4 DEF JobStep

\* A process touches no handler's call but to end it, and the history only in
\* the migrations.
LEMMA DaemonMoves ==
    ASSUME PlaneInv, LimitsTyped, NEW d \in Daemons,
           DaemonStep(d) \/ Start(d) \/ StartFails(d) \/ Degraded(d) \/ Healthy(d) \/ Stop(d)
              \/ Crash(d),
           ~MigrateInTransaction(d), ~applyProjectDeleteCapabilityMigration(d),
           ~MigrationRecorded(d)
    PROVE  HandlersKept
<1> USE DEF HandlersKept, Become, dataVars, schemaVars
<1>1. phase \in [Daemons -> Phases] /\ CallsTyped /\ d \in Workers
  BY TypedParts DEF PlaneInv, ProcessInv, Workers
<1>2. ASSUME NEW k \in Limits \ {"calls"}, Spend(k) PROVE left'["calls"] = left["calls"]
  BY <1>2 DEF Spend, LimitsTyped, Limits
<1>3. \A h \in Handlers : CallsWithout(d)[h] = calls[h] \/ CallsWithout(d)[h] = Idle
  BY DEF CallsWithout, Workers
<1>4. CASE StartFails(d) \/ Crash(d)
  BY <1>1, <1>2, <1>3, <1>4 DEF StartFails, Crash, Limits
<1>5. CASE Degraded(d) \/ Stop(d)
  BY <1>1, <1>2, <1>5 DEF Degraded, Stop, Limits
<1>6. CASE Healthy(d) \/ Start(d) \/ AcquireDataDirLock(d) \/ StoreOpened(d) \/ Scanned(d)
  BY <1>1, <1>6 DEF Healthy, Start, AcquireDataDirLock, StoreOpened, Scanned
<1>7. CASE applyTaskBudgetMigration(d)
  BY <1>1, <1>7 DEF applyTaskBudgetMigration, alterTaskBudget
<1>8. CASE QuarantineUnknown(d) \/ ReconciledCreating(d) \/ ReconcileActive(d) \/ Reconciled(d)
  BY <1>1, <1>8 DEF QuarantineUnknown, ReconciledCreating, ReconcileActive, Reconciled
<1>9. CASE ReconcileCreating(d)
  <2>1. PICK c : calls' = [calls EXCEPT ![d] = c]
    BY <1>9 DEF ReconcileCreating
  <2>2. \A h \in Handlers : calls'[h] = calls[h]
    BY <1>1, <2>1, ControlPlaneAssumption DEF CallsTyped, Workers
  <2>3. QED
    BY <1>9, <2>2 DEF ReconcileCreating
<1>10. CASE removeStaleSocket(d) \/ ListenUnix(d) \/ CloseListener(d) \/ CloseStore(d) \/ ReleaseLock(d)
  BY <1>1, <1>10 DEF removeStaleSocket, ListenUnix, CloseListener, CloseStore, ReleaseLock
<1>11. CASE Exit(d)
  BY <1>1, <1>3, <1>11 DEF Exit
<1>12. CASE JobStep(d)
  <2>1. \A h \in Handlers : calls'[h] = calls[h]
    BY <1>1, <1>12, JobStepElsewhere, ControlPlaneAssumption DEF Workers
  <2>2. phase' = phase /\ load' = load /\ history' = history
    BY <1>12, JobStepFrame, JobStepProcess
  <2>3. left' = left
    BY <1>12 DEF JobStep, Initialize, PreparePartial, MarkPartial, PublishPartial, BuildRepository,
       PromoteRepository, VerifyRepository, GitFails, FinishJob, jobFrame
  <2>4. QED
    BY <2>1, <2>2, <2>3
<1>13. QED
  BY <1>4, <1>5, <1>6, <1>7, <1>8, <1>9, <1>10, <1>11, <1>12 DEF DaemonStep

\* A handler's step is its own, and only the gate leads to a transaction that
\* asks for a capability.
LEMMA HandlerMoves ==
    ASSUME PlaneInv, NEW h \in Handlers, RequestStep(h)
    PROVE  /\ calls[h] # Idle
           /\ UNCHANGED <<phase, load, left, history>>
           /\ \A g \in Handlers \ {h} : calls'[g] = calls[g]
           /\ \/ calls'[h].pc # "transact"
              \/ /\ calls'[h].q = calls[h].q
                 /\ OperatorHolds(GateCapability(calls[h].q), GateScope(calls[h].q))
                 /\ UNCHANGED authorityVars
<1> USE DEF requestFrame, schemaVars, dataVars
<1>1. CallsTyped /\ Frame(calls[h]) /\ h \in Workers
  BY TypedParts DEF PlaneInv, CallsTyped, Workers
<1>2. Idle.pc = "idle"
  BY EmptyTyped
<1>3. /\ calls[h] # Idle /\ UNCHANGED <<phase, load, left, history>>
  <2>1. CASE JobStep(h)
    <3>1. left' = left
      BY <2>1 DEF JobStep, Initialize, PreparePartial, MarkPartial, PublishPartial, BuildRepository,
         PromoteRepository, VerifyRepository, GitFails, FinishJob, jobFrame
    <3>2. QED
      BY <2>1, <3>1, JobStepFrame, JobStepProcess DEF Running
  <2>2. CASE Abort(h)
    BY <1>2, <2>2 DEF Abort
  <2>3. CASE \/ Gate(h) \/ TransactAuthority(h) \/ TransactProject(h) \/ Preflight(h)
             \/ InsertProject(h) \/ ReadProject(h) \/ UpdateProject(h)
    BY <2>3 DEF Gate, TransactAuthority, TransactProject, Preflight, InsertProject, ReadProject,
                UpdateProject, CanTransact, CanRunGit, Running
  <2>4. QED
    BY <2>1, <2>2, <2>3 DEF RequestStep
<1>4. ASSUME Return(h)
      PROVE  calls'[h].pc # "transact" /\ \A g \in Handlers \ {h} : calls'[g] = calls[g]
  BY <1>1, <1>2, <1>4 DEF Return, CallsTyped, Workers
<1>5. ASSUME NEW pc \in Pcs, Goto(h, pc)
      PROVE  /\ calls'[h].pc = pc /\ calls'[h].q = calls[h].q
             /\ \A g \in Handlers \ {h} : calls'[g] = calls[g]
  <2>1. calls' = [calls EXCEPT ![h] = At(h, pc)]
    BY <1>1, <1>5, GotoIs
  <2>2. QED
    BY <1>1, <2>1 DEF CallsTyped, At, Workers
<1>6. ASSUME NEW c, calls' = [calls EXCEPT ![h] = c], c.pc # "transact"
      PROVE  calls'[h].pc # "transact" /\ \A g \in Handlers \ {h} : calls'[g] = calls[g]
  BY <1>1, <1>6 DEF CallsTyped, Workers
<1>7. \A pc, r, j : /\ WithJob(calls[h], pc, j).pc = pc
                    /\ WithSeen(calls[h], pc, r, j).pc = pc
  BY <1>1, Updated DEF Frame
<1>8. CASE TransactAuthority(h) \/ TransactProject(h) \/ Abort(h)
  BY <1>3, <1>4, <1>8 DEF TransactAuthority, TransactProject, Abort
<1>9. CASE Gate(h)
  <2>1. UNCHANGED authorityVars
    BY <1>9 DEF Gate
  <2>2. CASE Return(h)
    BY <1>3, <1>4, <2>2
  <2>3. CASE /\ OperatorHolds(GateCapability(calls[h].q), GateScope(calls[h].q))
             /\ Goto(h, FirstStep(calls[h].q))
    <3>1. PICK pc \in {"preflight", "read", "transact"} : pc = FirstStep(calls[h].q)
      BY DEF FirstStep
    <3>2. pc \in Pcs /\ Goto(h, pc)
      BY <2>3, <3>1 DEF Pcs
    <3>3. calls'[h].q = calls[h].q /\ \A g \in Handlers \ {h} : calls'[g] = calls[g]
      BY <1>5, <3>2
    <3>4. QED
      BY <1>3, <2>1, <2>3, <3>3
  <2>4. QED
    BY <1>9, <2>2, <2>3 DEF Gate
<1>10. CASE Preflight(h)
  <2>1. PICK j : j = [calls[h].job EXCEPT !.initial = source]
    OBVIOUS
  <2>2. CASE Return(h)
    BY <1>3, <1>4, <2>2
  <2>3. CASE calls' = [calls EXCEPT ![h].pc = "insert", ![h].job.initial = source]
    <3>1. PICK c : c = WithJob(calls[h], "insert", j)
      OBVIOUS
    <3>2. calls' = [calls EXCEPT ![h] = c]
      BY <1>1, <2>1, <2>3, <3>1 DEF CallsTyped, WithJob
    <3>3. c.pc # "transact"
      BY <1>7, <3>1
    <3>4. QED
      BY <1>3, <1>6, <3>2, <3>3
  <2>4. QED
    BY <1>10, <2>2, <2>3 DEF Preflight
<1>11. CASE InsertProject(h)
  <2>1. PICK j : calls' = [calls EXCEPT ![h].pc = "init", ![h].job = j]
    BY <1>11 DEF InsertProject
  <2>2. PICK c : c = WithJob(calls[h], "init", j)
    OBVIOUS
  <2>3. calls' = [calls EXCEPT ![h] = c] /\ c.pc # "transact"
    <3>1. calls' = [calls EXCEPT ![h] = c]
      BY <1>1, <2>1, <2>2 DEF CallsTyped, WithJob
    <3>2. QED
      BY <1>7, <2>2, <3>1
  <2>4. QED
    BY <1>3, <1>6, <2>3
<1>12. CASE ReadProject(h)
  <2>1. CASE Return(h)
    BY <1>3, <1>4, <2>1
  <2>2. CASE ~Return(h)
    <3>1. PICK r, a :
             calls' = [calls EXCEPT ![h].pc = "update", ![h].seen = r, ![h].job.action = a]
      BY <1>12, <2>2 DEF ReadProject
    <3>2. PICK j : j = [calls[h].job EXCEPT !.action = a]
      OBVIOUS
    <3>3. PICK c : c = WithSeen(calls[h], "update", r, j)
      OBVIOUS
    <3>4. calls' = [calls EXCEPT ![h] = c]
      BY <1>1, <3>1, <3>2, <3>3 DEF CallsTyped, WithSeen
    <3>5. c.pc # "transact"
      BY <1>7, <3>3
    <3>6. QED
      BY <1>3, <1>6, <3>4, <3>5
  <2>3. QED
    BY <2>1, <2>2
<1>13. CASE UpdateProject(h)
  <2>1. PICK pc : pc = IF calls[h].job.action = "verify" THEN "verify" ELSE "init"
    OBVIOUS
  <2>2. PICK r, j : calls' = [calls EXCEPT ![h].pc = pc, ![h].seen = r, ![h].job = j]
    BY <1>13, <2>1 DEF UpdateProject
  <2>3. PICK c : c = WithSeen(calls[h], pc, r, j)
    OBVIOUS
  <2>4. calls' = [calls EXCEPT ![h] = c]
    BY <1>1, <2>2, <2>3 DEF CallsTyped, WithSeen
  <2>5. c.pc # "transact"
    BY <1>7, <2>1, <2>3
  <2>6. QED
    BY <1>3, <1>6, <2>4, <2>5
<1>14. CASE JobStep(h)
  <2>1. \A g \in Handlers \ {h} : calls'[g] = calls[g]
    BY <1>1, <1>14, JobStepElsewhere DEF Workers
  <2>2. CASE VerifyRepository(h) /\ ~Goto(h, "fail")
    <3>1. PICK f : calls' = [calls EXCEPT ![h].pc = "finish", ![h].job.fact = f]
      BY <2>2 DEF VerifyRepository
    <3>2. PICK j : j = [calls[h].job EXCEPT !.fact = f]
      OBVIOUS
    <3>3. PICK c : c = WithJob(calls[h], "finish", j)
      OBVIOUS
    <3>4. calls' = [calls EXCEPT ![h] = c]
      BY <1>1, <3>1, <3>2, <3>3 DEF CallsTyped, WithJob
    <3>5. c.pc # "transact"
      BY <1>7, <3>3
    <3>6. QED
      BY <1>3, <1>6, <3>4, <3>5
  <2>3. CASE ~(VerifyRepository(h) /\ ~Goto(h, "fail"))
    <3>1. \/ Return(h) \/ (calls' = calls /\ calls[h].pc = "build")
          \/ \E pc \in JobPcs : Goto(h, pc)
      BY <1>14, <2>3 DEF JobStep, Initialize, PreparePartial, MarkPartial, PublishPartial,
         BuildRepository, PromoteRepository, VerifyRepository, GitFails, FinishJob, JobPcs
    <3>2. calls'[h].pc # "transact"
      <4>1. "transact" \notin JobPcs /\ JobPcs \subseteq Pcs
        BY DEF JobPcs, Pcs
      <4>2. QED
        BY <1>4, <1>5, <3>1, <4>1
    <3>3. QED
      BY <1>3, <2>1, <3>2
  <2>4. QED
    BY <2>2, <2>3
<1>15. QED
  BY <1>8, <1>9, <1>10, <1>11, <1>12, <1>13, <1>14 DEF RequestStep

----------------------------------------------------------------------------
(* Permissions.                                                            *)

\* The counters only go down.
LEMMA LimitsStep ==
    ASSUME PlaneInv, LimitsTyped, [Next]_vars
    PROVE  LimitsTyped' /\ load' = load
<1>1. ASSUME NEW k \in Limits, Spend(k) PROVE LimitsTyped'
  BY <1>1 DEF Spend, LimitsTyped
<1>2. ASSUME NEW w, JobStep(w) PROVE left' = left /\ load' = load
  BY <1>2 DEF JobStep, Initialize, PreparePartial, MarkPartial, PublishPartial, BuildRepository,
     PromoteRepository, VerifyRepository, GitFails, FinishJob, jobFrame
<1>3. ASSUME NEW d \in Daemons, DaemonStep(d) \/ Start(d) \/ Healthy(d)
      PROVE  left' = left /\ load' = load
  BY <1>2, <1>3 DEF DaemonStep, Start, Healthy, AcquireDataDirLock, MigrateInTransaction,
     applyTaskBudgetMigration, applyProjectDeleteCapabilityMigration, MigrationRecorded, StoreOpened,
     QuarantineUnknown, Scanned, ReconcileCreating, ReconciledCreating, ReconcileActive, Reconciled,
     removeStaleSocket, ListenUnix, CloseListener, CloseStore, ReleaseLock, Exit, planeVars
<1>4. ASSUME NEW d \in Daemons, StartFails(d) \/ Degraded(d) \/ Stop(d) \/ Crash(d)
      PROVE  LimitsTyped' /\ load' = load
  BY <1>1, <1>4 DEF StartFails, Degraded, Stop, Crash, Limits
<1>5. ASSUME NEW h \in Handlers, RequestStep(h) PROVE left' = left /\ load' = load
  BY <1>5, HandlerMoves
<1>6. ASSUME NEW h \in Handlers, Call(h) PROVE LimitsTyped' /\ load' = load
  BY <1>1, <1>6 DEF Call, Limits
<1>7. CASE Outside \/ RepositoryLost
  BY <1>1, <1>7 DEF Outside, RepositoryLost, planeVars, LimitsTyped, Limits
<1>8. ASSUME left' = left PROVE LimitsTyped'
  BY <1>8 DEF LimitsTyped
<1>9. CASE UNCHANGED vars
  BY <1>8, <1>9 DEF vars, planeVars
<1>10. QED
  BY <1>3, <1>4, <1>5, <1>6, <1>7, <1>8, <1>9 DEF Next

\* Versions are recorded and never taken back.
LEMMA HistoryGrows == ASSUME PlaneInv, LimitsTyped, [Next]_vars PROVE history \subseteq history'
<1>1. ASSUME NEW d \in Daemons, MigrateInTransaction(d) PROVE history \subseteq history'
  BY <1>1 DEF MigrateInTransaction, CreateSchema, applyIsolationSpecMigration,
     applyParticipantRolesMigration, applyHumanTaskLifecycleMigration,
     applyAgentRuntimeConfigMigration, InTransaction
<1>2. ASSUME NEW d \in Daemons, MigrationRecorded(d) \/ applyProjectDeleteCapabilityMigration(d)
      PROVE  history \subseteq history'
  BY <1>2 DEF MigrationRecorded, RecordMigration, applyProjectDeleteCapabilityMigration, schemaVars
<1>3. ASSUME NEW d \in Daemons,
             DaemonStep(d) \/ Start(d) \/ StartFails(d) \/ Degraded(d) \/ Healthy(d) \/ Stop(d)
                \/ Crash(d)
      PROVE  history \subseteq history'
  BY <1>1, <1>2, <1>3, DaemonMoves DEF HandlersKept
<1>4. CASE \/ \E h \in Handlers : Call(h) \/ RequestStep(h)
           \/ Outside \/ RepositoryLost
  BY <1>4, RequestProcess
<1>5. CASE UNCHANGED vars
  BY <1>5 DEF vars, schemaVars
<1>6. QED
  BY <1>3, <1>4, <1>5 DEF Next

RoleCapabilities == {"role.manage", "role.bind"}

\* What the operator may do with roles, in bindings and role rows.
LEMMA GlobalCapabilities ==
    \A c : c \in EffectiveCapabilities(Owner, Global) <=>
             \E b \in bindings : b.who = Owner /\ b.scope = Global /\ c \in roles[b.role].caps
BY DEF EffectiveCapabilities

\* A database of the current version has no migration left that seeds or
\* grants.
LEMMA NoGrantAfterSeven ==
    ASSUME 7 \in history, NEW d \in Daemons
    PROVE  ~applyProjectDeleteCapabilityMigration(d) /\ ~applyParticipantRolesMigration
<1>1. ~ReadyFor(6) /\ ~ReadyFor(3)
  BY DEF ReadyFor, CanonicalDatabase, CanonicalHistory
<1>2. QED
  BY <1>1 DEF applyProjectDeleteCapabilityMigration, applyParticipantRolesMigration

\* A sealed operator's permissions are changed by nobody.
LEMMA SealedPermissions ==
    ASSUME PlaneInv, Sealed, [Next]_vars
    PROVE  RoleCapabilities \cap EffectiveCapabilities(Owner, Global)' = {}
<1> USE DEF RoleCapabilities
<1>1. /\ 7 \in history
      /\ RoleCapabilities \cap EffectiveCapabilities(Owner, Global) = {}
      /\ \A h \in Handlers : calls[h].pc = "transact" /\ Gated(calls[h].q) =>
            GateCapability(calls[h].q) \notin RoleCapabilities
  BY DEF Sealed
<1>2. ASSUME roles' = roles,
             \A b \in bindings' : b.who = Owner /\ b.scope = Global => b \in bindings
      PROVE  RoleCapabilities \cap EffectiveCapabilities(Owner, Global)' = {}
  <2>1. SUFFICES ASSUME NEW c \in RoleCapabilities, c \in EffectiveCapabilities(Owner, Global)'
                 PROVE  FALSE
    OBVIOUS
  <2>2. PICK b \in bindings' : b.who = Owner /\ b.scope = Global /\ c \in roles'[b.role].caps
    BY <2>1 DEF EffectiveCapabilities
  <2>3. c \in EffectiveCapabilities(Owner, Global)
    BY <1>2, <2>2, GlobalCapabilities
  <2>4. QED
    BY <1>1, <2>1, <2>3
<1>3. CASE UNCHANGED <<roles, bindings>>
  BY <1>2, <1>3
<1>4. ASSUME NEW d \in Daemons,
             DaemonStep(d) \/ Start(d) \/ StartFails(d) \/ Degraded(d) \/ Healthy(d) \/ Stop(d)
                \/ Crash(d)
      PROVE  UNCHANGED <<roles, bindings>>
  <2>1. CASE Quiet
    BY <2>1 DEF Quiet, sharedVars
  <2>2. CASE MigrateInTransaction(d)
    BY <1>1, <2>2, NoGrantAfterSeven DEF MigrateInTransaction, authorityVars
  <2>3. CASE applyProjectDeleteCapabilityMigration(d)
    BY <1>1, <2>3, NoGrantAfterSeven
  <2>4. QED
    BY <1>4, <2>1, <2>2, <2>3, DaemonStepData
<1>5. ASSUME NEW h \in Handlers, RequestStep(h)
      PROVE  RoleCapabilities \cap EffectiveCapabilities(Owner, Global)' = {}
  <2>1. CASE JobStep(h)
    BY <1>3, <2>1, JobStepData DEF Quiet, sharedVars
  <2>2. CASE Gate(h) \/ Preflight(h) \/ ReadProject(h) \/ Abort(h)
    BY <1>3, <2>2 DEF Gate, Preflight, ReadProject, Abort, dataVars, authorityVars
  <2>3. CASE UpdateProject(h)
    BY <1>3, <2>3 DEF UpdateProject, RepairProject
  <2>4. CASE InsertProject(h)
    <3>1. PICK p \in Projects : AddProject(calls[h].q, calls[h].job.initial, p)
      BY <2>4 DEF InsertProject
    <3>2. roles' = roles /\ bindings' = bindings \cup OperatorBindingsFor(p)
      BY <3>1 DEF AddProject
    <3>3. \A b \in OperatorBindingsFor(p) : b.scope = p
      BY DEF OperatorBindingsFor
    <3>4. p # Global
      BY AuthorityAssumption
    <3>5. \A b \in bindings' : b.who = Owner /\ b.scope = Global => b \in bindings
      BY <3>2, <3>3, <3>4
    <3>6. QED
      BY <1>2, <3>2, <3>5
  <2>5. CASE TransactProject(h)
    BY <1>2, <2>5 DEF TransactProject, ArchiveProject, DeleteProject, BindingsOutside, authorityVars
  <2>6. CASE TransactAuthority(h)
    <3>1. PICK q : q = calls[h].q
      OBVIOUS
    <3>2. calls[h].pc = "transact" /\ (Gated(q) => GateCapability(q) \notin RoleCapabilities)
      BY <1>1, <2>6, <3>1 DEF TransactAuthority
    <3>3. q.op \notin {"role.create", "role.update", "role.delete", "role.bind", "role.unbind"}
      BY <3>2 DEF Gated, GateCapability
    <3>4. AddCredential(q) \/ RotateCredential(q) \/ RevokeCredential(q)
      BY <2>6, <3>1, <3>3 DEF TransactAuthority
    <3>5. QED
      BY <1>3, <3>4 DEF AddCredential, RotateCredential, RevokeCredential
  <2>7. QED
    BY <1>5, <2>1, <2>2, <2>3, <2>4, <2>5, <2>6 DEF RequestStep
<1>6. ASSUME NEW h \in Handlers, Call(h) PROVE UNCHANGED <<roles, bindings>>
  BY <1>6 DEF Call, dataVars, authorityVars
<1>7. CASE Outside \/ RepositoryLost
  BY <1>3, <1>7 DEF Outside, RepositoryLost, SourceMoves, AdvanceCanonical, LoseRepository,
                    authorityVars, registryRowVars
<1>8. CASE UNCHANGED vars
  BY <1>3, <1>8 DEF vars, authorityVars
<1>9. QED
  BY <1>3, <1>4, <1>5, <1>6, <1>7, <1>8 DEF Next

\* No request passes the gate for what a sealed operator lost.
LEMMA SealedGates ==
    ASSUME PlaneInv, LimitsTyped, Sealed, [Next]_vars, NEW g \in Handlers,
           calls'[g].pc = "transact", Gated(calls'[g].q)
    PROVE  GateCapability(calls'[g].q) \notin RoleCapabilities
<1> USE DEF RoleCapabilities
<1>1. /\ RoleCapabilities \cap EffectiveCapabilities(Owner, Global) = {}
      /\ \A h \in Handlers : calls[h].pc = "transact" /\ Gated(calls[h].q) =>
            GateCapability(calls[h].q) \notin RoleCapabilities
  BY DEF Sealed
<1>2. CASE calls'[g] = calls[g]
  BY <1>1, <1>2
<1>3. calls'[g] # Idle
  BY EmptyTyped
<1>4. ASSUME NEW d \in Daemons,
             DaemonStep(d) \/ Start(d) \/ StartFails(d) \/ Degraded(d) \/ Healthy(d) \/ Stop(d)
                \/ Crash(d)
      PROVE  calls'[g] = calls[g]
  <2>1. CASE MigrateInTransaction(d)
    BY <2>1 DEF MigrateInTransaction, planeVars
  <2>2. CASE applyProjectDeleteCapabilityMigration(d) \/ MigrationRecorded(d)
    BY <2>2 DEF applyProjectDeleteCapabilityMigration, MigrationRecorded
  <2>3. QED
    BY <1>3, <1>4, <2>1, <2>2, DaemonMoves DEF HandlersKept
<1>5. ASSUME NEW h \in Handlers, RequestStep(h)
      PROVE  GateCapability(calls'[g].q) \notin RoleCapabilities
  <2>1. CASE h # g
    <3>1. calls'[g] = calls[g]
      BY <1>5, <2>1, HandlerMoves
    <3>2. QED
      BY <1>2, <3>1
  <2>2. CASE h = g
    <3>1. PICK q : q = calls[g].q
      OBVIOUS
    <3>2. calls'[g].q = q /\ OperatorHolds(GateCapability(q), GateScope(q))
      BY <1>5, <2>2, <3>1, HandlerMoves
    <3>3. CASE q.op \in {"project.repair", "project.delete"}
      BY <3>2, <3>3 DEF GateCapability
    <3>4. CASE q.op \notin {"project.repair", "project.delete"}
      <4>1. GateScope(q) = Global
        BY <3>4 DEF GateScope
      <4>2. GateCapability(q) \in EffectiveCapabilities(Owner, Global)
        BY <3>2, <4>1 DEF OperatorHolds
      <4>3. QED
        BY <1>1, <3>2, <4>2
    <3>5. QED
      BY <3>3, <3>4
  <2>3. QED
    BY <2>1, <2>2
<1>6. ASSUME NEW h \in Handlers, Call(h) PROVE calls'[g] = calls[g]
  <2>1. CallsTyped /\ h \in Workers /\ g \in Workers
    BY TypedParts DEF PlaneInv, Workers
  <2>2. PICK d \in Daemons, q \in load.requests :
          calls' = [calls EXCEPT ![h] =
              [Idle EXCEPT !.pc = IF Gated(q) THEN "gate" ELSE FirstStep(q), !.at = d, !.q = q]]
    BY <1>6 DEF Call
  <2>3. PICK pc, c : /\ pc = IF Gated(q) THEN "gate" ELSE FirstStep(q)
                     /\ c = WithRequest(Idle, pc, d, q)
    OBVIOUS
  <2>4. c = [pc |-> pc, at |-> d, q |-> q, seen |-> NoProject, job |-> NoJob]
    BY <2>3, EmptyTyped, Updated DEF Frame
  <2>5. calls' = [calls EXCEPT ![h] = c]
    BY <2>2, <2>3 DEF WithRequest
  <2>6. ~(c.pc = "transact" /\ Gated(c.q))
    BY <2>3, <2>4
  <2>7. QED
    BY <2>1, <2>5, <2>6 DEF CallsTyped
<1>7. CASE Outside \/ RepositoryLost \/ UNCHANGED vars
  BY <1>2, <1>7 DEF Outside, RepositoryLost, vars, planeVars
<1>8. QED
  BY <1>2, <1>4, <1>5, <1>6, <1>7 DEF Next

\* Counters hold throughout.
LEMMA LimitsInvariant == Spec => [](PlaneInv /\ TodoTyped /\ LimitsTyped)
<1>1. Init => LimitsTyped
  BY ControlPlaneAssumption DEF Init, LimitsTyped
<1>2. PlaneInv /\ TodoTyped /\ LimitsTyped /\ [Next]_vars => LimitsTyped'
  BY LimitsStep
<1>3. QED
  BY <1>1, <1>2, PlaneInvariant, PTL DEF Spec

\* Once the operator can manage neither roles nor bindings, and no request for
\* that is past requireOperatorCapability, no request, restart or migration
\* brings it back.
THEOREM SealedStays == Spec => SealedForGood
<1>1. ASSUME PlaneInv, LimitsTyped, Sealed, [Next]_vars PROVE Sealed'
  <2>1. 7 \in history'
    BY <1>1, HistoryGrows DEF Sealed
  <2>2. RoleCapabilities \cap EffectiveCapabilities(Owner, Global)' = {}
    BY <1>1, SealedPermissions
  <2>3. \A h \in Handlers : calls'[h].pc = "transact" /\ Gated(calls'[h].q) =>
           GateCapability(calls'[h].q) \notin RoleCapabilities
    BY <1>1, SealedGates
  <2>4. QED
    BY <2>1, <2>2, <2>3 DEF Sealed, RoleCapabilities
<1>2. PlaneInv /\ TodoTyped /\ LimitsTyped /\ [Next]_vars => [Sealed => Sealed']_vars
  BY <1>1
<1>3. QED
  BY <1>2, LimitsInvariant, PTL DEF Spec, SealedForGood

----------------------------------------------------------------------------
(* The upgrade.                                                            *)

OwnerBinding == [who |-> Owner, scope |-> Global, role |-> OwnerRole]

\* The grant of version 6 is written, its record perhaps not yet.
GrantWritten == 6 \in history \/ \E d \in Daemons : phase[d] = "record6"

\* Seeded and granted as the migrations left it.
OwnerRoleRow(row) == row = [state |-> row.state, name |-> row.name, caps |-> row.caps]

Unrequested ==
    /\ \A h \in Handlers : calls[h] = Idle
    /\ roles = [r \in RoleIds |-> roles[r]] /\ OwnerRoleRow(roles[OwnerRole])
    /\ 3 \in history => OwnerBinding \in bindings
    /\ GrantWritten => roles[OwnerRole].caps = AllCapabilities

\* Until the first request the seeded role is what the migrations made of it.
Granted ==
    /\ LimitsTyped /\ load.limits["calls"] \in Int
    /\ left["calls"] <= load.limits["calls"]
    /\ left["calls"] = load.limits["calls"] => Unrequested

\* The seeded role of an older release, as the model starts with it.
LEMMA GrantedInit == Init => Granted
<1> SUFFICES ASSUME Init PROVE Granted
  OBVIOUS
<1>1. /\ left = load.limits /\ load \in Workloads /\ calls = [w \in Workers |-> Idle]
      /\ phase = [d \in Daemons |-> "down"]
  BY DEF Init
<1>2. load.limits \in [Limits -> Nat]
  BY <1>1, ControlPlaneAssumption
<1>3. LimitsTyped /\ load.limits["calls"] \in Int /\ left["calls"] <= load.limits["calls"]
  BY <1>1, <1>2 DEF LimitsTyped, Limits
<1>4. PICK v \in load.versions :
        /\ history = CanonicalHistory(v) /\ roles = SeededRoles(v)
        /\ bindings = IF v < 3 THEN {} ELSE {OwnerBinding}
  BY DEF Init, OwnerBinding
<1>5. v \in 0..7
  BY <1>1, ControlPlaneAssumption DEF SchemaVersion
<1>6. (3 \in history => v >= 3) /\ (6 \in history => v >= 6)
  BY <1>4, <1>5 DEF CanonicalHistory
<1>7. \A h \in Handlers : calls[h] = Idle
  BY <1>1 DEF Workers
<1>8. ~\E d \in Daemons : phase[d] = "record6"
  BY <1>1
<1>9. /\ roles = [r \in RoleIds |-> roles[r]] /\ OwnerRoleRow(roles[OwnerRole])
      /\ v >= 6 => roles[OwnerRole].caps = AllCapabilities
  <2>1. roles = [r \in RoleIds |-> roles[r]]
    BY <1>4 DEF SeededRoles
  <2>2. roles[OwnerRole] = IF v >= 3
           THEN [state |-> "live", name |-> OwnerName,
                 caps |-> IF v < 6 THEN OldCapabilities ELSE AllCapabilities]
           ELSE NoRole
    BY <1>4, AuthorityAssumption DEF SeededRoles
  <2>3. OwnerRoleRow(roles[OwnerRole])
    BY <2>2 DEF OwnerRoleRow, NoRole
  <2>4. v >= 6 => roles[OwnerRole].caps = AllCapabilities
    BY <1>5, <2>2
  <2>5. QED
    BY <2>1, <2>3, <2>4
<1>10. 3 \in history => OwnerBinding \in bindings
  BY <1>4, <1>5, <1>6
<1>11. Unrequested
  BY <1>6, <1>7, <1>8, <1>9, <1>10 DEF Unrequested, GrantWritten
<1>12. QED
  BY <1>3, <1>11 DEF Granted

\* The migrations seed and grant before they record.
LEMMA MigrationGrants ==
    ASSUME Unrequested, NEW d \in Daemons,
           MigrateInTransaction(d) \/ applyProjectDeleteCapabilityMigration(d)
              \/ MigrationRecorded(d)
    PROVE  Unrequested'
<1>1. /\ calls' = calls /\ roles = [r \in RoleIds |-> roles[r]] /\ OwnerRole \in RoleIds
      /\ OwnerRoleRow(roles[OwnerRole])
  BY AuthorityAssumption DEF Unrequested, MigrateInTransaction, MigrationRecorded,
     applyProjectDeleteCapabilityMigration, planeVars
<1>2. \A h \in Handlers : calls'[h] = Idle
  BY <1>1 DEF Unrequested
<1>3. ASSUME UNCHANGED <<roles, bindings>>, 3 \in history' => 3 \in history,
             GrantWritten' => GrantWritten
      PROVE  Unrequested'
  BY <1>2, <1>3 DEF Unrequested
<1>4. CASE /\ MigrateInTransaction(d)
           /\ applyParticipantRolesMigration /\ SeedParticipants(AllCapabilities)
  <2>1. PICK row : row = [state |-> "live", name |-> OwnerName, caps |-> AllCapabilities]
    OBVIOUS
  <2>2. roles' = [roles EXCEPT ![OwnerRole] = row] /\ OwnerBinding \in bindings'
    BY <1>4, <2>1 DEF SeedParticipants, OwnerBinding
  <2>3. /\ roles' = [r \in RoleIds |-> roles'[r]] /\ roles'[OwnerRole] = row
    BY <1>1, <2>2
  <2>4. OwnerRoleRow(row) /\ row.caps = AllCapabilities
    BY <2>1 DEF OwnerRoleRow
  <2>5. QED
    BY <1>2, <2>2, <2>3, <2>4 DEF Unrequested
<1>5. CASE /\ MigrateInTransaction(d) /\ UNCHANGED authorityVars
           /\ \/ CreateSchema \/ applyIsolationSpecMigration \/ applyHumanTaskLifecycleMigration
              \/ applyAgentRuntimeConfigMigration
  <2>1. phase' = phase /\ UNCHANGED <<roles, bindings>>
    BY <1>5 DEF MigrateInTransaction, planeVars, authorityVars
  <2>2. \E v \in {1, 2, 4, 7} : history' = history \cup {v}
    BY <1>5 DEF CreateSchema, applyIsolationSpecMigration, applyHumanTaskLifecycleMigration,
       applyAgentRuntimeConfigMigration, InTransaction
  <2>3. (3 \in history' => 3 \in history) /\ (6 \in history' => 6 \in history)
    BY <2>2
  <2>4. QED
    BY <1>3, <2>1, <2>3 DEF GrantWritten
<1>6. CASE applyProjectDeleteCapabilityMigration(d)
  <2>1. PICK old, row : old = roles[OwnerRole] /\ row = [old EXCEPT !.caps = AllCapabilities]
    OBVIOUS
  <2>2. roles' = [roles EXCEPT ![OwnerRole] = row] /\ bindings' = bindings /\ history' = history
    BY <1>1, <1>6, <2>1 DEF applyProjectDeleteCapabilityMigration, GrantOwnerRole, schemaVars
  <2>3. row = [state |-> old.state, name |-> old.name, caps |-> AllCapabilities]
    BY <1>1, <2>1 DEF OwnerRoleRow
  <2>4. OwnerRoleRow(row) /\ row.caps = AllCapabilities
    BY <2>3 DEF OwnerRoleRow
  <2>5. /\ roles' = [r \in RoleIds |-> roles'[r]] /\ roles'[OwnerRole] = row
    BY <1>1, <2>2
  <2>6. QED
    BY <1>2, <2>2, <2>4, <2>5 DEF Unrequested
<1>7. CASE MigrationRecorded(d)
  <2>1. UNCHANGED <<roles, bindings>> /\ phase' = [phase EXCEPT ![d] = "open"]
    BY <1>7 DEF MigrationRecorded, authorityVars, Become
  <2>2. \/ history' = history \cup {5}
        \/ history' = history \cup {6} /\ phase[d] = "record6"
    BY <1>7 DEF MigrationRecorded, RecordMigration
  <2>3. 3 \in history' => 3 \in history
    BY <2>2
  <2>4. 6 \in history' => GrantWritten
    BY <2>2 DEF GrantWritten
  <2>5. ASSUME NEW e \in Daemons, phase'[e] = "record6" PROVE phase[e] = "record6"
    BY <2>1, <2>5
  <2>6. GrantWritten' => GrantWritten
    BY <2>4, <2>5 DEF GrantWritten
  <2>7. QED
    BY <1>3, <2>1, <2>3, <2>6
<1>8. QED
  BY <1>4, <1>5, <1>6, <1>7 DEF MigrateInTransaction

\* Every other step before the first request leaves the grant alone.
LEMMA GrantedStep ==
    ASSUME PlaneInv, Granted, [Next]_vars PROVE Granted'
<1>1. LimitsTyped' /\ load' = load /\ LimitsTyped
  BY LimitsStep DEF Granted
<1>2. "calls" \in Limits /\ left["calls"] \in Int /\ left'["calls"] \in Int
  BY <1>1 DEF LimitsTyped, Limits
<1>3. ASSUME left'["calls"] = left["calls"], Unrequested => Unrequested' PROVE Granted'
  BY <1>1, <1>3 DEF Granted
<1>4. ASSUME UNCHANGED <<roles, bindings>>, history' = history,
             \A h \in Handlers : calls'[h] = calls[h] \/ calls'[h] = Idle,
             \A e \in Daemons : phase'[e] = "record6" => phase[e] = "record6"
      PROVE  Unrequested => Unrequested'
  BY <1>4 DEF Unrequested, GrantWritten
<1>5. ASSUME NEW d \in Daemons,
             DaemonStep(d) \/ Start(d) \/ StartFails(d) \/ Degraded(d) \/ Healthy(d) \/ Stop(d)
                \/ Crash(d)
      PROVE  Granted'
  <2>1. CASE \/ MigrateInTransaction(d) \/ applyProjectDeleteCapabilityMigration(d)
             \/ MigrationRecorded(d)
    <3>1. left' = left
      BY <2>1 DEF MigrateInTransaction, applyProjectDeleteCapabilityMigration, MigrationRecorded,
                  planeVars
    <3>2. QED
      BY <1>3, <2>1, <3>1, MigrationGrants
  <2>2. CASE ~(\/ MigrateInTransaction(d) \/ applyProjectDeleteCapabilityMigration(d)
               \/ MigrationRecorded(d))
    <3>1. HandlersKept
      BY <1>1, <1>5, <2>2, DaemonMoves
    <3>2. UNCHANGED <<roles, bindings>>
      BY <1>5, <2>2, DaemonStepData DEF Quiet, sharedVars
    <3>3. QED
      BY <1>3, <1>4, <3>1, <3>2 DEF HandlersKept
  <2>3. QED
    BY <2>1, <2>2
<1>6. ASSUME NEW h \in Handlers, RequestStep(h) PROVE Granted'
  <2>1. ~Unrequested /\ left' = left
    BY <1>6, HandlerMoves DEF Unrequested
  <2>2. QED
    BY <1>3, <2>1
<1>7. ASSUME NEW h \in Handlers, Call(h) PROVE Granted'
  <2>1. left'["calls"] = left["calls"] - 1
    BY <1>1, <1>2, <1>7 DEF Call, Spend, LimitsTyped
  <2>2. load.limits["calls"] \in Int /\ left["calls"] <= load.limits["calls"]
    BY DEF Granted
  <2>3. left'["calls"] < load.limits["calls"]
    BY <1>2, <2>1, <2>2
  <2>4. left'["calls"] <= load.limits["calls"] /\ left'["calls"] # load.limits["calls"]
    BY <1>2, <2>2, <2>3
  <2>5. QED
    BY <1>1, <2>2, <2>4 DEF Granted
<1>8. CASE Outside \/ RepositoryLost
  <2>1. UNCHANGED <<phase, calls, history>> /\ (left' = left \/ Spend("losses"))
    BY <1>8 DEF Outside, RepositoryLost, planeVars, schemaVars
  <2>2. left'["calls"] = left["calls"]
    BY <1>1, <2>1 DEF Spend, LimitsTyped, Limits
  <2>3. UNCHANGED <<roles, bindings>>
    BY <1>8 DEF Outside, RepositoryLost, SourceMoves, AdvanceCanonical, LoseRepository,
                authorityVars, registryRowVars
  <2>4. QED
    BY <1>3, <1>4, <2>1, <2>2, <2>3
<1>9. CASE UNCHANGED vars
  BY <1>3, <1>4, <1>9 DEF vars, planeVars, schemaVars, authorityVars
<1>10. QED
  BY <1>5, <1>6, <1>7, <1>8, <1>9 DEF Next

\* A daemon that begins to listen has an operator with every capability,
\* although the database was seeded by an older release and the migration to
\* version 6, which writes the grant and its record separately, was
\* interrupted any number of times.
THEOREM OwnerGranted == Spec => []UpgradeGrantsOwner
<1>1. ASSUME ProcessInv, Granted PROVE UpgradeGrantsOwner
  <2>1. SUFFICES ASSUME NEW d \in Daemons, phase[d] \in Listening,
                        left["calls"] = load.limits["calls"]
                 PROVE  AllCapabilities \subseteq EffectiveCapabilities(Owner, Global)
    BY DEF UpgradeGrantsOwner
  <2>2. CanonicalDatabase(7)
    BY <1>1, <2>1 DEF ProcessInv, ServedSchema, SchemaVersion
  <2>3. 3 \in history /\ 6 \in history
    BY <2>2 DEF CanonicalDatabase, CanonicalHistory
  <2>4. OwnerBinding \in bindings /\ roles[OwnerRole].caps = AllCapabilities
    BY <1>1, <2>1, <2>3 DEF Granted, Unrequested, GrantWritten
  <2>5. OwnerBinding.who = Owner /\ OwnerBinding.scope = Global /\ OwnerBinding.role = OwnerRole
    BY DEF OwnerBinding
  <2>6. QED
    BY <2>4, <2>5, GlobalCapabilities
<1>2. PlaneInv /\ TodoTyped /\ Granted /\ [Next]_vars => Granted'
  BY GrantedStep
<1>3. PlaneInv /\ Granted => UpgradeGrantsOwner
  BY <1>1 DEF PlaneInv
<1>4. QED
  BY <1>2, <1>3, GrantedInit, PlaneInvariant, PTL DEF Spec

----------------------------------------------------------------------------
(* Types kept.                                                             *)

OtherTyped == socket \in Daemons \cup {None} /\ bindings \subseteq Binding

\* Only a process's own start and stop touch the socket.
LEMMA SocketStep ==
    ASSUME socket \in Daemons \cup {None}, [Next]_vars PROVE socket' \in Daemons \cup {None}
<1>1. ASSUME NEW w, JobStep(w) PROVE socket' = socket
  BY <1>1, JobStepProcess
<1>2. ASSUME NEW d \in Daemons, DaemonStep(d) PROVE socket' \in {socket, d, None}
  <2>1. CASE removeStaleSocket(d) \/ ListenUnix(d) \/ CloseListener(d)
    BY <2>1 DEF removeStaleSocket, ListenUnix, CloseListener
  <2>2. ASSUME ~removeStaleSocket(d), ~ListenUnix(d), ~CloseListener(d) PROVE socket' = socket
    BY <1>1, <1>2, <2>2 DEF DaemonStep, Start, AcquireDataDirLock, MigrateInTransaction,
       applyTaskBudgetMigration, applyProjectDeleteCapabilityMigration, MigrationRecorded,
       StoreOpened, QuarantineUnknown, Scanned, ReconcileCreating, ReconciledCreating,
       ReconcileActive, Reconciled, CloseStore, ReleaseLock, Exit, planeVars
  <2>3. QED
    BY <2>1, <2>2
<1>3. ASSUME NEW d \in Daemons,
             Start(d) \/ StartFails(d) \/ Degraded(d) \/ Healthy(d) \/ Stop(d) \/ Crash(d)
      PROVE  socket' = socket
  BY <1>3 DEF Start, StartFails, Degraded, Healthy, Stop, Crash
<1>4. CASE \/ \E h \in Handlers : Call(h) \/ RequestStep(h)
           \/ Outside \/ RepositoryLost
  BY <1>4, RequestProcess
<1>5. CASE UNCHANGED vars
  BY <1>5 DEF vars, planeVars
<1>6. QED
  BY <1>2, <1>3, <1>4, <1>5 DEF Next

\* What is bound are participants, scopes and roles.
LEMMA BindingsTyped ==
    ASSUME PlaneInv, bindings \subseteq Binding, [Next]_vars PROVE bindings' \subseteq Binding
<1>1. OwnerBinding \in Binding
  BY AuthorityAssumption DEF OwnerBinding, Binding, Scopes
<1>2. CASE bindings' \subseteq bindings
  BY <1>2
<1>3. ASSUME NEW d \in Daemons,
             DaemonStep(d) \/ Start(d) \/ StartFails(d) \/ Degraded(d) \/ Healthy(d) \/ Stop(d)
                \/ Crash(d)
      PROVE  bindings' \subseteq bindings \cup {OwnerBinding}
  <2>1. CASE Quiet
    BY <2>1 DEF Quiet, sharedVars
  <2>2. CASE MigrateInTransaction(d)
    BY <2>2 DEF MigrateInTransaction, authorityVars, SeedParticipants, OwnerBinding
  <2>3. CASE applyProjectDeleteCapabilityMigration(d)
    BY <2>3 DEF applyProjectDeleteCapabilityMigration, GrantOwnerRole
  <2>4. QED
    BY <1>3, <2>1, <2>2, <2>3, DaemonStepData
<1>4. ASSUME NEW h \in Handlers, RequestStep(h) PROVE bindings' \subseteq Binding
  <2>1. CASE JobStep(h)
    BY <1>2, <2>1, JobStepData DEF Quiet, sharedVars
  <2>2. CASE Gate(h) \/ Preflight(h) \/ ReadProject(h) \/ Abort(h)
    BY <1>2, <2>2 DEF Gate, Preflight, ReadProject, Abort, dataVars, authorityVars
  <2>3. CASE UpdateProject(h)
    BY <1>2, <2>3 DEF UpdateProject, RepairProject
  <2>4. CASE InsertProject(h)
    <3>1. PICK p \in Projects : AddProject(calls[h].q, calls[h].job.initial, p)
      BY <2>4 DEF InsertProject
    <3>2. OperatorBindingsFor(p) \subseteq Binding
      BY AuthorityAssumption DEF OperatorBindingsFor, Binding, Scopes
    <3>3. QED
      BY <3>1, <3>2 DEF AddProject
  <2>5. CASE TransactProject(h)
    BY <1>2, <2>5 DEF TransactProject, ArchiveProject, DeleteProject, BindingsOutside, authorityVars
  <2>6. CASE TransactAuthority(h)
    <3>1. PICK q : q = calls[h].q
      OBVIOUS
    <3>2. q.op = "role.bind" => q.who \in Participants /\ q.scope \in Scopes
      <4>1. calls[h] # Idle
        BY <1>4, HandlerMoves
      <4>2. q \in load.requests /\ load \in Workloads
        BY <3>1, <4>1 DEF PlaneInv, Located, Typed
      <4>3. QED
        BY <4>2, ControlPlaneAssumption DEF Named
    <3>3. CASE q.op = "role.bind" /\ BindParticipantRole(q, q.scope \in Rows)
      BY <3>2, <3>3 DEF BindParticipantRole, LiveRoles, Binding
    <3>4. ASSUME \/ CreateRole(q) \/ UpdateRole(q) \/ DeleteRole(q) \/ UnbindParticipantRole(q)
                 \/ AddCredential(q) \/ RotateCredential(q) \/ RevokeCredential(q)
          PROVE  bindings' \subseteq bindings
      BY <3>4 DEF CreateRole, UpdateRole, DeleteRole, UnbindParticipantRole, AddCredential,
                  RotateCredential, RevokeCredential
    <3>5. QED
      BY <1>2, <2>6, <3>1, <3>3, <3>4 DEF TransactAuthority
  <2>7. QED
    BY <1>4, <2>1, <2>2, <2>3, <2>4, <2>5, <2>6 DEF RequestStep
<1>5. ASSUME NEW h \in Handlers, Call(h) PROVE bindings' = bindings
  BY <1>5 DEF Call, dataVars, authorityVars
<1>6. CASE Outside \/ RepositoryLost
  BY <1>2, <1>6 DEF Outside, RepositoryLost, SourceMoves, AdvanceCanonical, LoseRepository,
                    authorityVars, registryRowVars
<1>7. CASE UNCHANGED vars
  BY <1>2, <1>7 DEF vars, authorityVars
<1>8. QED
  BY <1>1, <1>2, <1>3, <1>4, <1>5, <1>6, <1>7 DEF Next

\* The first bindings are the owner's.
LEMMA OtherInit == Init => OtherTyped
<1> SUFFICES ASSUME Init PROVE OtherTyped
  OBVIOUS
<1>1. socket = None /\ bindings \subseteq {OwnerBinding}
  BY DEF Init, OwnerBinding
<1>2. OwnerBinding \in Binding
  BY AuthorityAssumption DEF OwnerBinding, Binding, Scopes
<1>3. QED
  BY <1>1, <1>2 DEF OtherTyped

\* Every row, file and counter keeps its type: in particular a row has a
\* pending action exactly while it is creating, a binding is between what
\* exists in the program, and the database has objects and versions of known
\* migrations only.
THEOREM TypesKept == Spec => []TypeOK
<1>1. ASSUME PlaneInv, TodoTyped, OtherTyped PROVE TypeOK
  <2>1. phase \in [Daemons -> Ended \cup LockHeld \cup {"lock", "closed"}]
    BY <1>1 DEF PlaneInv, ProcessInv
  <2>2. \A w \in Workers : [pc |-> calls[w].pc, at |-> calls[w].at] \in CallTypes
    <3>1. ASSUME NEW w \in Workers
          PROVE  calls[w].pc \in Pcs /\ calls[w].at \in Daemons \cup {None}
      BY <1>1 DEF PlaneInv, Typed, Frame
    <3>2. QED
      BY <3>1 DEF CallTypes, Pcs, JobPcs
  <2>3. objects \subseteq DDLVersions /\ history \subseteq 1..SchemaVersion
    <3>1. HalfBudget \/ \E v \in 0..SchemaVersion : CanonicalDatabase(v)
      BY <1>1 DEF PlaneInv, ProcessInv, SchemaShape
    <3>2. CASE HalfBudget
      BY <3>2 DEF HalfBudget, CanonicalObjects, CanonicalHistory, SchemaVersion
    <3>3. CASE \E v \in 0..SchemaVersion : CanonicalDatabase(v)
      BY <3>3 DEF CanonicalDatabase, CanonicalObjects, CanonicalHistory, SchemaVersion
    <3>4. QED
      BY <3>1, <3>2, <3>3
  <2>4. ASSUME NEW p \in Projects
        PROVE  /\ projects[p].status \in Statuses /\ projects[p].action \in Actions
               /\ (projects[p].status = "creating") <=> (projects[p].action # "")
    <3>1. Row(projects[p]) /\ RowsSound
      BY <1>1 DEF PlaneInv, Typed, RegistryInv
    <3>2. QED
      BY <3>1 DEF Row, RowsSound
  <2>5. lastOp \in 0..MaxOps /\ quarantine \subseteq OpIds
    BY <1>1 DEF PlaneInv, Typed
  <2>6. QED
    BY <1>1, <2>1, <2>2, <2>3, <2>4, <2>5 DEF TypeOK, OtherTyped, TodoTyped, Statuses, Actions
<1>2. PlaneInv /\ TodoTyped /\ OtherTyped /\ [Next]_vars => OtherTyped'
  BY SocketStep, BindingsTyped DEF OtherTyped
<1>3. QED
  BY <1>1, <1>2, OtherInit, PlaneInvariant, PTL DEF Spec

=============================================================================
