-------------------------- MODULE ProjectRegistry --------------------------
(***************************************************************************)
(* Project rows and their control repositories: registration, repair,      *)
(* startup reconciliation, archival and deletion (core/project.go,         *)
(* core/project_delete.go), the staged creation of a repository            *)
(* (gitrepo/initializer.go) and the quarantine of what no row explains     *)
(* (gitrepo/quarantine.go).                                                *)
(*                                                                         *)
(* Row actions are transactions.  Repository actions are steps of a job: a *)
(* record with the project, the pending operation, the commit the          *)
(* registration fixed and how far the job got.  Commits of one history are *)
(* numbers: a branch at n contains every commit up to n.                   *)
(***************************************************************************)
EXTENDS Authority

CONSTANTS MaxOps,     \* operation ids the model hands out
          MaxCommit   \* the last commit of the source's history

ASSUME RegistryAssumption == MaxOps \in Nat \ {0} /\ MaxCommit \in Nat \ {0}

VARIABLES projects,     \* project rows
          finals,       \* repos/<project>.git
          partials,     \* repos/.partial/<project>/<operation>.git
          quarantine,   \* repos/.quarantine, by the operation that made it
          lastOp,       \* operation ids handed out so far
          source,       \* where the source's branch is
          registered,   \* history: which request inserted which project
          damaged       \* history: projects whose repository was lost

registryVars == <<projects, finals, partials, quarantine, lastOp, source, registered, damaged>>

OpIds == 1..MaxOps
NoOp == 0
NoCommit == 0

\* How far a partial repository was built: an empty directory, a temporary
\* marker file in it, the marker, then a bare repository (4), the initial
\* commit under its initialization ref (5), the canonical ref and HEAD.
EmptyDir == 1
Temporary == 2
Marked == 3
Complete == 6

NoProject == [status |-> "none", name |-> None, action |-> "", op |-> NoOp, initial |-> NoCommit,
              canonical |-> NoCommit, version |-> 0]
NoFinal == [op |-> NoOp, initial |-> NoCommit, canonical |-> NoCommit]
NoPartial == [project |-> None, initial |-> NoCommit, stage |-> 0]

NoJob == [project |-> None, op |-> NoOp, initial |-> NoCommit, action |-> "", fact |-> NoCommit]

Rows == {p \in Projects : projects[p].status \notin {"none", "deleted"}}
RowsIn(status) == {p \in Projects : projects[p].status = status}

Exists(p) == finals[p] # NoFinal

RegistryInit ==
    /\ projects = [p \in Projects |-> NoProject]
    /\ finals = [p \in Projects |-> NoFinal]
    /\ partials = [o \in OpIds |-> NoPartial]
    /\ quarantine = {}
    /\ lastOp = NoOp
    /\ source = 1
    /\ registered = {}
    /\ damaged = {}

repoVars == <<finals, partials, quarantine>>

----------------------------------------------------------------------------
(* Rows.                                                                   *)

\* Mutant: the source's branch is resolved again.
IntentResolvedAgain(p, row) ==
    [project |-> p, op |-> row.op, initial |-> source, action |-> row.action, fact |-> NoCommit]

\* projectIntent: what the Git side of a pending action is given.
projectIntent(p, row) ==
    [project |-> p, op |-> row.op, initial |-> row.initial, action |-> row.action,
     fact |-> NoCommit]

\* Mutant: only the call before the transaction looks the request up.
AddUnanswered(q, initial, p) ==
    /\ lastOp < MaxOps
    /\ \A r \in Rows : projects[r].name # q.name
    /\ projects[p].status = "none"
    /\ projects' = [projects EXCEPT ![p] =
          [status |-> "creating", name |-> q.name, action |-> "initialize", op |-> lastOp + 1,
           initial |-> initial, canonical |-> NoCommit, version |-> 1]]
    /\ lastOp' = lastOp + 1
    /\ registered' = registered \cup {[key |-> q.key, project |-> p]}
    /\ bindings' = bindings \cup OperatorBindingsFor(p)
    /\ UNCHANGED <<repoVars, source, damaged, roles, credentials, pinned, dedupes>>

\* The transaction of AddProject; initial is what Preflight resolved before.
AddProject(q, initial, p) ==
    /\ lastOp < MaxOps
    /\ Answered("project.add", q.key) = {}
    /\ \A r \in Rows : projects[r].name # q.name
    /\ projects[p].status = "none"
    /\ projects' = [projects EXCEPT ![p] =
          [status |-> "creating", name |-> q.name, action |-> "initialize", op |-> lastOp + 1,
           initial |-> initial, canonical |-> NoCommit, version |-> 1]]
    /\ lastOp' = lastOp + 1
    /\ registered' = registered \cup {[key |-> q.key, project |-> p]}
    /\ bindings' = bindings \cup OperatorBindingsFor(p)
    /\ Record("project.add", q.key, p)
    /\ UNCHANGED <<repoVars, source, damaged, roles, credentials, pinned>>

\* Mutant: a missing repository is made again.
RebuildMissing(row, exists) == IF ~exists THEN "initialize" ELSE "verify"

\* Never rebuild the code of a project that was active from the commit it
\* was registered with.
RepairAction(row, exists) ==
    IF row.canonical = NoCommit /\ ~exists THEN "initialize" ELSE "verify"

\* The transaction of RepairProject, compare-and-swap on the row read before.
RepairProject(q, seen, action) ==
    /\ lastOp < MaxOps
    /\ projects[q.project].status = "error"
    /\ projects[q.project].version = seen.version
    /\ Answered("project.repair", q.key) = {}
    /\ projects' = [projects EXCEPT ![q.project] =
          [status |-> "creating", name |-> seen.name, action |-> action, op |-> lastOp + 1,
           initial |-> seen.initial, canonical |-> seen.canonical, version |-> seen.version + 1]]
    /\ lastOp' = lastOp + 1
    /\ Record("project.repair", q.key, q.project)
    /\ UNCHANGED <<repoVars, source, registered, damaged, roles, bindings, credentials, pinned>>

\* Mutant: the finished action stays on the row.
FinishedStillPending(j, ok) ==
    LET row == projects[j.project]
    IN /\ row.status = "creating"
       /\ row.op = j.op
       /\ projects' = [projects EXCEPT ![j.project] =
             [row EXCEPT !.status = IF ok THEN "active" ELSE "error",
                         !.canonical = IF ok THEN j.fact ELSE @, !.version = @ + 1]]
       /\ UNCHANGED <<repoVars, lastOp, source, registered, damaged, authorityVars>>

\* finishProjectAction: only while the row still waits for this operation.
finishProjectAction(j, ok) ==
    LET row == projects[j.project]
    IN /\ row.status = "creating"
       /\ row.op = j.op
       /\ projects' = [projects EXCEPT ![j.project] =
             [row EXCEPT !.status = IF ok THEN "active" ELSE "error",
                         !.canonical = IF ok THEN j.fact ELSE @,
                         !.action = "", !.op = NoOp, !.version = @ + 1]]
       /\ UNCHANGED <<repoVars, lastOp, source, registered, damaged, authorityVars>>

\* finishActiveVerification writes only what changed.
finishActiveVerification(p, ok) ==
    LET row == projects[p]
    IN /\ row.status = "active"
       /\ projects' = [projects EXCEPT ![p] =
             IF ~ok THEN [row EXCEPT !.status = "error", !.version = @ + 1]
             ELSE IF row.canonical = finals[p].canonical THEN row
             ELSE [row EXCEPT !.canonical = finals[p].canonical, !.version = @ + 1]]
       /\ UNCHANGED <<repoVars, lastOp, source, registered, damaged, authorityVars>>

\* What blocks an archival in the ledger is TaskLedger's subject.
ArchiveProject(q) ==
    /\ q.project \in Rows
    /\ projects[q.project].action = ""
    /\ projects[q.project].status \in {"active", "error"}
    /\ projects' = [projects EXCEPT ![q.project].status = "archived", ![q.project].version = @ + 1]
    /\ UNCHANGED <<repoVars, lastOp, source, registered, damaged, authorityVars>>

\* The row, what hangs on it and its bindings go.  The port that would put
\* the repository away (ProjectGitDispose) has no implementation.
DeleteProject(q) ==
    /\ Answered("project.delete", q.key) = {}
    /\ q.project \in Rows
    /\ projects[q.project].action = ""
    /\ projects[q.project].status = "archived"
    /\ projects' = [projects EXCEPT ![q.project] = [NoProject EXCEPT !.status = "deleted"]]
    /\ bindings' = BindingsOutside(q.project)
    /\ Record("project.delete", q.key, q.project)
    /\ UNCHANGED <<repoVars, lastOp, source, registered, damaged, roles, credentials, pinned>>

----------------------------------------------------------------------------
(* Repositories.                                                           *)

registryRowVars == <<projects, lastOp, source, registered, damaged, authorityVars>>

Stage(o) == partials[o].stage

\* preparePartial: the directory is made, or an earlier attempt made it.
MakePartial(j) ==
    /\ partials' = IF partials[j.op] # NoPartial THEN partials
                   ELSE [partials EXCEPT ![j.op] =
                            [project |-> j.project, initial |-> NoCommit, stage |-> EmptyDir]]
    /\ UNCHANGED <<finals, quarantine, registryRowVars>>

\* writeMarker, first half: a temporary file in the empty directory.
WriteTemporaryMarker(j) ==
    /\ Stage(j.op) = EmptyDir
    /\ partials' = [partials EXCEPT ![j.op].stage = Temporary]
    /\ UNCHANGED <<finals, quarantine, registryRowVars>>

\* The marker of an earlier attempt at the same operation is accepted.
MarkerMatches(j) ==
    /\ Stage(j.op) >= Marked
    /\ partials[j.op].project = j.project
    /\ partials[j.op].initial = j.initial

\* "refusing to adopt unmarked partial repository", or someone else's marker.
PartialRefused(j) == Stage(j.op) # EmptyDir /\ ~MarkerMatches(j)

\* writeMarker, second half: the rename.
PublishMarker(j) ==
    /\ Stage(j.op) >= Temporary
    /\ partials' = [partials EXCEPT ![j.op].stage = IF @ = Temporary THEN Marked ELSE @,
                                    ![j.op].initial = j.initial]
    /\ UNCHANGED <<finals, quarantine, registryRowVars>>

\* A write that fails takes its temporary file away again.
DropTemporaryMarker(j) ==
    /\ partials' = [partials EXCEPT ![j.op].stage = IF @ = Temporary THEN EmptyDir ELSE @]
    /\ UNCHANGED <<finals, quarantine, registryRowVars>>

\* git init, ensureInitialObject and ensureCanonical: each goes on from what
\* it finds.  Nothing reads the source's branch again.
BuildPartial(j) ==
    /\ Stage(j.op) \in Marked..(Complete - 1)
    /\ partials' = [partials EXCEPT ![j.op].stage = @ + 1]
    /\ UNCHANGED <<finals, quarantine, registryRowVars>>

\* Rename to the final path, refused when something is there.
PromotePartial(j) ==
    /\ Stage(j.op) = Complete
    /\ ~Exists(j.project)
    /\ finals' = [finals EXCEPT ![j.project] =
                     [op |-> j.op, initial |-> partials[j.op].initial,
                      canonical |-> partials[j.op].initial]]
    /\ partials' = [partials EXCEPT ![j.op] = NoPartial]
    /\ UNCHANGED <<quarantine, registryRowVars>>

\* verifyRepository: marker of this project, fsck, canonical ref.
RepositoryValid(p, initial) == Exists(p) /\ finals[p].initial = initial

\* verifyInitialized also wants the initial commit in the canonical branch.
InitializedValid(p, initial) == RepositoryValid(p, initial) /\ finals[p].canonical >= initial

\* Another component advances the canonical branch; the row's copy follows in
\* a later transaction, or at the next start.
AdvanceCanonical(p) ==
    /\ projects[p].status = "active"
    /\ Exists(p)
    /\ finals[p].canonical < MaxCommit
    /\ finals' = [finals EXCEPT ![p].canonical = @ + 1]
    /\ UNCHANGED <<partials, quarantine, registryRowVars>>

----------------------------------------------------------------------------
\* QuarantineUnknown keeps the final repositories of the rows and the partial
\* repository of each pending initialization.
KnownPartial(o) ==
    LET p == partials[o].project
    IN /\ p \in Rows
       /\ projects[p].status = "creating"
       /\ projects[p].action = "initialize"
       /\ projects[p].op = o

UnknownFinals == {p \in Projects : Exists(p) /\ p \notin Rows}
UnknownPartials == {o \in OpIds : partials[o] # NoPartial /\ ~KnownPartial(o)}
UnknownRepositories == UnknownFinals # {} \/ UnknownPartials # {}

\* One rename at a time: a start may die between two of them.
QuarantineFinal(p) ==
    /\ p \in UnknownFinals
    /\ quarantine' = quarantine \cup {finals[p].op}
    /\ finals' = [finals EXCEPT ![p] = NoFinal]
    /\ UNCHANGED <<partials, registryRowVars>>

QuarantinePartial(o) ==
    /\ o \in UnknownPartials
    /\ quarantine' = quarantine \cup {o}
    /\ partials' = [partials EXCEPT ![o] = NoPartial]
    /\ UNCHANGED <<finals, registryRowVars>>

----------------------------------------------------------------------------
(* The world outside.                                                      *)

\* Somebody commits to the source.
SourceMoves ==
    /\ source < MaxCommit
    /\ source' = source + 1
    /\ UNCHANGED <<projects, repoVars, lastOp, registered, damaged, authorityVars>>

\* A control repository is lost with the disk it was on.
LoseRepository(p) ==
    /\ Exists(p)
    /\ p \in Rows
    /\ finals' = [finals EXCEPT ![p] = NoFinal]
    /\ damaged' = damaged \cup {p}
    /\ UNCHANGED <<projects, partials, quarantine, lastOp, source, registered, authorityVars>>
=============================================================================
