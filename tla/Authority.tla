----------------------------- MODULE Authority -----------------------------
(***************************************************************************)
(* Participants, roles, role bindings and operator credentials             *)
(* (core/participant_roles.go, core/participant.go, core/credentials.go),  *)
(* and the record of the requests already answered (core/mutation.go).     *)
(*                                                                         *)
(* Every action is one transaction.  Whether the operator may ask for it   *)
(* is decided by OperatorHolds in a transaction before it.                 *)
(***************************************************************************)
EXTENDS Integers, FiniteSets

CONSTANTS Participants, Owner,      \* participant-owner and the agents
          RoleIds, OwnerRole,       \* role ids; role-owner is seeded
          OwnerName,                \* the name role-owner is seeded with
          CredentialIds, Secrets,   \* credential ids and secrets
          Projects, Global,         \* the scopes of a binding
          None

ASSUME AuthorityAssumption ==
    /\ Owner \in Participants
    /\ OwnerRole \in RoleIds
    /\ Global \notin Projects
    /\ None # OwnerName
    /\ None \notin Participants \cup RoleIds \cup CredentialIds \cup Secrets

VARIABLES roles,        \* role rows
          bindings,     \* participant_project_role rows
          credentials,  \* credential rows
          pinned,       \* participants.credential_id
          dedupes       \* request_dedupes rows

authorityVars == <<roles, bindings, credentials, pinned, dedupes>>

\* The capabilities of the registry that gate the operations modelled here.
AllCapabilities ==
    {"participant.manage", "role.manage", "role.bind", "project.repair", "project.delete"}

\* A database that was seeded before project.delete existed.
OldCapabilities == AllCapabilities \ {"project.delete"}

Scopes == Projects \cup {Global}
Binding == [who: Participants, scope: Scopes, role: RoleIds]

NoRole == [state |-> "unused", name |-> None, caps |-> {}]
NoCredential == [of |-> None, secret |-> None, status |-> "unused"]

LiveRoles == {r \in RoleIds : roles[r].state = "live"}

----------------------------------------------------------------------------
\* ParticipantCapabilities: roles bound in the scope itself or globally, each
\* with the capabilities its row has now.
EffectiveCapabilities(who, scope) ==
    UNION {roles[b.role].caps : b \in {c \in bindings : c.who = who /\ c.scope \in {scope, Global}}}

\* Mutant: it is enough that somebody holds the capability.
SomebodyHolds(capability, scope) ==
    \E w \in Participants : capability \in EffectiveCapabilities(w, scope)

\* requireOperatorCapability: always about the default human participant.
OperatorHolds(capability, scope) == capability \in EffectiveCapabilities(Owner, scope)

participantManageHolders ==
    {w \in Participants : "participant.manage" \in EffectiveCapabilities(w, Global)}

\* Mutant: the binding that is about to go counts as another one.
RetainedBySame(who, role, capability) ==
    \E b \in bindings : b.who = who /\ b.scope = Global /\ capability \in roles[b.role].caps

participantRetainsGlobalCapability(who, role, capability) ==
    \E b \in bindings : /\ b.who = who /\ b.scope = Global /\ b.role # role
                        /\ capability \in roles[b.role].caps

\* What an earlier request under the same id left, if any.
Answered(op, key) == {e \in dedupes : e.op = op /\ e.key = key}

\* The same id with other input is answered with a conflict: either way the
\* transaction changes nothing, so the input is not kept here.
Record(op, key, id) == dedupes' = dedupes \cup {[op |-> op, key |-> key, id |-> id]}

CredentialsOf(who) == {c \in CredentialIds : credentials[c].of = who}
ActiveOf(who) == {c \in CredentialsOf(who) : credentials[c].status = "active"}

\* AuthenticateOperator: before the first credential row everyone is the
\* operator; afterwards only an active credential's secret is.
Authenticates(secret) ==
    \/ CredentialsOf(Owner) = {}
    \/ \E c \in ActiveOf(Owner) : credentials[c].secret = secret

----------------------------------------------------------------------------
\* Migration 3 seeds the owner, the owner role and its global binding.
SeedParticipants(caps) ==
    /\ roles' = [roles EXCEPT ![OwnerRole] = [state |-> "live", name |-> OwnerName, caps |-> caps]]
    /\ bindings' = bindings \cup {[who |-> Owner, scope |-> Global, role |-> OwnerRole]}
    /\ UNCHANGED <<credentials, pinned, dedupes>>

\* Mutant: INSERT OR IGNORE, which an existing row ignores.
GrantMissing ==
    /\ roles' = [roles EXCEPT ![OwnerRole].caps = IF @ = {} THEN AllCapabilities ELSE @]
    /\ UNCHANGED <<bindings, credentials, pinned, dedupes>>

\* Migration 6 writes the registry's current list into the owner role.
GrantOwnerRole ==
    /\ roles' = [roles EXCEPT ![OwnerRole].caps = AllCapabilities]
    /\ UNCHANGED <<bindings, credentials, pinned, dedupes>>

CreateRole(q) ==
    /\ Answered("role.create", q.key) = {}
    /\ \A r \in LiveRoles : roles[r].name # q.name
    /\ \E r \in RoleIds :
          /\ roles[r].state = "unused"
          /\ roles' = [roles EXCEPT ![r] = [state |-> "live", name |-> q.name, caps |-> q.caps]]
          /\ Record("role.create", q.key, r)
    /\ UNCHANGED <<bindings, credentials, pinned>>

\* The name is unique in the schema; the capabilities are replaced whoever
\* holds the role.
UpdateRole(q) ==
    /\ q.role \in LiveRoles
    /\ \A r \in LiveRoles \ {q.role} : roles[r].name # q.name
    /\ roles' = [roles EXCEPT ![q.role].name = q.name, ![q.role].caps = q.caps]
    /\ UNCHANGED <<bindings, credentials, pinned, dedupes>>

DeleteRole(q) ==
    /\ q.role \in LiveRoles
    /\ \A b \in bindings : b.role # q.role
    /\ roles' = [roles EXCEPT ![q.role] = [state |-> "deleted", name |-> None, caps |-> {}]]
    /\ UNCHANGED <<bindings, credentials, pinned, dedupes>>

\* scopeExists says that a project scope names a project row.
BindParticipantRole(q, scopeExists) ==
    /\ q.role \in LiveRoles
    /\ q.scope = Global \/ scopeExists
    /\ [who |-> q.who, scope |-> q.scope, role |-> q.role] \notin bindings
    /\ bindings' = bindings \cup {[who |-> q.who, scope |-> q.scope, role |-> q.role]}
    /\ UNCHANGED <<roles, credentials, pinned, dedupes>>

LastHolder(q) ==
    /\ q.scope = Global
    /\ "participant.manage" \in roles[q.role].caps
    /\ participantManageHolders = {q.who}
    /\ ~participantRetainsGlobalCapability(q.who, q.role, "participant.manage")

UnbindParticipantRole(q) ==
    /\ q.role \in LiveRoles
    /\ ~LastHolder(q)
    /\ [who |-> q.who, scope |-> q.scope, role |-> q.role] \in bindings
    /\ bindings' = bindings \ {[who |-> q.who, scope |-> q.scope, role |-> q.role]}
    /\ UNCHANGED <<roles, credentials, pinned, dedupes>>

----------------------------------------------------------------------------
\* issueCredential: a new active row, pinned on the participant.
issueCredential(rows, q) ==
    \E c \in CredentialIds :
        /\ rows[c].status = "unused"
        /\ credentials' = [rows EXCEPT ![c] = [of |-> q.who, secret |-> q.secret, status |-> "active"]]
        /\ pinned' = [pinned EXCEPT ![q.who] = c]

Revoked(c) == [credentials EXCEPT ![c].status = "revoked"]

\* AddCredential looks its request up but does not record it.
AddCredential(q) ==
    /\ Answered("credential.add", q.key) = {}
    /\ ActiveOf(q.who) = {}
    /\ issueCredential(credentials, q)
    /\ UNCHANGED <<roles, bindings, dedupes>>

RotateCredential(q) ==
    /\ \E c \in ActiveOf(q.who) : issueCredential(Revoked(c), q)
    /\ UNCHANGED <<roles, bindings, dedupes>>

RevokeCredential(q) ==
    /\ Answered("credential.revoke", q.key) = {}
    /\ \E c \in ActiveOf(q.who) :
          /\ credentials' = Revoked(c)
          /\ Record("credential.revoke", q.key, c)
    /\ UNCHANGED <<roles, bindings, pinned>>

----------------------------------------------------------------------------
\* bindOperatorGlobalRoles: the operator's global bindings, in a new project.
OperatorBindingsFor(p) ==
    {[who |-> Owner, scope |-> p, role |-> b.role] :
        b \in {c \in bindings : c.who = Owner /\ c.scope = Global}}

\* Mutant: the bindings stay.
EveryBinding(p) == bindings

\* DeleteProjectBindings.
BindingsOutside(p) == {b \in bindings : b.scope # p}
=============================================================================
