--------------------------- MODULE MCControlPlane ---------------------------
(***************************************************************************)
(* Small instances of ControlPlane for TLC.  A behaviour follows one of    *)
(* the workloads below, so that the state spaces of unrelated requests add *)
(* up instead of multiplying.                                              *)
(***************************************************************************)
EXTENDS ControlPlane

CONSTANTS owner, agent, ownerRole, newRole, p1, k1, k2, d1, d2, h1, h2

\* At most this many calls, deaths, stops, outages and lost repositories.
AtMost(c, k, s, o, l) == [calls |-> c, crashes |-> k, stops |-> s, outages |-> o, losses |-> l]

Quiet == [versions |-> {7}, legacy |-> {FALSE}, daemons |-> {d1}, handlers |-> {h1, h2},
          requests |-> {}, limits |-> AtMost(0, 0, 0, 0, 0)]

\* Two processes start on every kind of database, with two deaths and an
\* orderly stop.
Upgrade == [Quiet EXCEPT !.versions = 0..7, !.legacy = BOOLEAN, !.daemons = {d1, d2},
                         !.limits = AtMost(0, 2, 1, 1, 0)]

Add(k) == [op |-> "project.add", key |-> k, name |-> "n"]
Repair(k) == [op |-> "project.repair", key |-> k, project |-> p1]
Archive == [op |-> "project.archive", project |-> p1]
Delete(k) == [op |-> "project.delete", key |-> k, project |-> p1]

\* One name, registered by two requests at once, and a death.
Registration == [Quiet EXCEPT !.requests = {Add(k1), Add(k2)}, !.limits = AtMost(2, 1, 0, 0, 0)]

\* Repairs of a registration that failed, overlapping.
Repairs == [Quiet EXCEPT !.requests = {Add(k1), Repair(k1), Repair(k2)},
                         !.limits = AtMost(3, 0, 0, 0, 0)]

\* A repository is lost, a restart notices it, a repair follows.
Loss == [Quiet EXCEPT !.requests = {Add(k1), Repair(k1)}, !.handlers = {h1},
                      !.limits = AtMost(2, 1, 0, 0, 1)]

\* A project comes and goes, its request is repeated, the daemon dies.
Removal == [Quiet EXCEPT !.requests = {Add(k1), Archive, Delete(k1)}, !.handlers = {h1},
                         !.limits = AtMost(4, 1, 0, 0, 0)]

\* A stop that does not wait for a registration, and a successor.
Handover == [Quiet EXCEPT !.requests = {Add(k1)}, !.handlers = {h1}, !.daemons = {d1, d2},
                          !.limits = AtMost(1, 0, 1, 0, 0)]

\* Bindings in the scope of a project that comes and goes.
ProjectScope ==
    [Quiet EXCEPT !.requests = {Add(k1), Archive, Delete(k1),
                                [op |-> "role.bind", who |-> agent, scope |-> p1, role |-> ownerRole]},
                  !.limits = AtMost(4, 0, 0, 0, 0)]

RoleRequests ==
    {[op |-> "role.create", key |-> k1, name |-> "new", caps |-> AllCapabilities],
     [op |-> "role.update", role |-> ownerRole, name |-> "owner", caps |-> {}],
     [op |-> "role.delete", role |-> newRole]}
    \cup {[op |-> o, who |-> w, scope |-> Global, role |-> r] :
             o \in {"role.bind", "role.unbind"}, w \in {owner, agent}, r \in {ownerRole, newRole}}

\* Roles and bindings, requests overlapping.
Administration == [Quiet EXCEPT !.requests = RoleRequests, !.limits = AtMost(3, 0, 0, 0, 0)]

\* Credentials of the operator.
Identity ==
    [Quiet EXCEPT !.requests = {[op |-> o, who |-> owner, secret |-> s, key |-> k1] : s \in Secrets,
                                o \in {"credential.add", "credential.rotate", "credential.revoke"}},
                  !.limits = AtMost(4, 0, 0, 0, 0)]

MCWorkloads == {Upgrade, Registration, Repairs, Loss, Removal, Handover, ProjectScope,
                Administration, Identity}
=============================================================================
