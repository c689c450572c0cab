CONSTANTS
    owner = owner  agent = agent  ownerRole = ownerRole  newRole = newRole
    p1 = p1  k1 = k1  k2 = k2  d1 = d1  d2 = d2  h1 = h1  h2 = h2
    None = None  Global = Global
    Participants = {owner, agent}
    Owner = owner
    RoleIds = {ownerRole, newRole}
    OwnerRole = ownerRole
    OwnerName = "owner"
    CredentialIds = {c1, c2, c3}
    Secrets = {s1}
    Projects = {p1, p2}
    MaxOps = 3
    MaxCommit = 2
    Daemons = {d1, d2}
    Handlers = {h1, h2}
    Workloads <- MCWorkloads
SPECIFICATION FairSpec
INVARIANTS
    TypeOK OneOwner SchemaIntact UpgradeGrantsOwner AuthorityConsistent RepositoriesMatchRows
    OneProjectPerRequest
PROPERTIES
    UnbindKeepsHolder SealedForGood NeverRebuilt FailureRecovers
CHECK_DEADLOCK FALSE
