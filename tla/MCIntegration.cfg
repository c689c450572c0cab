CONSTANTS
    conv = conv  work = work  child = child  human = human  integ = integ
    a1 = a1  a2 = a2
    None = None
    Tasks = {work, integ}
    Runs = {r1, r2}
    Msgs = {m1}
    Agents = {a1, a2}
    Kind <- MCKind
    Assignee <- MCAssignee
    Parent <- MCParent
    MaxRuns = 2
    MaxRetries = 1
    MaxDeliveries = 1
    TerminalStates = {"exited", "failed", "interrupted"}
    Ops = {"delete", "archive", "pause", "fault"}
SYMMETRY Symmetry
SPECIFICATION Spec
INVARIANTS
    TypeOK
    OwnershipAgrees
    OneRuntimePerAgent
    FencingTokensUnique
    IntegrationLinked
    IntentNeverStuck
PROPERTIES
    FollowsTaskFsm
CHECK_DEADLOCK FALSE
