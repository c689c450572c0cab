CONSTANTS
    conv = conv  work = work  child = child  human = human  integ = integ
    a1 = a1  a2 = a2
    None = None
    Tasks = {work, human}
    Runs = {r1, r2}
    Msgs = {m1}
    Agents = {a1}
    Kind <- MCKind
    Assignee <- MCAssignee
    Parent <- MCParent
    MaxRuns = 1
    MaxRetries = 1
    MaxDeliveries = 1
    TerminalStates = {"exited", "cancelled", "failed"}
    Ops = {"stop", "send", "ack"}
SPECIFICATION FairSpec
PROPERTIES
    FinishingResolves
    CancelledRunReleased
CHECK_DEADLOCK FALSE
