CONSTANTS
    conv = conv  work = work  child = child  human = human  integ = integ
    a1 = a1  a2 = a2
    None = None
    Tasks = {conv, child}
    Runs = {r1, r2}
    Msgs = {m1, m2, m3}
    Agents = {a1}
    Kind <- MCKind
    Assignee <- MCAssignee
    Parent <- MCParent
    MaxRuns = 1
    MaxRetries = 0
    MaxDeliveries = 2
    TerminalStates = {"exited", "failed"}
    Ops = {"ack", "send", "retry"}
SYMMETRY Symmetry
SPECIFICATION Spec
INVARIANTS
    NoLostWakeup
    MessagesReachable
PROPERTIES
    VersionMovesWithRow
CHECK_DEADLOCK FALSE
