CONSTANTS
    conv = conv  work = work  child = child  human = human  integ = integ
    a1 = a1  a2 = a2
    None = None
    Tasks = {work, child}
    Runs = {r1, r2}
    Msgs = {m1}
    Agents = {a1}
    Kind <- MCKind
    Assignee <- MCAssignee
    Parent <- MCParent
    MaxRuns = 2
    MaxRetries = 1
    MaxDeliveries = 1
    TerminalStates = {"exited"}
    Ops = {"delete"}
SYMMETRY Symmetry
SPECIFICATION Spec
INVARIANTS
    OneContainerPerAgent
CHECK_DEADLOCK FALSE
