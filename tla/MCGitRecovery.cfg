SPECIFICATION FairSpec
CONSTANTS
    WorkTasks = {t1, t2}
    Integrations = {i1}
    MaxRuns = 2
    Ops = {"rework", "discard", "mess"}
    None = None
    MaxCrashes = 1
INVARIANTS
    TypeOK
    WorkspaceKept
    RefsExplained
PROPERTIES
    IntentsResolve
CHECK_DEADLOCK FALSE
