SPECIFICATION Spec
CONSTANTS
    WorkTasks = {t1, t2}
    Integrations = {i1}
    MaxRuns = 3
    Ops = {"source", "rework", "cancel", "delete"}
    None = None
    MaxCrashes = 0
SYMMETRY Symmetry
INVARIANTS
    CompletedIncluded
    RefsKept
PROPERTIES
    CanonicalForward
    WorkKept
CHECK_DEADLOCK FALSE
