SPECIFICATION FairSpec
CONSTANTS
    Runs = {r1}
    Tunings = {FALSE}
    None = None
    MaxTrouble = 3
INVARIANTS
    TypeOK
    StartedOnce
    WriteAhead
    AgentReachable
PROPERTIES
    StopConverges
    TakenOver
    CleanupConverges
CHECK_DEADLOCK FALSE
