SPECIFICATION FairSpec
CONSTANTS
    Runs = {r1}
    Tunings = {FALSE}
    None = None
    MaxTrouble = 1
PROPERTIES
    CleanupCompletes
CHECK_DEADLOCK FALSE
