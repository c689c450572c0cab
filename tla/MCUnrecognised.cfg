SPECIFICATION FairSpec
CONSTANTS
    Runs = {r1}
    Tunings = {TRUE}
    None = None
    MaxTrouble = 1
PROPERTIES
    TakenOver
CHECK_DEADLOCK FALSE
