SPECIFICATION Spec
CONSTANTS
    Runs = {r1}
    Tunings = {FALSE}
    None = None
    MaxTrouble = 0
PROPERTIES
    CancelWins
CHECK_DEADLOCK FALSE
