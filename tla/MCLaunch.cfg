SPECIFICATION Spec
CONSTANTS
    Runs = {r1, r2}
    Tunings = {FALSE}
    None = None
    MaxTrouble = 1
SYMMETRY Symmetry
INVARIANTS
    SingleOwner
    OneContainer
CHECK_DEADLOCK FALSE
