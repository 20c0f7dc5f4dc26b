CONSTANTS
    RunId = {r1, r2}
    Group = {1, 2}
    MaxCycles = 2
    None = None
SPECIFICATION Spec
CHECK_DEADLOCK FALSE
INVARIANT
    StageHasWork
