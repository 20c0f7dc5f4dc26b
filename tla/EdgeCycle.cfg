CONSTANTS
    Client = {c1, c2}
    CycleId = {id1, id2}
    Owner = owner_loop
    Cycle = cycle
    None = None
SPECIFICATION Spec
CHECK_DEADLOCK FALSE
INVARIANTS
    TypeOK
    StageMatchesExecutor
    FixedActionFollowsFollow
    LegResultMeansZero
