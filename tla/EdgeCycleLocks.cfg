CONSTANTS
    Client = {c1, c2}
    CycleId = {id1}
    Owner = owner_loop
    Cycle = cycle
    None = None
SPECIFICATION FairSpec
CHECK_DEADLOCK FALSE
PROPERTY
    CancellationCloses
