CONSTANTS
    RunId = {r1, r2}
    Group = {1, 2}
    MaxCycles = 2
    None = None
SPECIFICATION FairSpec
CHECK_DEADLOCK FALSE
INVARIANTS
    TypeOK
    FollowsItinerary
    MotionMatchesStage
    NoLockCycle
PROPERTIES
    OutcomeIsFinal
    KeepsPromise
    DisarmReleasesOwner
