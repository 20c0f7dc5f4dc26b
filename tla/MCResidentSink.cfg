CONSTANTS
    Source = {"rl_follow", "act_dig"}
    Mode = {"manual_action", "velocity_reference"}
    ModeOf <- MCModeOf
    None = None
    SeqMod = 6
    MaxAge = 0
    Keepalive = 1
    MaxLease = 0
    WireCap = 1
    Losses = {"serial_fault", "command_lost", "device_timeout", "unhealthy"}
    MaxGen = 2
    MaxLag = 3
SPECIFICATION BoundedSpec
CONSTRAINT WithinLag
VIEW SequenceFreeView
CHECK_DEADLOCK FALSE
INVARIANTS
    TypeOK
    MotionIsLeased
    MotionHasSafeEvidence
    MotionStopsInTime
    PendingAckAgrees
    DisarmedMeansZero
    HandoffEvidenceComplete
PROPERTIES
    ImplementsOwnership
    NoWriteAfterTheEnd
