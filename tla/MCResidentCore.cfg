CONSTANTS
    Source = {"rl_follow", "act_dig"}
    RL = "rl_follow"
    ACT = "act_dig"
    Mode = {"manual_action", "velocity_reference"}
    ModeOf <- MCModeOf
    None = None
    SeqMod = 5
    MaxAge = 0
    Keepalive = 1
    MaxLease = 0
    WireCap = 1
    Losses = {"command_lost","serial_fault"}
    Budget = {2}
    EarlyMin = 0
    Acts = {"motion"}
    Late = {FALSE}
    MaxLost = 1
    MaxGen = 2
    MaxLag = 2
SPECIFICATION MCSpec
CONSTRAINT WithinLag
VIEW CoreView
CHECK_DEADLOCK FALSE
INVARIANTS
    CoreTypeOK
    NoMotionPastBudget
    LostWorkerStops
    ReleaseMeansZero
PROPERTIES
    ExpiredMissionEnds
    CompleteMeansExecuted
