CONSTANTS
    Source = {"rl_follow", "act_dig"}
    RL = "rl_follow"
    ACT = "act_dig"
    Mode = {"manual_action", "velocity_reference"}
    ModeOf <- MCModeOf
    None = None
    SeqMod = 5
    MaxAge = 0
    Keepalive = 1
    MaxLease = 0
    WireCap = 1
    Losses = {"command_lost"}
    Budget = {1}
    EarlyMin = 0
    Acts = {"zero"}
    Late = {FALSE}
    MaxLost = 1
    MaxGen = 1
    MaxLag = 2
SPECIFICATION SegmentSpec
CHECK_DEADLOCK FALSE
PROPERTIES
    SegmentSettles
