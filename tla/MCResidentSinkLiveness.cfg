CONSTANTS
    Source = {"rl_follow", "act_dig"}
    Mode = {"manual_action", "velocity_reference"}
    ModeOf <- MCModeOf
    None = None
    SeqMod = 4
    MaxAge = 0
    Keepalive = 1
    MaxLease = 0
    WireCap = 1
    Losses = {}
    MaxGen = 2
    MaxLag = 3
SPECIFICATION TimelySpec
CHECK_DEADLOCK FALSE
PROPERTIES
    HandoffSettles
    SilenceStopsMotion
