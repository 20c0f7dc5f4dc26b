CONSTANTS
    None = None
    ValidFor = 1
    Skew = 1
    StateTimeout = 1
    Losses = {"wall_jump", "write_fault", "stuck_write"}
    MaxQueue = 2
    Setup = {"network", "control", "remote", "replay"}
    Lengths = {1}
    Tracking = 2
    Top = 1
    Startup = 1
    Axes <- MCAxes
    Targets <- MCTargets
    StepTimeout = 1
    Hold = 1
    Rows = 1
    Zeros = 1
SPECIFICATION Spec
CHECK_DEADLOCK FALSE
INVARIANTS
    TypeOK
    MotionStopsInTime
    StopIsFinal
    ClosedMeansZero
    AtRestWhenDone
    FixedActionReachesTargets
PROPERTIES
    EndIsFinal
