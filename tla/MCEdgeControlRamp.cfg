CONSTANTS
    None = None
    ValidFor = 1
    Skew = 1
    StateTimeout = 1
    Losses = {}
    MaxQueue = 2
    Setup = {"control"}
    Lengths = {1, 2}
    Tracking = 4
    Top = 2
    Startup = 1
    Axes <- MCAxes
    Targets <- MCTargets
    StepTimeout = 1
    Hold = 1
    Rows = 1
    Zeros = 1
SPECIFICATION Spec
CHECK_DEADLOCK FALSE
PROPERTIES
    RampHolds
