\* Safety and liveness.
SPECIFICATION Spec
CONSTANTS
    Values <- MCValues
    MaxQueue = 2
INVARIANTS
    WheelsFollowStick
PROPERTY
    SettlesOnStick
