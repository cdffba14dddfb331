SPECIFICATION Spec
CONSTANTS
    Targets <- MCTargets
    Offset <- MCOffset
    MinSpeed = 40
    Threshold = 4
    FullTurns <- MCFullTurns
    MinTurn = 2
    Drift = 1
    MaxSets = 1
INVARIANTS
    NormalIsCanonical
    DistanceIsShortest
    DirectionsAgree
    SwerveIsShort
PROPERTIES
    TurnsShortWay
    NeverLosesGround
    StaysNear
    ComesToRest
