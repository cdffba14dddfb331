\* Safety and liveness: two callers, one-shot callbacks, two starts.
SPECIFICATION Spec
CONSTANTS
    c1 = c1
    c2 = c2
    t1 = t1
    t2 = t2
    Callers = {c1, c2}
    Ticks = {t1}
    Speeds <- MCSpeeds
    ControlSpeeds <- MCControlSpeeds
    Scalars <- MCOneScalar
    Periodic = FALSE
    MaxQueue = 2
    MaxStarts = 2
\* nothing may be left to do
CHECK_DEADLOCK FALSE
INVARIANTS
    NullSafe
    LastPowerWins
    EnabledMeansLooping
PROPERTIES
    LoopGoesOn
