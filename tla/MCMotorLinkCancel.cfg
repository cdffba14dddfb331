\* cancel() does not stop a callback in progress from re-arming.
SPECIFICATION Spec
CONSTANTS
    c1 = c1
    c2 = c2
    t1 = t1
    t2 = t2
    Callers = {c1}
    Ticks = {t1}
    Speeds <- MCSpeeds
    ControlSpeeds <- MCControlSpeeds
    Scalars <- MCOneScalar
    Periodic = FALSE
    MaxQueue = 2
    MaxStarts = 1
\* nothing may be left to do
CHECK_DEADLOCK FALSE
INVARIANTS
    CancelStopsLoop
