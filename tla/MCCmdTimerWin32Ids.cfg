\* Two threads start timers at the same time.
SPECIFICATION Spec
CONSTANTS
    t1 = t1
    t2 = t2
    c1 = c1
    c2 = c2
    pump = pump
    none = none
    Timers = {t1, t2}
    None = none
    Callers = {c1, c2}
    Pump = pump
    Windows <- MCOwnWindow
    SystemIDs <- MCSystemIDs
    MaxID = 2
\* the process may end, and ids run out
CHECK_DEADLOCK FALSE
INVARIANT
    NeverShared
