\* Two threads use the timers, and commands start their own again.
SPECIFICATION Spec
CONSTANTS
    t1 = t1
    t2 = t2
    c1 = c1
    c2 = c2
    pump = pump
    none = none
    Timers = {t1, t2}
    None = none
    Callers = {c1}
    Pump = pump
    Windows <- MCAllWindows
    SystemIDs <- MCSystemIDs
    MaxID = 2
\* the process may end, and ids run out
CHECK_DEADLOCK FALSE
SYMMETRY MCSymmetry
INVARIANTS
    MapMirrorsIDs
    NoSharedId

    
