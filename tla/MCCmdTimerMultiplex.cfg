\* Three timers and a user who may leave.
SPECIFICATION Spec
CONSTANTS
    t1 = t1
    t2 = t2
    t3 = t3
    Timers = {t1, t2, t3}
\* without timers nothing is left to do once the user is gone
CHECK_DEADLOCK FALSE
PROPERTY
    TimersStopWhenDestroyed
