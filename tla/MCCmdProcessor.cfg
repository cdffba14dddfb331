\* Safety, refinement and liveness: every outcome of a command; no symmetry,
\* because of the liveness properties.
SPECIFICATION Spec
CONSTANTS
    c1 = c1
    c2 = c2
    Clients <- MCClients
    MaxCmds = 4
    Outcomes <- MCOutcomes
\* the object may be destroyed, the process may be terminated
CHECK_DEADLOCK FALSE
INVARIANTS
    EachAtMostOnce
    BackInOrder
    NoLostWakeup
    IInv
PROPERTIES
    ServiceOrder
    AbstractSpec
    EveryCommandBegun
    DestructorReturns
    CallerReleased
