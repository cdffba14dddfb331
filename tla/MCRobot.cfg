\* Safety and liveness of the whole robot, over several matches.
SPECIFICATION Spec
CONSTANTS
    Matches <- MCMatches
\* a match may end with nothing left to do
CHECK_DEADLOCK FALSE
INVARIANTS
    ListenersMatchMode
    NoRunaway
    StopIsHeeded
PROPERTIES
    AutonomousEnds
    ArmFollowsSensor
