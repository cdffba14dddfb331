\* With _armEnabled TRUE, as built, the loop of the arm does nothing.
SPECIFICATION Spec
CONSTANTS
    Matches <- MCShipped
\* a match may end with nothing left to do
CHECK_DEADLOCK FALSE
PROPERTIES
    StartedLoopCocks
