\* Listeners for releases are called on presses.
SPECIFICATION Spec
CONSTANTS
    l1 = l1
    l2 = l2
    Buttons <- MCButtons
    Axes <- MCAxes
    AxisValues <- MCAxisValues
    Listeners <- MCListeners
    Bindings <- MCBindings
\* the object may be destroyed
CHECK_DEADLOCK FALSE
PROPERTIES
    UpMeansReleased
