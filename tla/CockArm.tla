--------------------------------- MODULE CockArm ---------------------------------
(***************************************************************************)
(* The loop that cocks the arm of the shooter: RobotMovement/CockArm, with *)
(* the timer that calls it back and the power its motor was last asked for *)
(* (which the motor gets, LastPowerWins of MotorLink).  Threads call       *)
(* start() and cancel(), which test the timer and then act on what they    *)
(* saw; the `unique_lock<mutex>(_mutex);` of CockArm.cpp lock nothing.     *)
(* Robot.tla has the threads and when they call.                           *)
(***************************************************************************)
EXTENDS Integers

CONSTANT Matches    \* what may be settled before a match begins, see ArmAssumption

(* The Options, which the program is built with (Configuration.h: arm      *)
(* enabled, BLUE); the class of the timer, which stays armed after it      *)
(* fired (Win32) or not; and, as bounds, the controls the driver uses and  *)
(* the number of times that the autonomous mode begins.                    *)
ASSUME ArmAssumption ==
    Matches \subseteq [armEnabled : BOOLEAN, alliance : {"RED", "BLUE"},
                       periodic : BOOLEAN, controls : SUBSET STRING, autos : Nat]

VARIABLES
    match,      \* the member of Matches that is played; it never changes
    active,     \* _cockArmActive
    sensor,     \* the touch sensor is pressed: _shooterTSensor->Get() is false
    armed,      \* _timer is armed, as TimerIsRunning() tells
    execute,    \* where the callback is: "none", "set" or "rearm"
    shooter,    \* the power _mShooter was last asked for: "off" or "back" (-1)
    on,         \* history: start() was called while active, and no cancel() or
                \* stopArmCock() since
    late        \* history: powers the loop set since stopArmCock(), up to 2

armVars == <<match, active, sensor, armed, execute, shooter, on, late>>
timer   == <<armed, execute>>

(* The steps of a call on a thread.                                        *)
ArmSteps == {"start", "startRelative", "cancel", "timerCancel", "stopArmCock",
             "startArmCock", "back", "off", "returned"}

ArmInit ==
    /\ match \in Matches
    /\ active = TRUE
    /\ sensor \in BOOLEAN
    /\ armed = FALSE
    /\ execute = "none"
    /\ shooter = "off"
    /\ on = FALSE
    /\ late = 0

-------------------------------------------------------------------------------
(* A call on a thread goes from the step `at` to the step `to`.  start()    *)
(* arms the timer unless TimerIsRunning() says that it is armed already.   *)
Start(at, to) ==
    /\ at = "start"
    /\ to = IF armed THEN "returned" ELSE "startRelative"
    /\ on' = (on \/ (armed /\ active))
    /\ UNCHANGED <<match, active, sensor, timer, shooter, late>>

StartRelative(at, to) ==
    /\ at = "startRelative" /\ to = "returned"
    /\ armed' = TRUE
    /\ on' = active
    /\ UNCHANGED <<match, active, sensor, execute, shooter, late>>

(* cancel() disarms it if it is armed; between two callbacks of a timer    *)
(* that is not periodic, or in one, it is not.                             *)
Cancel(at, to) ==
    /\ at = "cancel"
    /\ to = IF armed THEN "timerCancel" ELSE "returned"
    /\ on' = FALSE
    /\ UNCHANGED <<match, active, sensor, timer, shooter, late>>

TimerCancel(at, to) ==
    /\ at = "timerCancel" /\ to = "returned"
    /\ armed' = FALSE
    /\ on' = FALSE
    /\ UNCHANGED <<match, active, sensor, execute, shooter, late>>

StopArmCock(at, to) ==
    /\ at = "stopArmCock" /\ to = "returned"
    /\ active' = FALSE
    /\ on' = FALSE
    /\ late' = 0
    /\ UNCHANGED <<match, sensor, timer, shooter>>

StartArmCock(at, to) ==
    /\ at = "startArmCock" /\ to = "returned"
    /\ active' = TRUE
    /\ UNCHANGED <<match, sensor, timer, shooter, on, late>>

(* Others set the power of the motor, to -1 or to 0, with setSpeed.        *)
SetShooter(at, to) ==
    /\ at \in {"back", "off"} /\ to = "returned"
    /\ shooter' = at
    /\ UNCHANGED <<match, active, sensor, timer, on, late>>

ArmCall(at, to) ==
    \/ Start(at, to) \/ StartRelative(at, to)
    \/ Cancel(at, to) \/ TimerCancel(at, to)
    \/ StopArmCock(at, to) \/ StartArmCock(at, to)
    \/ SetShooter(at, to)

-------------------------------------------------------------------------------
(* The timer calls execute(), which may have nothing to do: as written, if *)
(* the arm is enabled.                                                     *)
Fire_IgnoresStop ==
    /\ armed /\ execute = "none"
    /\ armed' = match.periodic
    /\ execute' = IF match.armEnabled THEN "none" ELSE "set"
    /\ UNCHANGED <<match, active, sensor, shooter, on, late>>

Fire ==
    /\ armed /\ execute = "none"
    /\ armed' = match.periodic
    /\ execute' = IF ~active \/ match.armEnabled THEN "none" ELSE "set"
    /\ UNCHANGED <<match, active, sensor, shooter, on, late>>

PowerFor(pressed) == IF pressed THEN "back" ELSE "off"

(* It reads the touch sensor, sets the power ...                           *)
LoopSets ==
    /\ execute = "set"
    /\ execute' = "rearm"
    /\ shooter' = PowerFor(sensor)
    /\ late' = IF active \/ late = 2 THEN late ELSE late + 1
    /\ UNCHANGED <<match, active, sensor, armed, on>>

Rearm_Not ==
    /\ execute = "rearm"
    /\ execute' = "none"
    /\ UNCHANGED <<match, active, sensor, armed, shooter, on, late>>

(* ... and arms the timer again.                                           *)
Rearm ==
    /\ execute = "rearm"
    /\ execute' = "none"
    /\ armed' = TRUE
    /\ UNCHANGED <<match, active, sensor, shooter, on, late>>

(* The shooter moves away from the sensor or towards it.                   *)
Touch ==
    /\ sensor' = ~sensor
    /\ UNCHANGED <<match, active, timer, shooter, on, late>>

Loop == Fire \/ LoopSets \/ Rearm

-------------------------------------------------------------------------------
ArmTypeOK ==
    /\ match \in Matches
    /\ active \in BOOLEAN
    /\ sensor \in BOOLEAN
    /\ armed \in BOOLEAN
    /\ execute \in {"none", "set", "rearm"}
    /\ shooter \in {"off", "back"}
    /\ on \in BOOLEAN
    /\ late \in 0..2

(* After stopArmCock() the loop sets at most the one power its callback in *)
(* progress had decided on (CockArm.cpp:33, 66-70).                        *)
StopIsHeeded == late <= 1

===============================================================================
