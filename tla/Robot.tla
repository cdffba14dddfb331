---------------------------------- MODULE Robot ----------------------------------
(***************************************************************************)
(* The robot as RobotTemplate.cpp, Global.cpp and Util/AutoConfig.cpp put  *)
(* it together: the thread of WPILib, which enters the modes of a match,   *)
(* binds the listeners and changes the lights; the thread of the           *)
(* ListenerManager, which calls listeners when the driver does something;  *)
(* the detached threads of the autonomous mode, which nobody stops or      *)
(* waits for; and the loop of CockArm.                                     *)
(*                                                                         *)
(* A motor is the power it was last asked for, which it gets               *)
(* (LastPowerWins of MotorLink).  The motors that turn the wheels go on    *)
(* under their controllers (MotorLink, LinearAngleTarget) and are left     *)
(* out here, and so are the gyro and the camera light.  ListenerManager    *)
(* is reduced to what it shows: one change at a time, whose listeners are  *)
(* looked up together and then called in any order.                        *)
(***************************************************************************)
EXTENDS CockArm

VARIABLES
    main,       \* the thread of WPILib: mode it enters, step, listeners to add
    autoInit,   \* autonomousHasBeenInit
    teleInit,   \* teleopHasBeenInit
    bound,      \* _listeners: how often each binding is in it
    lights,     \* the relays of the red and of the blue lights
    wheels,     \* powers of the driven wheels: "off", "full" (1) or "stick"
    arms,       \* powers of _mArmMove and _mArmRoll, in tenths
    polling,    \* the thread of ListenerManager: bindings to call, step of a call
    auto        \* the autonomous threads: stretch and step of the sequence

flags  == <<autoInit, teleInit>>
powers == <<wheels, arms>>
vars   == <<armVars, main, flags, bound, lights, powers, polling, auto>>

-------------------------------------------------------------------------------
Bind(control, edge, call) == [control |-> control, edge |-> edge, call |-> call]

(* What initializeTeleop binds, in its order.  `edge` is of no consequence:*)
(* run() calls the listeners for UP, too, when a button goes down, and     *)
(* none when it comes up (UpMeansReleased of ListenerManager).             *)
Bindings == <<
    Bind("X", "DOWN", "resetGyro"),
    Bind("A", "DOWN", "cancel"), Bind("A", "DOWN", "back"),
    Bind("A", "UP", "start"), Bind("A", "UP", "off"),
    Bind("B", "DOWN", "cancel"), Bind("B", "DOWN", "back"),
    Bind("B", "UP", "start"), Bind("B", "UP", "off"),
    Bind("LB", "DOWN", "moveUp"), Bind("LB", "DOWN", "rollUp"),
    Bind("RB", "DOWN", "moveDown"), Bind("RB", "DOWN", "rollDown"),
    Bind("BACK", "DOWN", "stopArmCock"), Bind("START", "DOWN", "startArmCock"),
    Bind("JOY1X", "AXIS", "steer"), Bind("JOY1Y", "AXIS", "steer") >>

(* Only the bindings of controls in use can matter.                        *)
Used == {b \in DOMAIN Bindings : Bindings[b].control \in match.controls}

Autos  == UNION {1..m.autos : m \in Matches}
Wheels == <<"drvBk", "drvFL", "drvFR">>

Returned == "returned"
AtRest   == [todo |-> {}, at |-> Returned]
Idle     == [mode |-> "idle", step |-> "", left |-> {}]

Init ==
    /\ ArmInit
    /\ main = [mode |-> "robot", step |-> "red", left |-> {}]
    /\ autoInit = FALSE
    /\ teleInit = FALSE
    /\ bound = [b \in Used |-> 0]
    /\ lights = [red |-> "off", blue |-> "off"]
    /\ wheels = [w \in 1..3 |-> "off"]
    /\ arms = [move |-> 0, roll |-> 0]
    /\ polling = AtRest
    /\ auto = [t \in Autos |-> <<"unborn", 1>>]

-------------------------------------------------------------------------------
(* WPILib enters a mode, whenever it likes.                                *)
Enter(mode, step) == main' = [mode |-> mode, step |-> step, left |-> Used]

DisabledInit ==
    /\ main = Idle
    /\ Enter("disabled", "red")
    /\ UNCHANGED <<armVars, flags, bound, lights, powers, polling, auto>>

AutonomousInit ==
    /\ main = Idle
    /\ ~autoInit
    /\ \E t \in 1..match.autos : auto[t][1] = "unborn"
    /\ Enter("auto", "removeAll")
    /\ UNCHANGED <<armVars, flags, bound, lights, powers, polling, auto>>

TeleopInit ==
    /\ main = Idle
    /\ ~teleInit
    /\ Enter("teleop", "removeAll")
    /\ UNCHANGED <<armVars, flags, bound, lights, powers, polling, auto>>

(* removeAllListeners.                                                     *)
RemoveAll ==
    /\ main.step = "removeAll"
    /\ bound' = [b \in Used |-> 0]
    /\ main' = [main EXCEPT !.step = IF main.mode = "auto" THEN "spawn" ELSE "red"]
    /\ UNCHANGED <<armVars, flags, lights, powers, polling, auto>>

(* initializeAuto starts a thread and detaches it.                         *)
Spawn ==
    /\ main.step = "spawn"
    /\ \E t \in 1..match.autos :
          /\ auto[t][1] = "unborn"
          /\ \A u \in 1..(t - 1) : auto[u][1] # "unborn"
          /\ auto' = [auto EXCEPT ![t] = <<"drive", 1>>]
    /\ main' = [main EXCEPT !.step = "flags"]
    /\ UNCHANGED <<armVars, flags, bound, lights, powers, polling>>

(* initializeTeleop adds its listeners one by one.                         *)
AddListener ==
    /\ main.step = "add"
    /\ \E b \in main.left :
          /\ \A c \in main.left : b <= c
          /\ bound' = [bound EXCEPT ![b] = @ + 1]
          /\ main' = [main EXCEPT !.left = @ \ {b}]
    /\ UNCHANGED <<armVars, flags, lights, powers, polling, auto>>

SetFlags_KeepsOther ==
    /\ \/ main.step = "flags"
       \/ main.step = "add" /\ main.left = {}
    /\ autoInit' = (autoInit \/ main.mode = "auto")
    /\ teleInit' = (teleInit \/ main.mode = "teleop")
    /\ main' = Idle
    /\ UNCHANGED <<armVars, bound, lights, powers, polling, auto>>

SetFlags ==
    /\ \/ main.step = "flags"
       \/ main.step = "add" /\ main.left = {}
    /\ autoInit' = (main.mode = "auto")
    /\ teleInit' = (main.mode = "teleop")
    /\ main' = Idle
    /\ UNCHANGED <<armVars, bound, lights, powers, polling, auto>>

-------------------------------------------------------------------------------
(* setOn and setOff of a RelayLink: "off" is the backward direction.       *)
Relay(light, is) ==
    lights' = [lights EXCEPT ![light] = IF is THEN "forward" ELSE "reverse"]

(* lightChange shows the alliance of the Options, whichever it was asked   *)
(* to show (LightChangeEvent.cpp:13).                                      *)
LightChange(light, asked) ==
    Relay(light, light = IF match.alliance = "BLUE" THEN "blue" ELSE "red")

(* initializeRobot and initializeDisabled turn both off.                   *)
MainLight(light, next) ==
    /\ main.step = light
    /\ IF main.mode = "teleop" THEN LightChange(light, match.alliance)
                               ELSE Relay(light, FALSE)
    /\ main' = IF next = "add" /\ main.mode # "teleop" THEN Idle
               ELSE [main EXCEPT !.step = next]
    /\ UNCHANGED <<armVars, flags, bound, powers, polling, auto>>

Main == \/ RemoveAll \/ Spawn \/ AddListener \/ SetFlags
        \/ MainLight("red", "blue") \/ MainLight("blue", "add")

-------------------------------------------------------------------------------
(* The driver uses a control: the listeners bound to it are looked up ...  *)
Press(control) ==
    /\ polling = AtRest
    /\ polling' = [AtRest EXCEPT !.todo =
                      {b \in Used : Bindings[b].control = control /\ bound[b] > 0}]
    /\ UNCHANGED <<armVars, main, flags, bound, lights, powers, auto>>

Called(b) == polling.at = Returned /\ b \in polling.todo

(* ... and called one after the other, in any order.                       *)
CallArm(b) ==
    /\ Called(b)
    /\ \E to \in ArmSteps :
          /\ ArmCall(Bindings[b].call, to)
          /\ polling' = [todo |-> polling.todo \ {b}, at |-> to]
    /\ UNCHANGED <<main, flags, bound, lights, powers, auto>>

ArmGoesOn ==
    /\ polling.at # Returned
    /\ \E to \in ArmSteps :
          /\ ArmCall(polling.at, to)
          /\ polling' = [polling EXCEPT !.at = to]
    /\ UNCHANGED <<main, flags, bound, lights, powers, auto>>

(* steer() asks for steerHandler, which sets two motors (ArcadeDrive).     *)
CallSteer(b) ==
    /\ Called(b) /\ Bindings[b].call = "steer"
    /\ wheels' = [wheels EXCEPT ![2] = "stick", ![3] = "stick"]
    /\ polling' = [polling EXCEPT !.todo = @ \ {b}]
    /\ UNCHANGED <<armVars, main, flags, bound, lights, arms, auto>>

Moves == [moveUp |-> <<"move", 1>>, moveDown |-> <<"move", -1>>,
          rollUp |-> <<"roll", 1>>, rollDown |-> <<"roll", -1>>]

CallMove(b) ==
    /\ Called(b) /\ Bindings[b].call \in DOMAIN Moves
    /\ LET m == Moves[Bindings[b].call] IN arms' = [arms EXCEPT ![m[1]] = m[2]]
    /\ polling' = [polling EXCEPT !.todo = @ \ {b}]
    /\ UNCHANGED <<armVars, main, flags, bound, lights, wheels, auto>>

CallReset(b) ==
    /\ Called(b) /\ Bindings[b].call = "resetGyro"
    /\ polling' = [polling EXCEPT !.todo = @ \ {b}]
    /\ UNCHANGED <<armVars, main, flags, bound, lights, powers, auto>>

Polling ==
    \/ ArmGoesOn
    \/ \E b \in Used : CallArm(b) \/ CallSteer(b) \/ CallMove(b) \/ CallReset(b)

-------------------------------------------------------------------------------
(* AutoConfig::initialize: the stretches that set the wheels, ...          *)
WheelPower == [drive |-> "full", pause |-> "off", goal |-> "full", stop |-> "off"]

(* ... and what comes after each.                                          *)
After_ForgetsStop ==
    [drive |-> "pause", pause |-> "cancel", goal |-> "blue", stop |-> "blue",
     cancel |-> "back", timerCancel |-> "back", back |-> "start",
     start |-> "goal", startRelative |-> "goal", blue |-> "red", red |-> "done"]

After == [drive |-> "pause", pause |-> "cancel", goal |-> "stop", stop |-> "blue",
          cancel |-> "back", timerCancel |-> "back", back |-> "start",
          start |-> "goal", startRelative |-> "goal", blue |-> "red", red |-> "done"]

(* One turn of a loop sets the three wheels, ...                           *)
SetWheel(t) ==
    /\ auto[t][1] \in DOMAIN WheelPower
    /\ auto[t][2] \in 1..3
    /\ wheels' = [wheels EXCEPT ![auto[t][2]] = WheelPower[auto[t][1]]]
    /\ auto' = [auto EXCEPT ![t] = <<@[1], @[2] + 1>>]
    /\ UNCHANGED <<armVars, main, flags, bound, lights, arms, polling>>

Proceed(t) == auto' = [auto EXCEPT ![t] = <<After[@[1]], 1>>]

(* ... again and again (SPINLOCK_UNTIL), ...                               *)
Again(t) ==
    /\ auto[t][1] \in {"drive", "pause", "goal"} /\ auto[t][2] = 4
    /\ auto' = [auto EXCEPT ![t] = <<@[1], 1>>]
    /\ UNCHANGED <<armVars, main, flags, bound, lights, powers, polling>>

(* ... until its time is over; the last one is not repeated.               *)
Elapsed(t) ==
    /\ auto[t][1] \in DOMAIN WheelPower /\ auto[t][2] = 4
    /\ Proceed(t)
    /\ UNCHANGED <<armVars, main, flags, bound, lights, powers, polling>>

(* The loop around the shot ends if _shooterTSensor.get() is not null: it  *)
(* is the pointer, and not the reading, which is Get().                    *)
Touched_Reading == sensor

Touched == TRUE

(* cancel(), the shot, start().                                            *)
AutoArm(t) ==
    /\ auto[t][1] \in ArmSteps
    /\ \E to \in ArmSteps :
          /\ ArmCall(auto[t][1], to)
          /\ IF to # Returned THEN auto' = [auto EXCEPT ![t] = <<to, 1>>]
             ELSE IF auto[t][1] = "back" /\ ~Touched THEN UNCHANGED auto
             ELSE Proceed(t)
    /\ UNCHANGED <<main, flags, bound, lights, powers, polling>>

(* "Do a dance".                                                           *)
Dance(t) ==
    /\ auto[t][1] \in {"blue", "red"}
    /\ \/ /\ auto[t][2] = 1
          /\ LightChange("red", auto[t][1])
          /\ auto' = [auto EXCEPT ![t] = <<@[1], 2>>]
       \/ /\ auto[t][2] = 2
          /\ LightChange("blue", auto[t][1])
          /\ Proceed(t)
    /\ UNCHANGED <<armVars, main, flags, bound, powers, polling>>

Sequence(t) == SetWheel(t) \/ Again(t) \/ Elapsed(t) \/ AutoArm(t) \/ Dance(t)

-------------------------------------------------------------------------------
Aside == UNCHANGED <<main, flags, bound, lights, powers, polling, auto>>

Next == \/ DisabledInit \/ AutonomousInit \/ TeleopInit
        \/ Main
        \/ \E c \in match.controls : Press(c)
        \/ Polling
        \/ \E t \in Autos : Sequence(t)
        \/ Loop /\ Aside
        \/ Touch /\ Aside

(* The threads that have something to do go on, and the timer calls back.  *)
(* A loop of the sequence ends: its time passes.                           *)
Fairness == /\ WF_vars(Main)
            /\ WF_vars(Polling)
            /\ WF_vars(Loop /\ Aside)
            /\ \A t \in Autos : WF_vars(Sequence(t)) /\ SF_vars(Elapsed(t))

Spec == Init /\ [][Next]_vars /\ Fairness

-------------------------------------------------------------------------------
Modes     == {"idle", "robot", "disabled", "auto", "teleop"}
Steps     == {"", "removeAll", "spawn", "flags", "red", "blue", "add"}
Stretches == {"unborn", "done", "drive", "pause", "cancel", "timerCancel", "back",
              "start", "startRelative", "goal", "stop", "blue", "red"}

ModeTypeOK ==
    /\ main \in [mode : Modes, step : Steps, left : SUBSET Used]
    /\ autoInit \in BOOLEAN
    /\ teleInit \in BOOLEAN
    /\ bound \in [Used -> Nat]

PowerTypeOK ==
    /\ lights \in [{"red", "blue"} -> {"off", "forward", "reverse"}]
    /\ wheels \in [1..3 -> {"off", "full", "stick"}]
    /\ arms \in [{"move", "roll"} -> -1..1]

ThreadTypeOK ==
    /\ polling \in [todo : SUBSET Used, at : ArmSteps]
    /\ auto \in [Autos -> Stretches \X (1..4)]

TypeOK == ArmTypeOK /\ ModeTypeOK /\ PowerTypeOK /\ ThreadTypeOK

(* Whatever the modes were, in whatever order: outside the calls of WPILib *)
(* every listener is bound once in the teleoperated mode, and none is      *)
(* before it or in the autonomous mode (RobotTemplate.cpp:60-84).  The     *)
(* disabled mode keeps the listeners of the mode before it.                *)
ListenersMatchMode ==
    main = Idle =>
        /\ ~(autoInit /\ teleInit)
        /\ bound = [b \in Used |-> IF teleInit THEN 1 ELSE 0]

(* A thread that is to stop wheel w, now or after its time is over.        *)
WillStop(t, w) ==
    \/ auto[t][1] \in {"drive", "goal"}
    \/ auto[t][1] \in {"pause", "stop"} /\ auto[t][2] <= w

(* However many autonomous threads overlap with each other and with the    *)
(* driver, a wheel that one of them drives is one that one of them is      *)
(* going to stop: no thread leaves it running (AutoConfig.cpp:37-91).      *)
NoRunaway ==
    \A w \in 1..3 : wheels[w] = "full" => \E t \in Autos : WillStop(t, w)

(* An autonomous sequence comes to its end, in whatever mode the robot is  *)
(* meanwhile and whatever the touch sensor shows (AutoConfig.cpp:63-68).   *)
AutonomousEnds ==
    \A t \in Autos : auto[t][1] = "drive" ~> auto[t][1] = "done"

(* Started, active, and not cancelled since, the loop holds the shooter at *)
(* the power for what the sensor shows, whatever calls of start(),         *)
(* cancel() and startArmCock() overlapped before.                          *)
LoopCocks(enabled) ==
    \A pressed \in BOOLEAN :
        <>[](/\ on /\ match.armEnabled \in enabled
             /\ sensor = pressed /\ polling = AtRest)
            => <>[](shooter = PowerFor(pressed))

(* It does so if the Options say that the arm is not enabled.              *)
ArmFollowsSensor == LoopCocks({FALSE})

(* "Starts the internal arm-control loop if it's not already running"      *)
(* (CockArm.h:43) and "Re-enable the arm cocking for teleop"               *)
(* (AutoConfig.cpp:70), with the Options the program is built with.        *)
StartedLoopCocks == LoopCocks(BOOLEAN)

===============================================================================
