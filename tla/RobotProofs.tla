------------------------------- MODULE RobotProofs -------------------------------
(***************************************************************************)
(* Safety of the whole robot, for every choice of matches: whichever       *)
(* controls the driver has, however often the autonomous mode begins, and  *)
(* whatever the Options say.  The invariant has one part per component:    *)
(* the loop of the arm, the modes with the listeners, and the wheels with  *)
(* the threads that drive them.  The parts do not depend on each other,    *)
(* except that all of them need the types.                                 *)
(***************************************************************************)
EXTENDS Robot, TLAPS

(* A callback that has decided to set a power after stopArmCock() is the   *)
(* first to do so: the next one will see that the loop is not active.      *)
ArmInv ==
    /\ ArmTypeOK
    /\ late <= 1
    /\ ~active /\ execute = "set" => late = 0

Zero == bound = [b \in Used |-> 0]

Matching ==
    /\ ~(autoInit /\ teleInit)
    /\ bound = [b \in Used |-> IF teleInit THEN 1 ELSE 0]

(* What is bound while the thread of WPILib is on its way through a mode.  *)
ModeInv ==
    \/ main = Idle /\ Matching
    \/ main.mode \in {"robot", "disabled"} /\ main.step \in {"red", "blue"} /\ Matching
    \/ main.mode = "auto" /\ main.step = "removeAll"
    \/ main.mode = "auto" /\ main.step \in {"spawn", "flags"} /\ Zero
    \/ main.mode = "teleop" /\ main.step = "removeAll" /\ main.left = Used
    \/ /\ main.mode = "teleop" /\ main.step \in {"red", "blue"} /\ main.left = Used
       /\ Zero
    \/ /\ main.mode = "teleop" /\ main.step = "add"
       /\ bound = [b \in Used |-> IF b \in main.left THEN 0 ELSE 1]

IInv == TypeOK /\ ArmInv /\ ModeInv /\ NoRunaway

-------------------------------------------------------------------------------
(* The loop of the arm.                                                    *)

LEMMA ArmCallKeeps ==
    ASSUME NEW at, NEW to, ArmInv, ArmCall(at, to)
    PROVE  /\ ArmInv'
           /\ match' = match
           /\ to \in {"startRelative", "timerCancel", "returned"}
<1> USE DEF ArmInv, ArmTypeOK, timer
<1>1. CASE Start(at, to)
  <2>1. on' \in BOOLEAN
    BY <1>1, Zenon DEF Start
  <2> QED
    BY <1>1, <2>1 DEF Start
<1>2. CASE StartRelative(at, to)
  BY <1>2 DEF StartRelative
<1>3. CASE Cancel(at, to)
  BY <1>3 DEF Cancel
<1>4. CASE TimerCancel(at, to)
  BY <1>4 DEF TimerCancel
<1>5. CASE StopArmCock(at, to)
  <2>1. active' \in BOOLEAN /\ on' \in BOOLEAN
    BY <1>5, Zenon DEF StopArmCock
  <2>2. late' = 0 /\ UNCHANGED <<match, sensor, armed, execute, shooter>>
    BY <1>5 DEF StopArmCock
  <2>3. late' \in 0..2 /\ late' <= 1
    BY <2>2, SMT
  <2> QED
    BY <1>5, <2>1, <2>2, <2>3, Zenon DEF StopArmCock
<1>6. CASE StartArmCock(at, to)
  BY <1>6 DEF StartArmCock
<1>7. CASE SetShooter(at, to)
  BY <1>7 DEF SetShooter
<1> QED
  BY <1>1, <1>2, <1>3, <1>4, <1>5, <1>6, <1>7 DEF ArmCall

LEMMA LoopKeeps ==
    ASSUME ArmInv, Loop \/ Touch
    PROVE  ArmInv' /\ match' = match
<1> USE DEF ArmInv, ArmTypeOK, timer
<1>1. CASE Fire
  <2>1. match.periodic \in BOOLEAN
    BY ArmAssumption DEF ArmAssumption
  <2>2. armed' \in BOOLEAN
    BY <1>1, <2>1, Zenon DEF Fire
  <2>3. execute' \in {"none", "set"} /\ (execute' = "set" => active)
    BY <1>1, Zenon DEF Fire
  <2>4. UNCHANGED <<match, active, sensor, shooter, on, late>>
    BY <1>1, Zenon DEF Fire
  <2> QED
    BY <2>2, <2>3, <2>4
<1>2. CASE LoopSets
  BY <1>2 DEF LoopSets, PowerFor
<1>3. CASE Rearm
  BY <1>3 DEF Rearm
<1>4. CASE Touch
  BY <1>4 DEF Touch
<1> QED
  BY <1>1, <1>2, <1>3, <1>4 DEF Loop

(* Steps that are not of the arm leave it alone.                           *)
LEMMA ArmAlone ==
    ASSUME ArmInv, UNCHANGED armVars
    PROVE  ArmInv' /\ match' = match
  BY DEF ArmInv, ArmTypeOK, armVars

(* The controls in use are settled before the match.                       *)
LEMMA UsedKept ==
    ASSUME match' = match
    PROVE  Used' = Used
  BY DEF Used

LEMMA ModesAlone ==
    ASSUME ModeInv, UNCHANGED <<main, flags, bound>>, match' = match
    PROVE  ModeInv'
<1>1. Used' = Used
  BY UsedKept
<1> QED
  BY <1>1 DEF ModeInv, Matching, Zero, flags

LEMMA WheelsAlone ==
    ASSUME NoRunaway, UNCHANGED <<wheels, auto>>
    PROVE  NoRunaway'
  BY DEF NoRunaway, WillStop

(* The types of what a step leaves alone.                                  *)
LEMMA ModeTypesAlone ==
    ASSUME ModeTypeOK, UNCHANGED <<main, flags, bound>>, match' = match
    PROVE  ModeTypeOK'
  BY UsedKept DEF ModeTypeOK, flags

LEMMA PowerTypesAlone ==
    ASSUME PowerTypeOK, UNCHANGED <<lights, powers>>
    PROVE  PowerTypeOK'
  BY DEF PowerTypeOK, powers

LEMMA ThreadTypesAlone ==
    ASSUME ThreadTypeOK, UNCHANGED <<polling, auto>>, match' = match
    PROVE  ThreadTypeOK'
  BY UsedKept DEF ThreadTypeOK

-------------------------------------------------------------------------------
(* The thread of WPILib.                                                   *)

MainSteps == DisabledInit \/ AutonomousInit \/ TeleopInit \/ Main

LEMMA MainArm ==
    ASSUME ArmInv, MainSteps
    PROVE  ArmInv' /\ match' = match
<1>1. UNCHANGED armVars
  BY DEF MainSteps, Main, DisabledInit, AutonomousInit, TeleopInit, RemoveAll, Spawn,
         AddListener, SetFlags, MainLight
<1> QED
  BY <1>1, ArmAlone

LEMMA EnterTypes ==
    ASSUME ModeTypeOK, UNCHANGED <<flags, bound>>, match' = match,
           NEW mode \in Modes, NEW step \in Steps, Enter(mode, step)
    PROVE  ModeTypeOK'
<1>1. Used' = Used
  BY UsedKept
<1>2. main' \in [mode : Modes, step : Steps, left : SUBSET Used]
  <2>1. main' = [mode |-> mode, step |-> step, left |-> Used]
    BY DEF Enter
  <2> QED
    BY <2>1
<1> QED
  BY <1>1, <1>2 DEF ModeTypeOK, flags

LEMMA MainModeTypes ==
    ASSUME ModeTypeOK, MainSteps, match' = match
    PROVE  ModeTypeOK'
<1>1. Used' = Used
  BY UsedKept
<1>2. /\ {"idle", "robot", "disabled", "auto", "teleop"} \subseteq Modes
      /\ {"", "removeAll", "spawn", "flags", "red", "blue", "add"} \subseteq Steps
  BY DEF Modes, Steps
<1>3. CASE DisabledInit
  BY <1>2, <1>3, EnterTypes DEF DisabledInit
<1>4. CASE AutonomousInit
  BY <1>2, <1>4, EnterTypes DEF AutonomousInit
<1>5. CASE TeleopInit
  BY <1>2, <1>5, EnterTypes DEF TeleopInit
<1>6. CASE RemoveAll
  <2>1. main' \in [mode : Modes, step : Steps, left : SUBSET Used]
    BY <1>2, <1>6 DEF RemoveAll, ModeTypeOK
  <2>2. bound' \in [Used -> Nat] /\ UNCHANGED flags
    BY <1>6 DEF RemoveAll
  <2> QED
    BY <1>1, <2>1, <2>2 DEF ModeTypeOK, flags
<1>7. CASE Spawn
  <2>1. main' \in [mode : Modes, step : Steps, left : SUBSET Used]
    BY <1>2, <1>7 DEF Spawn, ModeTypeOK
  <2>2. UNCHANGED <<flags, bound>>
    BY <1>7 DEF Spawn
  <2> QED
    BY <1>1, <2>1, <2>2 DEF ModeTypeOK, flags
<1>8. CASE AddListener
  <2>1. PICK b \in main.left : /\ bound' = [bound EXCEPT ![b] = @ + 1]
                               /\ main' = [main EXCEPT !.left = @ \ {b}]
    BY <1>8 DEF AddListener
  <2>2. main' \in [mode : Modes, step : Steps, left : SUBSET Used]
    BY <2>1 DEF ModeTypeOK
  <2>3. bound' \in [Used -> Nat]
    BY <2>1 DEF ModeTypeOK
  <2>4. UNCHANGED flags
    BY <1>8 DEF AddListener
  <2> QED
    BY <1>1, <2>2, <2>3, <2>4 DEF ModeTypeOK, flags
<1>9. CASE SetFlags
  <2>1. autoInit' \in BOOLEAN /\ teleInit' \in BOOLEAN
    BY <1>9, Zenon DEF SetFlags
  <2>2. main' = Idle /\ bound' = bound
    BY <1>9 DEF SetFlags
  <2>3. main' \in [mode : Modes, step : Steps, left : SUBSET Used]
    BY <1>2, <2>2 DEF Idle
  <2> QED
    BY <1>1, <2>1, <2>2, <2>3, Zenon DEF ModeTypeOK
<1>10. ASSUME NEW light, NEW next \in {"blue", "add"}, MainLight(light, next)
       PROVE  ModeTypeOK'
  <2>1. main' = Idle \/ main' = [main EXCEPT !.step = next]
    BY <1>10, Zenon DEF MainLight
  <2>2. main' \in [mode : Modes, step : Steps, left : SUBSET Used]
    <3>1. CASE main' = Idle
      BY <1>2, <3>1 DEF Idle
    <3>2. CASE main' = [main EXCEPT !.step = next]
      BY <1>2, <1>10, <3>2 DEF ModeTypeOK
    <3> QED
      BY <2>1, <3>1, <3>2
  <2>3. UNCHANGED <<flags, bound>>
    BY <1>10 DEF MainLight
  <2> QED
    BY <1>1, <2>2, <2>3 DEF ModeTypeOK, flags
<1> QED
  BY <1>3, <1>4, <1>5, <1>6, <1>7, <1>8, <1>9, <1>10 DEF MainSteps, Main

LEMMA LightTypes ==
    ASSUME PowerTypeOK, NEW light \in {"red", "blue"}, NEW is, Relay(light, is),
           UNCHANGED powers
    PROVE  PowerTypeOK'
  BY DEF PowerTypeOK, Relay, powers

LEMMA MainPowerTypes ==
    ASSUME PowerTypeOK, MainSteps
    PROVE  PowerTypeOK'
<1>1. ASSUME NEW light \in {"red", "blue"}, NEW next, MainLight(light, next)
      PROVE  PowerTypeOK'
  BY <1>1, LightTypes DEF MainLight, LightChange
<1>2. CASE UNCHANGED <<lights, powers>>
  BY <1>2, PowerTypesAlone
<1> QED
  BY <1>1, <1>2 DEF MainSteps, Main, DisabledInit, AutonomousInit, TeleopInit, RemoveAll,
     Spawn, AddListener, SetFlags

LEMMA MainThreadTypes ==
    ASSUME ThreadTypeOK, MainSteps, match' = match
    PROVE  ThreadTypeOK'
<1>1. CASE Spawn
  <2>1. PICK t \in 1..match.autos : auto' = [auto EXCEPT ![t] = <<"drive", 1>>]
    BY <1>1 DEF Spawn
  <2>2. <<"drive", 1>> \in Stretches \X (1..4)
    BY DEF Stretches
  <2>3. auto' \in [Autos -> Stretches \X (1..4)]
    BY <2>1, <2>2 DEF ThreadTypeOK
  <2>4. polling' = polling
    BY <1>1 DEF Spawn
  <2> QED
    BY <2>3, <2>4, UsedKept DEF ThreadTypeOK
<1>2. CASE UNCHANGED <<polling, auto>>
  BY <1>2, ThreadTypesAlone
<1> QED
  BY <1>1, <1>2 DEF MainSteps, Main, DisabledInit, AutonomousInit, TeleopInit, RemoveAll,
     AddListener, SetFlags, MainLight
LEMMA MainModes ==
    ASSUME ModeTypeOK, ModeInv, MainSteps, match' = match
    PROVE  ModeInv'
<1>0. ASSUME main = Idle
      PROVE  main.mode = "idle" /\ main.step = ""
  BY <1>0 DEF Idle
<1>1. Used' = Used
  BY UsedKept
<1>2. CASE DisabledInit
  BY <1>1, <1>2 DEF DisabledInit, Enter, ModeInv, Matching, Zero, Idle, flags
<1>3. CASE AutonomousInit
  BY <1>3 DEF AutonomousInit, Enter, ModeInv
<1>4. CASE TeleopInit
  BY <1>1, <1>4 DEF TeleopInit, Enter, ModeInv
<1>5. CASE RemoveAll
  <2>1. \/ main.mode = "auto"
        \/ main.mode = "teleop" /\ main.left = Used
    BY <1>0, <1>5 DEF RemoveAll, ModeInv
  <2>2. /\ main'.mode = main.mode
        /\ main'.left = main.left
        /\ main'.step = IF main.mode = "auto" THEN "spawn" ELSE "red"
    BY <1>5 DEF RemoveAll, ModeTypeOK
  <2>3. Zero'
    BY <1>1, <1>5 DEF RemoveAll, Zero
  <2> QED
    BY <1>1, <2>1, <2>2, <2>3 DEF ModeInv
<1>6. CASE Spawn
  <2>1. main.mode = "auto" /\ Zero
    BY <1>0, <1>6 DEF Spawn, ModeInv
  <2>2. main'.mode = main.mode /\ main'.step = "flags"
    BY <1>6 DEF Spawn, ModeTypeOK
  <2>3. Zero'
    BY <1>1, <1>6, <2>1 DEF Spawn, Zero
  <2> QED
    BY <2>1, <2>2, <2>3 DEF ModeInv
<1>7. CASE AddListener
  <2>1. /\ main.mode = "teleop"
        /\ bound = [b \in Used |-> IF b \in main.left THEN 0 ELSE 1]
    BY <1>0, <1>7 DEF AddListener, ModeInv
  <2>2. PICK b \in main.left : /\ bound' = [bound EXCEPT ![b] = @ + 1]
                               /\ main' = [main EXCEPT !.left = @ \ {b}]
    BY <1>7 DEF AddListener
  <2>3. b \in Used
    BY <2>2 DEF ModeTypeOK
  <2>4. main'.mode = "teleop" /\ main'.step = "add" /\ main'.left = main.left \ {b}
    BY <1>7, <2>1, <2>2 DEF AddListener, ModeTypeOK
  <2>5. bound' = [c \in Used |-> IF c \in main.left \ {b} THEN 0 ELSE 1]
    BY <2>1, <2>2, <2>3
  <2> QED
    BY <1>1, <2>4, <2>5 DEF ModeInv
<1>8. CASE SetFlags
  <2>1. \/ main.mode = "auto" /\ Zero
        \/ /\ main.mode = "teleop" /\ main.left = {}
           /\ bound = [b \in Used |-> IF b \in main.left THEN 0 ELSE 1]
    BY <1>0, <1>8 DEF SetFlags, ModeInv
  <2>2. /\ autoInit' = (main.mode = "auto")
        /\ teleInit' = (main.mode = "teleop")
        /\ main' = Idle
        /\ bound' = bound
    BY <1>8, Zenon DEF SetFlags
  <2>3. CASE main.mode = "auto"
    <3>1. ~teleInit' /\ Zero
      BY <2>1, <2>2, <2>3
    <3> QED
      BY <1>1, <2>2, <3>1 DEF ModeInv, Matching, Zero, Idle
  <2>4. CASE main.mode = "teleop"
    <3>1. teleInit' /\ ~autoInit'
      BY <2>2, <2>4
    <3>2. bound' = [b \in Used' |-> IF teleInit' THEN 1 ELSE 0]
      BY <1>1, <2>1, <2>2, <2>4, <3>1
    <3> QED
      BY <2>2, <3>1, <3>2 DEF ModeInv, Matching, Idle
  <2> QED
    BY <2>1, <2>3, <2>4
<1>9. ASSUME NEW light \in {"red", "blue"}, NEW next \in {"blue", "add"},
             MainLight(light, next), light = "red" <=> next = "blue"
      PROVE  ModeInv'
  <2>1. main.step = light /\ UNCHANGED <<flags, bound>>
    BY <1>9 DEF MainLight
  <2>2. CASE main.mode = "teleop"
    <3>1. main.left = Used /\ Zero
      BY <1>0, <1>9, <2>1, <2>2 DEF ModeInv
    <3>2. main'.mode = "teleop" /\ main'.left = Used /\ main'.step = next
      BY <1>9, <2>2, <3>1 DEF MainLight, ModeTypeOK
    <3>3. bound' = [b \in Used |-> 0]
      BY <2>1, <3>1 DEF Zero
    <3> QED
      BY <1>1, <1>9, <3>2, <3>3 DEF ModeInv, Zero
  <2>3. CASE main.mode # "teleop"
    <3>1. main.mode \in {"robot", "disabled"} /\ Matching
      BY <1>0, <1>9, <2>1, <2>3 DEF ModeInv
    <3>2. Matching'
      BY <1>1, <2>1, <3>1 DEF Matching, flags
    <3>3. CASE next = "add"
      BY <1>9, <2>3, <3>2, <3>3 DEF MainLight, ModeInv
    <3>4. CASE next = "blue"
      <4>1. main'.mode = main.mode /\ main'.step = "blue"
        BY <1>9, <3>4 DEF MainLight, ModeTypeOK
      <4> QED
        BY <3>1, <3>2, <4>1 DEF ModeInv
    <3> QED
      BY <1>9, <3>3, <3>4
  <2> QED
    BY <2>2, <2>3
<1> QED
  BY <1>2, <1>3, <1>4, <1>5, <1>6, <1>7, <1>8, <1>9 DEF MainSteps, Main

(* A thread that begins is one more that will stop the wheels.             *)
LEMMA MainWheels ==
    ASSUME ThreadTypeOK, NoRunaway, MainSteps
    PROVE  NoRunaway'
<1>1. CASE Spawn
  <2>1. PICK t \in 1..match.autos : /\ auto[t][1] = "unborn"
                                    /\ auto' = [auto EXCEPT ![t] = <<"drive", 1>>]
    BY <1>1 DEF Spawn
  <2>2. \A u \in Autos, w \in 1..3 : WillStop(u, w) => WillStop(u, w)'
    BY <2>1 DEF WillStop, ThreadTypeOK
  <2>3. wheels' = wheels
    BY <1>1 DEF Spawn, powers
  <2> QED
    BY <2>2, <2>3 DEF NoRunaway
<1>2. CASE ~Spawn
  <2>1. UNCHANGED <<wheels, auto>>
    BY <1>2 DEF MainSteps, Main, DisabledInit, AutonomousInit, TeleopInit, RemoveAll,
                AddListener, SetFlags, MainLight, powers
  <2> QED
    BY <2>1, WheelsAlone
<1> QED
  BY <1>1, <1>2

-------------------------------------------------------------------------------
(* The thread of the ListenerManager.                                      *)

Poll == Polling \/ \E c \in match.controls : Press(c)

LEMMA PollArm ==
    ASSUME ArmInv, Poll
    PROVE  ArmInv' /\ match' = match
<1>1. ASSUME NEW b, CallArm(b)
      PROVE  ArmInv' /\ match' = match
  BY <1>1, ArmCallKeeps DEF CallArm
<1>2. CASE ArmGoesOn
  BY <1>2, ArmCallKeeps DEF ArmGoesOn
<1>3. CASE UNCHANGED armVars
  BY <1>3, ArmAlone
<1> QED
  BY <1>1, <1>2, <1>3 DEF Poll, Polling, Press, CallSteer, CallMove, CallReset

LEMMA PollThreadTypes ==
    ASSUME ThreadTypeOK, Poll, match' = match
    PROVE  ThreadTypeOK'
<1>1. Used' = Used
  BY UsedKept
<1>2. auto' = auto
  BY DEF Poll, Polling, ArmGoesOn, Press, CallArm, CallSteer, CallMove, CallReset
<1>3. polling' \in [todo : SUBSET Used, at : ArmSteps]
  <2>1. ASSUME NEW c, Press(c)
        PROVE  polling' \in [todo : SUBSET Used, at : ArmSteps]
    <3>1. polling' = [todo |-> {b \in Used : Bindings[b].control = c /\ bound[b] > 0},
                      at |-> Returned]
      BY <2>1 DEF Press, AtRest
    <3> QED
      BY <3>1 DEF Returned, ArmSteps
  <2>2. ASSUME NEW b, CallArm(b)
        PROVE  polling' \in [todo : SUBSET Used, at : ArmSteps]
    <3>1. PICK to \in ArmSteps : polling' = [todo |-> polling.todo \ {b}, at |-> to]
      BY <2>2 DEF CallArm
    <3> QED
      BY <3>1 DEF ThreadTypeOK
  <2>3. CASE ArmGoesOn
    <3>1. PICK to \in ArmSteps : polling' = [polling EXCEPT !.at = to]
      BY <2>3 DEF ArmGoesOn
    <3> QED
      BY <3>1 DEF ThreadTypeOK
  <2>4. ASSUME NEW b, CallSteer(b) \/ CallMove(b) \/ CallReset(b)
        PROVE  polling' \in [todo : SUBSET Used, at : ArmSteps]
    <3>1. polling' = [polling EXCEPT !.todo = @ \ {b}]
      BY <2>4 DEF CallSteer, CallMove, CallReset
    <3> QED
      BY <3>1 DEF ThreadTypeOK
  <2> QED
    BY <2>1, <2>2, <2>3, <2>4 DEF Poll, Polling
<1> QED
  BY <1>1, <1>2, <1>3 DEF ThreadTypeOK

LEMMA PollPowerTypes ==
    ASSUME PowerTypeOK, Poll
    PROVE  PowerTypeOK'
<1>1. ASSUME NEW b, CallSteer(b)
      PROVE  PowerTypeOK'
  BY <1>1 DEF CallSteer, PowerTypeOK
<1>2. ASSUME NEW b, CallMove(b)
      PROVE  PowerTypeOK'
  <2> DEFINE m == Moves[Bindings[b].call]
  <2>1. m[1] \in {"move", "roll"} /\ m[2] \in -1..1
    BY <1>2 DEF CallMove, Moves
  <2>2. arms' = [arms EXCEPT ![m[1]] = m[2]] /\ UNCHANGED <<lights, wheels>>
    BY <1>2 DEF CallMove
  <2> HIDE DEF m
  <2> QED
    BY <2>1, <2>2 DEF PowerTypeOK
<1>3. CASE UNCHANGED <<lights, powers>>
  BY <1>3, PowerTypesAlone
<1> QED
  BY <1>1, <1>2, <1>3 DEF Poll, Polling, Press, ArmGoesOn, CallArm, CallReset

(* The driver takes wheels over and never leaves one at full power.        *)
LEMMA PollWheels ==
    ASSUME PowerTypeOK, NoRunaway, Poll
    PROVE  NoRunaway'
<1>1. auto' = auto
  BY DEF Poll, Polling, ArmGoesOn, Press, CallArm, CallSteer, CallMove, CallReset
<1>2. \A w \in 1..3 : wheels'[w] = "full" => wheels[w] = "full"
  <2>1. ASSUME NEW b, CallSteer(b)
        PROVE  \A w \in 1..3 : wheels'[w] = "full" => wheels[w] = "full"
    BY <2>1 DEF CallSteer, PowerTypeOK
  <2>2. CASE wheels' = wheels
    BY <2>2
  <2> QED
    BY <2>1, <2>2 DEF Poll, Polling, ArmGoesOn, Press, CallArm, CallMove, CallReset,
       powers
<1> QED
  BY <1>1, <1>2 DEF NoRunaway, WillStop

-------------------------------------------------------------------------------
(* An autonomous thread.                                                   *)

LEMMA AutoArmKeeps ==
    ASSUME ArmInv, NEW t, Sequence(t)
    PROVE  ArmInv' /\ match' = match
<1>1. CASE AutoArm(t)
  BY <1>1, ArmCallKeeps DEF AutoArm
<1>2. CASE UNCHANGED armVars
  BY <1>2, ArmAlone
<1> QED
  BY <1>1, <1>2 DEF Sequence, SetWheel, Again, Elapsed, Dance

LEMMA AutoPowerTypes ==
    ASSUME PowerTypeOK, ThreadTypeOK, NEW t \in Autos, Sequence(t)
    PROVE  PowerTypeOK'
<1>1. CASE SetWheel(t)
  <2>1. WheelPower[auto[t][1]] \in {"off", "full"}
    BY <1>1 DEF SetWheel, WheelPower
  <2>2. wheels' = [wheels EXCEPT ![auto[t][2]] = WheelPower[auto[t][1]]]
    BY <1>1 DEF SetWheel
  <2>3. wheels' \in [1..3 -> {"off", "full", "stick"}]
    BY <2>1, <2>2 DEF PowerTypeOK
  <2> QED
    BY <1>1, <2>3 DEF SetWheel, PowerTypeOK
<1>2. CASE Dance(t)
  BY <1>2, LightTypes DEF Dance, LightChange
<1>3. CASE UNCHANGED <<lights, powers>>
  BY <1>3, PowerTypesAlone
<1> QED
  BY <1>1, <1>2, <1>3 DEF Sequence, Again, Elapsed, AutoArm

(* What comes after a stretch.                                             *)
LEMMA Follows ==
    ASSUME NEW s \in DOMAIN After
    PROVE  /\ After[s] \in Stretches
           /\ s = "drive" => After[s] = "pause"
           /\ s = "goal" => After[s] = "stop"
  BY DEF After, Stretches

(* A thread moves to a stretch and a step of it.                           *)
Moved(t, s, k) == auto' = [auto EXCEPT ![t] = <<s, k>>]

LEMMA AutoMoves ==
    ASSUME ThreadTypeOK, ArmInv, NEW t \in Autos, Sequence(t)
    PROVE  \E s \in Stretches, k \in 1..4 : Moved(t, s, k)
<1>1. auto[t][1] \in Stretches /\ auto[t][2] \in 1..4
  BY DEF ThreadTypeOK
<1>2. ASSUME Proceed(t), auto[t][1] \in DOMAIN After
      PROVE  \E s \in Stretches, k \in 1..4 : Moved(t, s, k)
  <2>1. Moved(t, After[auto[t][1]], 1)
    BY <1>2 DEF Proceed, Moved
  <2>2. After[auto[t][1]] \in Stretches
    BY <1>2, Follows
  <2> QED
    BY <2>1, <2>2
<1>3. CASE SetWheel(t)
  <2>1. Moved(t, auto[t][1], auto[t][2] + 1)
    BY <1>3 DEF SetWheel, Moved
  <2>2. auto[t][2] + 1 \in 1..4
    BY <1>3 DEF SetWheel
  <2> QED
    BY <1>1, <2>1, <2>2
<1>4. CASE Again(t)
  <2>1. Moved(t, auto[t][1], 1)
    BY <1>4 DEF Again, Moved
  <2> QED
    BY <1>1, <2>1
<1>5. CASE Elapsed(t)
  BY <1>2, <1>5 DEF Elapsed, WheelPower, After
<1>6. CASE AutoArm(t)
  <2>1. PICK to \in ArmSteps :
           /\ ArmCall(auto[t][1], to)
           /\ IF to # Returned THEN auto' = [auto EXCEPT ![t] = <<to, 1>>]
              ELSE IF auto[t][1] = "back" /\ ~Touched THEN UNCHANGED auto
              ELSE Proceed(t)
    BY <1>6 DEF AutoArm
  <2>2. CASE to # Returned
    <3>1. to \in Stretches
      BY <2>1, <2>2, ArmCallKeeps DEF Returned, Stretches
    <3>2. Moved(t, to, 1)
      BY <2>1, <2>2 DEF Moved
    <3> QED
      BY <3>1, <3>2
  <2>3. CASE to = Returned
    <3>1. Proceed(t)
      BY <2>1, <2>3 DEF Touched
    <3>2. auto[t][1] \in DOMAIN After
      BY <1>1, <1>6 DEF AutoArm, ArmSteps, After, Stretches
    <3> QED
      BY <1>2, <3>1, <3>2
  <2> QED
    BY <2>2, <2>3
<1>7. CASE Dance(t)
  <2>1. Moved(t, auto[t][1], 2) \/ Proceed(t)
    BY <1>7 DEF Dance, Moved
  <2>2. auto[t][1] \in DOMAIN After
    BY <1>7 DEF Dance, After
  <2> QED
    BY <1>1, <1>2, <2>1, <2>2
<1> QED
  BY <1>3, <1>4, <1>5, <1>6, <1>7 DEF Sequence

LEMMA AutoThreadTypes ==
    ASSUME ThreadTypeOK, ArmInv, NEW t \in Autos, Sequence(t), match' = match
    PROVE  ThreadTypeOK'
<1>1. auto' \in [Autos -> Stretches \X (1..4)]
  BY AutoMoves DEF ThreadTypeOK, Moved
<1>2. polling' = polling
  BY DEF Sequence, SetWheel, Again, Elapsed, AutoArm, Dance
<1> QED
  BY <1>1, <1>2, UsedKept DEF ThreadTypeOK

(* The only wheel a thread no longer has to stop is the one it has stopped.*)
LEMMA StopsOrStopped ==
    ASSUME ThreadTypeOK, PowerTypeOK, ArmInv, NEW t \in Autos, Sequence(t),
           NEW w \in 1..3, WillStop(t, w)
    PROVE  WillStop(t, w)' \/ wheels'[w] # "full"
<1>1. /\ auto[t][1] \in {"drive", "goal", "pause", "stop"}
      /\ auto[t][1] \in {"pause", "stop"} => auto[t][2] <= w
  BY DEF WillStop
<1>2. ASSUME NEW s, NEW k, Moved(t, s, k),
             s \in {"drive", "goal"} \/ (s \in {"pause", "stop"} /\ k <= w)
      PROVE  WillStop(t, w)'
  <2>1. auto'[t] = <<s, k>>
    BY <1>2 DEF Moved, ThreadTypeOK
  <2> QED
    BY <1>2, <2>1 DEF WillStop
<1>3. auto[t][2] \in 1..4
  BY DEF ThreadTypeOK
<1>4. CASE SetWheel(t)
  <2>1. Moved(t, auto[t][1], auto[t][2] + 1)
    BY <1>4 DEF SetWheel, Moved
  <2>2. CASE auto[t][1] \in {"drive", "goal"} \/ auto[t][2] < w
    <3>1. \/ auto[t][1] \in {"drive", "goal"}
          \/ auto[t][1] \in {"pause", "stop"} /\ auto[t][2] + 1 <= w
      BY <1>1, <1>3, <2>2
    <3> QED
      BY <1>2, <2>1, <3>1
  <2>3. CASE auto[t][1] \in {"pause", "stop"} /\ auto[t][2] = w
    <3>1. wheels' = [wheels EXCEPT ![w] = "off"]
      <4>1. WheelPower[auto[t][1]] = "off"
        BY <2>3 DEF WheelPower
      <4> QED
        BY <1>4, <2>3, <4>1 DEF SetWheel
    <3> QED
      BY <3>1 DEF PowerTypeOK
  <2> QED
    BY <1>1, <1>3, <2>2, <2>3
<1>5. CASE Again(t)
  <2>1. Moved(t, auto[t][1], 1)
    BY <1>5 DEF Again, Moved
  <2> QED
    BY <1>1, <1>2, <2>1
<1>6. CASE Elapsed(t)
  <2>1. Moved(t, After[auto[t][1]], 1)
    BY <1>6 DEF Elapsed, Proceed, Moved
  <2>2. auto[t][1] \in {"drive", "goal"}
    BY <1>1, <1>6 DEF Elapsed
  <2>3. After[auto[t][1]] \in {"pause", "stop"}
    BY <2>2 DEF After
  <2> QED
    BY <1>2, <2>1, <2>3
<1> QED
  BY <1>1, <1>4, <1>5, <1>6 DEF Sequence, AutoArm, ArmSteps, Dance

LEMMA AutoWheels ==
    ASSUME ThreadTypeOK, PowerTypeOK, ArmInv, NoRunaway, NEW t \in Autos, Sequence(t)
    PROVE  NoRunaway'
<1>1. ASSUME NEW u \in Autos, u # t, NEW w \in 1..3, WillStop(u, w)
      PROVE  WillStop(u, w)'
  <2>1. auto'[u] = auto[u]
    BY <1>1, AutoMoves DEF Moved, ThreadTypeOK
  <2> QED
    BY <1>1, <2>1 DEF WillStop
<1>2. ASSUME NEW w \in 1..3, wheels'[w] = "full", wheels[w] # "full"
      PROVE  WillStop(t, w)'
  <2>1. SetWheel(t)
    BY <1>2 DEF Sequence, Again, Elapsed, AutoArm, Dance, powers
  <2>2. auto[t][1] \in {"drive", "goal"}
    BY <1>2, <2>1 DEF SetWheel, WheelPower, PowerTypeOK
  <2>3. auto'[t][1] = auto[t][1]
    BY <2>1 DEF SetWheel, ThreadTypeOK
  <2> QED
    BY <2>2, <2>3 DEF WillStop
<1>3. ASSUME NEW w \in 1..3, wheels'[w] = "full", wheels[w] = "full"
      PROVE  \E u \in Autos : WillStop(u, w)'
  <2>1. PICK u \in Autos : WillStop(u, w)
    BY <1>3 DEF NoRunaway
  <2> QED
    BY <1>1, <1>3, <2>1, StopsOrStopped
<1> QED
  BY <1>2, <1>3 DEF NoRunaway

-------------------------------------------------------------------------------
(* All of it.                                                              *)

LEMMA Initially == Init => IInv
<1> SUFFICES ASSUME Init
             PROVE  IInv
  OBVIOUS
<1>1. ArmInv
  <2>1. /\ match \in Matches /\ active = TRUE /\ sensor \in BOOLEAN /\ armed = FALSE
        /\ execute = "none" /\ shooter = "off" /\ on = FALSE
    BY Zenon DEF Init, ArmInit
  <2>2. late = 0
    BY DEF Init, ArmInit
  <2>3. late \in 0..2 /\ late <= 1
    BY <2>2
  <2> QED
    BY <2>1, <2>3, Zenon DEF ArmInv, ArmTypeOK
<1>2. ModeTypeOK
  BY DEF Init, ModeTypeOK, Modes, Steps
<1>3. PowerTypeOK
  BY DEF Init, PowerTypeOK
<1>4. ThreadTypeOK
  BY DEF Init, ThreadTypeOK, AtRest, Returned, ArmSteps, Stretches
<1>5. ModeInv
  BY DEF Init, ModeInv, Matching
<1>6. NoRunaway
  BY DEF Init, NoRunaway
<1> QED
  BY <1>1, <1>2, <1>3, <1>4, <1>5, <1>6 DEF IInv, TypeOK, ArmInv

LEMMA Inductive == IInv /\ [Next]_vars => IInv'
<1> SUFFICES ASSUME IInv, [Next]_vars
             PROVE  IInv'
  OBVIOUS
<1> USE DEF IInv, TypeOK
<1>1. ArmInv => ArmTypeOK
  BY DEF ArmInv
<1>2. (ArmInv => ArmTypeOK)'
  BY DEF ArmInv
<1>3. CASE MainSteps
  BY <1>2, <1>3, MainArm, MainModeTypes, MainPowerTypes, MainThreadTypes, MainModes,
     MainWheels
<1>4. CASE Poll
  <2>1. UNCHANGED <<main, flags, bound>>
    BY <1>4 DEF Poll, Polling, ArmGoesOn, Press, CallArm, CallSteer, CallMove, CallReset
  <2> QED
    BY <1>2, <1>4, <2>1, PollArm, ModeTypesAlone, ModesAlone, PollPowerTypes,
       PollThreadTypes, PollWheels
<1>5. ASSUME NEW t \in Autos, Sequence(t)
      PROVE  IInv'
  <2>1. UNCHANGED <<main, flags, bound>>
    BY <1>5 DEF Sequence, SetWheel, Again, Elapsed, AutoArm, Dance
  <2> QED
    BY <1>2, <1>5, <2>1, AutoArmKeeps, ModeTypesAlone, ModesAlone, AutoPowerTypes,
       AutoThreadTypes, AutoWheels
<1>6. CASE (Loop \/ Touch) /\ Aside
  <2>1. ArmInv' /\ match' = match
    BY <1>6, LoopKeeps
  <2>2. UNCHANGED <<main, flags, bound, lights, powers, polling, auto, wheels>>
    BY <1>6 DEF Aside, powers
  <2> QED
    BY <1>2, <2>1, <2>2, ModeTypesAlone, ModesAlone, PowerTypesAlone, ThreadTypesAlone,
       WheelsAlone
<1>7. CASE UNCHANGED vars
  <2>1. /\ UNCHANGED armVars
        /\ UNCHANGED <<main, flags, bound, lights, powers, polling, auto, wheels>>
    BY <1>7 DEF vars, powers
  <2> QED
    BY <1>2, <2>1, ArmAlone, ModeTypesAlone, ModesAlone, PowerTypesAlone,
       ThreadTypesAlone, WheelsAlone
<1> QED
  BY <1>3, <1>4, <1>5, <1>6, <1>7 DEF Next, MainSteps, Poll

(* The invariant, for every choice of matches.                             *)
THEOREM Invariance == Spec => []IInv
  BY Initially, Inductive, PTL DEF Spec

(* TypeOK: every variable keeps its type (RobotTemplate.cpp, CockArm.cpp). *)
THEOREM TypeCorrect == Spec => []TypeOK
<1>1. IInv => TypeOK
  BY DEF IInv
<1> QED
  BY <1>1, Invariance, PTL

(* ListenersMatchMode: the listeners that are bound are those of the mode  *)
(* entered last, however the modes followed each other.                    *)
THEOREM ListenersMatchModeAlways == Spec => []ListenersMatchMode
<1>1. IInv => ListenersMatchMode
  <2>1. ASSUME main = Idle
        PROVE  main.mode = "idle"
    BY <2>1 DEF Idle
  <2> QED
    BY <2>1 DEF IInv, ModeInv, Matching, ListenersMatchMode
<1> QED
  BY <1>1, Invariance, PTL

(* NoRunaway: no thread leaves a wheel running, however many autonomous    *)
(* threads there are.                                                      *)
THEOREM NoRunawayAlways == Spec => []NoRunaway
<1>1. IInv => NoRunaway
  BY DEF IInv
<1> QED
  BY <1>1, Invariance, PTL

(* StopIsHeeded: at most one power is set by the loop after stopArmCock(). *)
THEOREM StopIsHeededAlways == Spec => []StopIsHeeded
<1>1. IInv => StopIsHeeded
  BY DEF IInv, ArmInv, StopIsHeeded
<1> QED
  BY <1>1, Invariance, PTL
===============================================================================
