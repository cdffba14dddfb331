--------------------------- MODULE LinearAngleTarget ---------------------------
(***************************************************************************)
(* The loop that turns a wheel to an angle and holds it there:             *)
(* src/src/HardwareLink/Motor/SpeedControl/LinearAngleTarget.cpp, called   *)
(* every 100 ms by MotorControl::execute, with a motor and an encoder.     *)
(*                                                                         *)
(* One execute() reads the encoder up to three times: in isComplete, for   *)
(* the error, and for the direction.  The motor turns, and the thread of   *)
(* the autonomous mode changes the target (AutoConfig.cpp:39-41, 77-79),   *)
(* between the reads.  Angles are whole degrees; a power is a whole number *)
(* of 1/9000, so that nothing in speedControlStep is rounded.              *)
(***************************************************************************)
EXTENDS RobotMath

CONSTANTS
    Targets,    \* arguments of startSpeedControl and setControlTarget
    Offset,     \* _offset of the encoder: -60, 17 and -35 on the robot
    MinSpeed,   \* _minSpeed, in hundredths: 40 on the robot
    Threshold,  \* _threshold: 4 on the robot
    FullTurns,  \* motors: degrees, at most, from one new power to the next at full power
    MinTurn,    \* the motor: degrees, at least, in the 100 ms between two execute()
    Drift,      \* the motor: degrees during one execute()
    MaxSets     \* bound: calls of setControlTarget

ASSUME AngleAssumption ==
    /\ Targets \subseteq Int
    /\ Offset \in Int
    /\ MinSpeed \in 1..99
    /\ Threshold \in 1..90
    /\ FullTurns \subseteq Nat
    /\ MinTurn \in Nat
    /\ Drift \in Nat
    /\ Drift < MinTurn
    /\ Drift < Threshold
    /\ MaxSets \in Nat

VARIABLES
    full,       \* which of the motors it is
    wheel,      \* where the wheel is, in degrees of its encoder
    enabled,    \* _spdControlEnabled of the MotorLink
    target,     \* _targetAngle
    power,      \* the power of the motor
    pc,         \* where execute() is
    error,      \* its local variable of that name
    turned,     \* degrees since the motor was given its power
    drifted,    \* degrees since execute() began
    sets,       \* number of setControlTarget calls
    clean,      \* history: the target is the one execute() began with
    fresh       \* history: the power was computed for this target alone

vars == <<full, wheel, enabled, target, power, pc, error, turned, drifted, sets, clean, fresh>>

-------------------------------------------------------------------------------
(* MagneticPotEncoder::getAngle, whose ten readings are taken to agree.    *)
GetAngle == wheel + Offset

(* speedControlStep without the encoder: e is the error, d the direction   *)
(* that getMotorDirToTarget gave.  The gain is not symmetric: a negative   *)
(* error only outweighs _minSpeed beyond 120 degrees.                      *)
Gain(e) == e * (100 - MinSpeed) + 90 * MinSpeed

SpeedControlStep_GainOnly(e, d) ==
    IF Abs(e) < Threshold THEN 0 ELSE Gain(e)

SpeedControlStep(e, d) ==
    IF Abs(e) < Threshold THEN 0
    ELSE IF Abs(Gain(e)) > 90 * MinSpeed THEN Gain(e)
    ELSE d * 90 * MinSpeed

Error == AngleDistance(GetAngle, target)

Init ==
    /\ full \in FullTurns
    /\ wheel \in 0..359
    /\ enabled = FALSE
    /\ target = 0
    /\ power = 0
    /\ pc = "wait"
    /\ error = 0
    /\ turned = 0
    /\ drifted = 0
    /\ sets = 0
    /\ clean = FALSE
    /\ fresh = FALSE

(* setControlTargetImpl: a multiple of 180 leaves the target alone.        *)
SetControlTargetImpl(v) ==
    /\ target' = IF v % 180 = 0 THEN target ELSE v
    /\ clean' = (clean /\ target' = target)
    /\ fresh' = (fresh /\ target' = target)

(* startSpeedControl(v): the loop begins (MotorLink has the steps).        *)
StartSpeedControl(v) ==
    /\ ~enabled
    /\ enabled' = TRUE
    /\ SetControlTargetImpl(v)
    /\ UNCHANGED <<full, wheel, power, pc, error, turned, drifted, sets>>

(* MotorLink::setControlTarget ignores the call before that.  No lock is   *)
(* held (MotorControl.cpp:27), so it happens at any time.                  *)
SetControlTarget(v) ==
    /\ enabled
    /\ sets < MaxSets
    /\ sets' = sets + 1
    /\ SetControlTargetImpl(v)
    /\ UNCHANGED <<full, wheel, enabled, power, pc, error, turned, drifted>>

-------------------------------------------------------------------------------
(* A motor turns no faster than in proportion to its power, and it gets no *)
(* more than the full 9000.                                                *)
MostTurn(f, p) == (f * (IF Abs(p) < 9000 THEN Abs(p) ELSE 9000)) \div 9000

(* The motor turns by a degree in the direction of its power.              *)
Turn ==
    /\ power # 0
    /\ turned < MostTurn(full, power)
    /\ pc = "wait" \/ drifted < Drift
    /\ wheel' = (wheel + Sgn(power)) % 360
    /\ turned' = turned + 1
    /\ drifted' = IF pc = "wait" THEN 0 ELSE drifted + 1
    /\ UNCHANGED <<full, enabled, target, power, pc, error, sets, clean, fresh>>

(* execute() begins, 100 ms after the last: isComplete reads the encoder.  *)
IsComplete ==
    /\ enabled
    /\ pc = "wait"
    /\ power = 0 \/ turned >= MinTurn
    /\ pc' = IF Abs(Error) < Threshold THEN "stop" ELSE "error"
    /\ drifted' = 0
    /\ clean' = TRUE
    /\ UNCHANGED <<full, wheel, enabled, target, power, error, turned, sets, fresh>>

(* The motor gets a new power, and the timer is armed again.               *)
SetSpeedForce(p) ==
    /\ power' = p
    /\ pc' = "wait"
    /\ error' = 0
    /\ turned' = 0
    /\ drifted' = 0
    /\ fresh' = clean

Stop_Forgotten ==
    /\ pc = "stop"
    /\ SetSpeedForce(power)
    /\ UNCHANGED <<full, wheel, enabled, target, sets, clean>>

Stop ==
    /\ pc = "stop"
    /\ SetSpeedForce(0)
    /\ UNCHANGED <<full, wheel, enabled, target, sets, clean>>

(* speedControlStep: the error ...                                         *)
ReadError ==
    /\ pc = "error"
    /\ error' = Error
    /\ pc' = "direction"
    /\ UNCHANGED <<full, wheel, enabled, target, power, turned, drifted, sets, clean, fresh>>

(* ... and, after another look at encoder and target, the power.           *)
ReadDirection ==
    /\ pc = "direction"
    /\ SetSpeedForce(SpeedControlStep(error, GetMotorDirToTarget(GetAngle, target)))
    /\ UNCHANGED <<full, wheel, enabled, target, sets, clean>>

Execute == IsComplete \/ Stop \/ ReadError \/ ReadDirection

Next == \/ \E v \in Targets : StartSpeedControl(v) \/ SetControlTarget(v)
        \/ Turn
        \/ Execute

(* The timer keeps calling execute (LoopGoesOn of MotorLink), and a motor  *)
(* with power turns: _minSpeed is there to overcome its friction.          *)
Spec == Init /\ [][Next]_vars /\ WF_vars(Execute) /\ WF_vars(Turn)

-------------------------------------------------------------------------------
TypeOK ==
    /\ full \in FullTurns
    /\ wheel \in 0..359
    /\ enabled \in BOOLEAN
    /\ target \in Int
    /\ power \in Int
    /\ pc \in {"wait", "stop", "error", "direction"}
    /\ error \in -180..180
    /\ turned \in 0..MostTurn(full, power)
    /\ drifted \in 0..Drift
    /\ sets \in 0..MaxSets
    /\ clean \in BOOLEAN
    /\ fresh \in BOOLEAN

(* Unless the target changed while it was computed, a new power turns the  *)
(* motor the short way round, although error and direction come from two   *)
(* different readings (LinearAngleTarget.cpp:38, 41).  Half a turn away    *)
(* both ways are equally short.                                            *)
TurnsShortWay ==
    [][ pc # "wait" /\ pc' = "wait" /\ clean /\ power' # 0 =>
          \/ Sgn(power') = Sgn(Error)
          \/ Abs(Error) >= 180 - Drift ]_vars

(* A power computed for the present target only brings the motor nearer,   *)
(* except half a turn away, where both ways are equally short, and beyond  *)
(* the target: from the threshold the motor cannot get further past it     *)
(* than that power can turn it before the next one.                        *)
NeverLosesGround ==
    [][ fresh /\ Abs(Error') > Abs(Error) /\ target' = target =>
          \/ Abs(Error') <= MostTurn(full, power) + Drift - Threshold
          \/ Abs(Error) >= 180 - Drift ]_vars

(* How far past the target a motor may get from the edge of the threshold. *)
(* From further away its power is greater, but by less than a degree of    *)
(* turning for a degree of error (as long as f is below 150).              *)
PastTarget(f) == MostTurn(f, Gain(Threshold)) + Drift - Threshold

(* Whenever the target stops changing, the motor ends up within the        *)
(* threshold of it, or no further than one overshoot takes it, however     *)
(* strong it is.                                                           *)
StaysNear ==
    <>[]enabled =>
        <>[](Abs(Error) < Threshold \/ Abs(Error) <= PastTarget(full))

(* And a motor too weak to get past both edges of the threshold comes to   *)
(* rest, without hunting to and fro.                                       *)
NoOvershoot == full \in {f \in FullTurns : PastTarget(f) < Threshold}

ComesToRest ==
    <>[]enabled => <>[](NoOvershoot => power = 0 /\ Abs(Error) < Threshold)

-------------------------------------------------------------------------------
(* The facts of RobotMath, for the angles of the wheel and any further     *)
(* turns the gyro may have added to the target (AutoConfig.cpp:77-79).     *)
Further(a) == {a - 720, a, a + 360}

NormalIsCanonical == \A a \in Further(GetAngle) : CanonicalAt(a, GetAngle)

DistanceIsShortest == \A b \in Further(target) : ShortestAt(GetAngle, b)

DirectionsAgree == \A b \in Further(target) : DirectionsAgreeAt(GetAngle, b)

SwerveIsShort == \A b \in Further(target) : SwerveShortAt(GetAngle, b)

===============================================================================
