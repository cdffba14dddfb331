------------------------------- MODULE RobotMath -------------------------------
(***************************************************************************)
(* The angle arithmetic of src/src/RobotMovement/RobotMath.cpp and of      *)
(* SwerveDrive::optimizeSwerve, over whole degrees where the code has      *)
(* doubles, and with powers in hundredths.  The module has no state;       *)
(* LinearAngleTarget uses it.                                              *)
(***************************************************************************)
EXTENDS Integers

-------------------------------------------------------------------------------
Abs(n) == IF n < 0 THEN -n ELSE n

(* sgn divides |n| by n; at 0 that is NaN, which no caller gets to see: it *)
(* is written 0 here.                                                      *)
Sgn(n) == IF n < 0 THEN -1 ELSE IF n > 0 THEN 1 ELSE 0

(* fmod of the C library keeps the sign of its first argument.             *)
Fmod360(a) == IF a < 0 THEN -((-a) % 360) ELSE a % 360

NormalizeAngle_Raw(a) == Fmod360(a)

NormalizeAngle(a) ==
    LET theta == Fmod360(Fmod360(a) + 360)
    IN  IF theta > 180 THEN theta - 360 ELSE theta

AngleDistance_Long(a, b) == NormalizeAngle(b) - NormalizeAngle(a)

AngleDistance(a, b) ==
    LET dist == NormalizeAngle(b) - NormalizeAngle(a)
    IN  IF Abs(dist) > 180 THEN -Sgn(dist) * (360 - Abs(dist)) ELSE dist

(* MotorDir: DIR_CCW = -1, DIR_NONE = 0, DIR_CW = 1.                       *)
GetMotorDirToTarget_Plain(c, t) ==
    Sgn(NormalizeAngle(t) - NormalizeAngle(c))

GetMotorDirToTarget(c, t) ==
    LET d == NormalizeAngle(c) - NormalizeAngle(t)
    IN  IF d = 0 \/ d = 180 THEN 0
        ELSE (IF Abs(d) > 180 THEN 1 ELSE -1) * (IF d < 0 THEN -1 ELSE 1)

(* The angle and the velocity that drive a wheel now at angle `ang1` in    *)
(* direction `ang2`: back to front if that takes less turning.             *)
OptimizeSwerve_KeepsVelocity(ang1, ang2, vel) ==
    IF Abs(AngleDistance(ang2, ang1)) > 90
    THEN <<ang2 + 180, vel>>
    ELSE <<ang2, vel>>

OptimizeSwerve(ang1, ang2, vel) ==
    IF Abs(AngleDistance(ang2, ang1)) > 90
    THEN <<ang2 + 180, -vel>>
    ELSE <<ang2, vel>>

-------------------------------------------------------------------------------
SameAngle(a, b) == (a - b) % 360 = 0

(* normalizeAngle gives every direction one name, however many turns the   *)
(* angles in it are apart, and wherever fmod truncates                     *)
(* (RobotMath.cpp:17-22).                                                  *)
CanonicalAt(a, b) ==
    /\ SameAngle(NormalizeAngle(a), a)
    /\ SameAngle(a, b) => NormalizeAngle(a) = NormalizeAngle(b)

(* angleDistance is a turn from the one angle to the other, and no turn is *)
(* shorter (RobotMath.h:33-35).                                            *)
ShortestAt(a, b) ==
    LET d == AngleDistance(a, b)
    IN  /\ SameAngle(a + d, b)
        /\ -180 <= d /\ d <= 180

(* The two ways the code finds the direction of a turn, angleDistance and  *)
(* getMotorDirToTarget, agree, except that the latter sees no direction if *)
(* the angles are opposite and the current one is the larger.              *)
DirectionsAgreeAt(a, b) ==
    LET d == AngleDistance(a, b)
    IN  GetMotorDirToTarget(a, b) = IF d = -180 THEN 0 ELSE Sgn(d)

(* optimizeSwerve never has a wheel turn more than 90 degrees, and the     *)
(* wheel drives the robot the same way: either both the angle and the      *)
(* velocity are reversed or neither is.                                    *)
SwerveShortAt(a, b) ==
    LET o == OptimizeSwerve(a, b, 100)
    IN  /\ Abs(AngleDistance(a, o[1])) <= 90
        /\ \/ o[2] = 100 /\ SameAngle(o[1], b)
           \/ o[2] = -100 /\ SameAngle(o[1], b + 180)

===============================================================================
