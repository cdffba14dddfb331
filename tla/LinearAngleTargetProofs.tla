------------------------- MODULE LinearAngleTargetProofs -------------------------
(***************************************************************************)
(* First the facts of RobotMath for all angles: what TLC evaluates where a *)
(* wheel may be holds of every pair of integers.                           *)
(*                                                                         *)
(* Then the loop that turns a wheel to an angle, whatever its parameters   *)
(* and however motor, callback and targets interleave.  The encoder always *)
(* shows an integer, so that the facts hold wherever the wheel is; and a   *)
(* power, once given, turns the motor the way that is ahead, which is      *)
(* short.                                                                  *)
(***************************************************************************)
EXTENDS LinearAngleTarget, TLAPS

(* Congruence modulo a full turn.                                          *)
LEMMA SameSum ==
    ASSUME NEW a \in Int, NEW b \in Int, NEW c \in Int, NEW d \in Int,
           SameAngle(a, b), SameAngle(c, d)
    PROVE  SameAngle(a + c, b + d)
  BY SMT DEF SameAngle

LEMMA SameTransitive ==
    ASSUME NEW a \in Int, NEW b \in Int, NEW c \in Int,
           SameAngle(a, b), SameAngle(b, c)
    PROVE  SameAngle(a, c)
  BY SMT DEF SameAngle

(* What normalizeAngle returns.                                            *)
LEMMA Normal ==
    ASSUME NEW a \in Int
    PROVE  /\ NormalizeAngle(a) \in Int
           /\ -180 < NormalizeAngle(a) /\ NormalizeAngle(a) <= 180
           /\ SameAngle(NormalizeAngle(a), a)
<1>1. /\ NormalizeAngle(a) \in Int
      /\ -180 < NormalizeAngle(a) /\ NormalizeAngle(a) <= 180
  BY SMT DEF NormalizeAngle, Fmod360
<1>2. SameAngle(NormalizeAngle(a), a)
  BY SMT DEF NormalizeAngle, Fmod360, SameAngle
<1> QED
  BY <1>1, <1>2

(* What angleDistance returns.                                             *)
LEMMA Distance ==
    ASSUME NEW a \in Int, NEW b \in Int
    PROVE  /\ AngleDistance(a, b) \in Int
           /\ -180 <= AngleDistance(a, b) /\ AngleDistance(a, b) <= 180
           /\ SameAngle(a + AngleDistance(a, b), b)
<1> DEFINE m == NormalizeAngle(a)
           n == NormalizeAngle(b)
           d == AngleDistance(a, b)
<1>1. /\ m \in Int /\ -180 < m /\ m <= 180 /\ SameAngle(m, a)
      /\ n \in Int /\ -180 < n /\ n <= 180 /\ SameAngle(n, b)
  BY Normal
<1>2. d = IF Abs(n - m) > 180 THEN -Sgn(n - m) * (360 - Abs(n - m)) ELSE n - m
  BY DEF AngleDistance
<1>3. d \in {n - m, n - m - 360, n - m + 360} /\ -180 <= d /\ d <= 180
  <2> HIDE DEF m, n, d
  <2> QED
    BY <1>1, <1>2, SMT DEF Abs, Sgn
<1>4. SameAngle(a + d, b)
  <2> HIDE DEF m, n, d
  <2> QED
    BY <1>1, <1>3, SMT DEF SameAngle
<1> QED
  BY <1>1, <1>3, <1>4

(* normalizeAngle gives every direction one name.                          *)
THEOREM Canonical == \A a, b \in Int : CanonicalAt(a, b)
<1> SUFFICES ASSUME NEW a \in Int, NEW b \in Int
             PROVE  CanonicalAt(a, b)
  OBVIOUS
<1> DEFINE m == NormalizeAngle(a)
           n == NormalizeAngle(b)
<1>1. /\ m \in Int /\ -180 < m /\ m <= 180 /\ SameAngle(m, a)
      /\ n \in Int /\ -180 < n /\ n <= 180 /\ SameAngle(n, b)
  BY Normal
<1>2. SameAngle(a, b) => m = n
  <2> HIDE DEF m, n
  <2> QED
    BY <1>1, SMT DEF SameAngle
<1> QED
  BY <1>1, <1>2 DEF CanonicalAt

(* angleDistance is the shortest turn.                                     *)
THEOREM Shortest == \A a, b \in Int : ShortestAt(a, b)
BY Distance DEF ShortestAt

(* The two notions of direction agree.                                     *)
THEOREM Direction == \A from, to \in Int : DirectionsAgreeAt(from, to)
<1> SUFFICES ASSUME NEW from \in Int, NEW to \in Int
             PROVE  DirectionsAgreeAt(from, to)
  OBVIOUS
<1> DEFINE m == NormalizeAngle(from)
           n == NormalizeAngle(to)
<1>1. /\ m \in Int /\ -180 < m /\ m <= 180
      /\ n \in Int /\ -180 < n /\ n <= 180
  BY Normal
<1>2. AngleDistance(from, to)
        = IF Abs(n - m) > 180 THEN -Sgn(n - m) * (360 - Abs(n - m)) ELSE n - m
  BY DEF AngleDistance
<1>3. GetMotorDirToTarget(from, to)
        = IF m - n = 0 \/ m - n = 180 THEN 0
          ELSE (IF Abs(m - n) > 180 THEN 1 ELSE -1) * (IF m - n < 0 THEN -1 ELSE 1)
  BY DEF GetMotorDirToTarget
<1> HIDE DEF m, n
<1> QED
  BY <1>1, <1>2, <1>3, SMT DEF DirectionsAgreeAt, Abs, Sgn

(* optimizeSwerve turns a wheel at most 90 degrees and keeps the drive.    *)
THEOREM Swerve == \A from, to \in Int : SwerveShortAt(from, to)
<1> SUFFICES ASSUME NEW from \in Int, NEW to \in Int
             PROVE  SwerveShortAt(from, to)
  OBVIOUS
<1> DEFINE d == AngleDistance(to, from)
           e == AngleDistance(from, to)
           r == AngleDistance(from, to + 180)
<1>1. /\ d \in Int /\ -180 <= d /\ d <= 180 /\ SameAngle(to + d, from)
      /\ e \in Int /\ -180 <= e /\ e <= 180 /\ SameAngle(from + e, to)
      /\ r \in Int /\ -180 <= r /\ r <= 180 /\ SameAngle(from + r, to + 180)
  BY Distance
<1>2. CASE Abs(d) > 90
  <2>1. OptimizeSwerve(from, to, 100) = <<to + 180, -100>>
    BY <1>2 DEF OptimizeSwerve
  <2>2. Abs(r) <= 90
    <3> HIDE DEF d, e, r
    <3> QED
      BY <1>1, <1>2, SMT DEF Abs, SameAngle
  <2>3. SameAngle(to + 180, to + 180)
    BY SMT DEF SameAngle
  <2> QED
    BY <2>1, <2>2, <2>3 DEF SwerveShortAt
<1>3. CASE ~(Abs(d) > 90)
  <2>1. OptimizeSwerve(from, to, 100) = <<to, 100>>
    BY <1>3 DEF OptimizeSwerve
  <2>2. Abs(e) <= 90
    <3> HIDE DEF d, e, r
    <3> QED
      BY <1>1, <1>3, SMT DEF Abs, SameAngle
  <2>3. SameAngle(to, to)
    BY SMT DEF SameAngle
  <2> QED
    BY <2>1, <2>2, <2>3 DEF SwerveShortAt
<1> QED
  BY <1>2, <1>3

-------------------------------------------------------------------------------
(* What separates two angles that are the same direction.                  *)
Turns == {-360, 0, 360}

(* What the callback read as the error differs from the error there is now *)
(* by what the wheel drifted, if nobody changed the target.                *)
ReadingInv ==
    pc = "direction" /\ clean =>
        \E k \in -drifted..drifted : Error - (error + k) \in Turns

(* The way there is ahead in the direction the motor turns: as long as the *)
(* threshold when the power was computed, or behind by what the motor has  *)
(* turned since, and not much more than half a turn.                       *)
AheadInv ==
    fresh /\ power # 0 =>
        \E ahead \in (Threshold - Drift - turned)..(180 + Drift - turned) :
            SameAngle(Sgn(power) * Error, ahead)

IInv == TypeOK /\ ReadingInv /\ AheadInv

(* A power is an integer, and so is a gain.                                *)
LEMMA PowerType ==
    ASSUME NEW e \in -180..180, NEW d \in Int, AngleAssumption
    PROVE  SpeedControlStep(e, d) \in Int
<1>1. Gain(e) \in Int
  BY SMT DEF Gain, AngleAssumption
<1> QED
  BY <1>1, SMT DEF SpeedControlStep, AngleAssumption

(* What a motor may turn is a number of degrees.                           *)
LEMMA MostTurnType ==
    ASSUME NEW f \in Nat, NEW p \in Int
    PROVE  MostTurn(f, p) \in Nat
<1> DEFINE q == IF Abs(p) < 9000 THEN Abs(p) ELSE 9000
<1>1. q \in Nat
  BY SMT DEF Abs
<1> HIDE DEF q
<1>2. f * q \in Nat
  BY <1>1, SMT
<1> DEFINE r == f * q
<1>3. MostTurn(f, p) = r \div 9000
  BY DEF MostTurn, q
<1> HIDE DEF r
<1> QED
  BY <1>2, <1>3, SMT DEF r

LEMMA TurnedType ==
    ASSUME TypeOK, AngleAssumption
    PROVE  turned \in Nat /\ MostTurn(full, power) \in Nat /\ turned <= MostTurn(full, power)
<1>1. MostTurn(full, power) \in Nat /\ turned \in 0..MostTurn(full, power)
  BY MostTurnType DEF TypeOK, AngleAssumption
<1> QED
  BY <1>1, SMT

(* The direction of a turn.                                                *)
LEMMA DirectionType ==
    ASSUME NEW a \in Int, NEW b \in Int
    PROVE  GetMotorDirToTarget(a, b) \in {-1, 0, 1}
<1>1. NormalizeAngle(a) \in Int /\ NormalizeAngle(b) \in Int
  BY Normal
<1> QED
  BY <1>1, SMT DEF GetMotorDirToTarget, Abs

LEMMA DistanceType ==
    \A a, b \in Int : AngleDistance(a, b) \in -180..180
<1> SUFFICES ASSUME NEW a \in Int, NEW b \in Int
             PROVE  AngleDistance(a, b) \in -180..180
  OBVIOUS
<1>1. /\ AngleDistance(a, b) \in Int
      /\ -180 <= AngleDistance(a, b) /\ AngleDistance(a, b) <= 180
  BY Distance
<1> QED
  BY <1>1, SMT

(* The error that the controller sees, now and after a step.               *)
LEMMA ErrorType ==
    ASSUME TypeOK, AngleAssumption
    PROVE  GetAngle \in Int /\ Error \in -180..180
<1>1. GetAngle \in Int /\ target \in Int
  BY SMT DEF TypeOK, AngleAssumption, GetAngle
<1> QED
  BY <1>1, DistanceType, Zenon DEF Error

LEMMA ErrorTypeNext ==
    ASSUME TypeOK', AngleAssumption
    PROVE  GetAngle' \in Int /\ Error' \in -180..180
<1>1. GetAngle' \in Int /\ target' \in Int
  BY SMT DEF TypeOK, AngleAssumption, GetAngle
<1> QED
  BY <1>1, DistanceType, Zenon DEF Error

(* One step keeps the types.                                               *)
LEMMA TypeStep ==
    ASSUME TypeOK, [Next]_vars, AngleAssumption
    PROVE  TypeOK'
<1> USE DEF TypeOK, AngleAssumption
<1>1. ASSUME NEW v \in Targets, StartSpeedControl(v)
      PROVE  TypeOK'
  BY <1>1, SMT DEF StartSpeedControl, SetControlTargetImpl
<1>2. ASSUME NEW v \in Targets, SetControlTarget(v)
      PROVE  TypeOK'
  BY <1>2, SMT DEF SetControlTarget, SetControlTargetImpl
<1>3. CASE Turn
  <2>1. Sgn(power) \in {-1, 0, 1}
    BY SMT DEF Sgn
  <2>2. wheel' \in 0..359 /\ drifted' \in 0..Drift
    BY <1>3, <2>1, SMT DEF Turn
  <2>3. turned' \in 0..MostTurn(full, power)
    BY <1>3, TurnedType, SMT DEF Turn
  <2> QED
    BY <1>3, <2>2, <2>3 DEF Turn
<1>4. CASE IsComplete
  BY <1>4, SMT DEF IsComplete
<1>5. CASE Stop
  <2>1. 0 \in 0..MostTurn(full, 0)
    BY MostTurnType, SMT
  <2> QED
    BY <1>5, <2>1 DEF Stop, SetSpeedForce
<1>6. CASE ReadError
  <2>1. Error \in -180..180
    BY ErrorType
  <2> QED
    BY <1>6, <2>1 DEF ReadError
<1>7. CASE ReadDirection
  <2>1. GetMotorDirToTarget(GetAngle, target) \in Int
    BY ErrorType, DirectionType
  <2>2. power' \in Int
    BY <1>7, <2>1, PowerType DEF ReadDirection, SetSpeedForce
  <2>3. 0 \in 0..MostTurn(full, power')
    BY <2>2, MostTurnType, SMT
  <2> QED
    BY <1>7, <2>2, <2>3 DEF ReadDirection, SetSpeedForce
<1>8. CASE UNCHANGED vars
  BY <1>8 DEF vars
<1> QED
  BY <1>1, <1>2, <1>3, <1>4, <1>5, <1>6, <1>7, <1>8 DEF Next, Execute

(* Every variable keeps its type.                                          *)
THEOREM TypeCorrect == Spec => []TypeOK
<1>1. Init => TypeOK
  <2>1. FullTurns \subseteq Nat /\ Drift \in Nat /\ MaxSets \in Nat
    BY AngleAssumption DEF AngleAssumption
  <2> SUFFICES ASSUME Init
               PROVE  TypeOK
    OBVIOUS
  <2>2. /\ target \in Int /\ power \in Int /\ error \in -180..180
        /\ turned \in 0..MostTurn(full, power) /\ drifted \in 0..Drift /\ sets \in 0..MaxSets
    <3>1. target = 0 /\ power = 0 /\ error = 0 /\ turned = 0 /\ drifted = 0 /\ sets = 0
      BY DEF Init
    <3>2. MostTurn(full, power) \in Nat
      BY <2>1, <3>1, MostTurnType DEF Init
    <3> QED
      BY <2>1, <3>1, <3>2, SMT
  <2>3. enabled \in BOOLEAN /\ clean \in BOOLEAN /\ fresh \in BOOLEAN
    BY DEF Init
  <2> QED
    BY <2>2, <2>3 DEF Init, TypeOK
<1>2. TypeOK /\ [Next]_vars => TypeOK'
  BY TypeStep, AngleAssumption
<1> QED
  BY <1>1, <1>2, PTL DEF Spec

(* What the encoder shows, and a further turn of the target.               *)
LEMMA FurtherType ==
    ASSUME NEW a \in Int
    PROVE  Further(a) \subseteq Int
  BY SMT DEF Further

(* normalizeAngle names every angle of the wheel as it does any further    *)
(* turn of it.                                                             *)
THEOREM NormalIsCanonicalAlways == Spec => []NormalIsCanonical
<1>1. TypeOK => NormalIsCanonical
  BY AngleAssumption, ErrorType, FurtherType, Canonical DEF NormalIsCanonical
<1> QED
  BY <1>1, TypeCorrect, PTL

(* angleDistance is a shortest turn from the wheel to its target.          *)
THEOREM DistanceIsShortestAlways == Spec => []DistanceIsShortest
<1>1. TypeOK => DistanceIsShortest
  <2> SUFFICES ASSUME TypeOK, NEW b \in Further(target)
               PROVE  ShortestAt(GetAngle, b)
    BY DEF DistanceIsShortest
  <2>1. GetAngle \in Int /\ b \in Int
    BY AngleAssumption, ErrorType, FurtherType DEF TypeOK
  <2> QED
    BY <2>1, Shortest
<1> QED
  BY <1>1, TypeCorrect, PTL

(* The two ways to find the direction of a turn agree.                     *)
THEOREM DirectionsAgreeAlways == Spec => []DirectionsAgree
<1>1. TypeOK => DirectionsAgree
  <2> SUFFICES ASSUME TypeOK, NEW b \in Further(target)
               PROVE  DirectionsAgreeAt(GetAngle, b)
    BY DEF DirectionsAgree
  <2>1. GetAngle \in Int /\ b \in Int
    BY AngleAssumption, ErrorType, FurtherType DEF TypeOK
  <2> QED
    BY <2>1, Direction
<1> QED
  BY <1>1, TypeCorrect, PTL

(* optimizeSwerve turns the wheel by at most 90 degrees.                   *)
THEOREM SwerveIsShortAlways == Spec => []SwerveIsShort
<1>1. TypeOK => SwerveIsShort
  <2> SUFFICES ASSUME TypeOK, NEW b \in Further(target)
               PROVE  SwerveShortAt(GetAngle, b)
    BY DEF SwerveIsShort
  <2>1. GetAngle \in Int /\ b \in Int
    BY AngleAssumption, ErrorType, FurtherType DEF TypeOK
  <2> QED
    BY <2>1, Swerve
<1> QED
  BY <1>1, TypeCorrect, PTL

-------------------------------------------------------------------------------
(* Which way the motor turns.                                              *)

LEMMA TurnsOnly ==
    ASSUME NEW n \in Int, n % 360 = 0, -720 < n, n < 720
    PROVE  n \in Turns
  BY SMT DEF Turns

LEMMA ErrorSame ==
    ASSUME UNCHANGED <<wheel, target>>
    PROVE  Error' = Error
  BY DEF Error, GetAngle

(* A degree turned is a degree less to go, up to a whole turn.             *)
LEMMA DegreeLess ==
    ASSUME NEW a \in Int, NEW b \in Int, NEW t \in Int, NEW s \in {-1, 1},
           NEW e \in -180..180, NEW f \in -180..180,
           SameAngle(a + e, t), SameAngle(b + f, t), SameAngle(b, a + s)
    PROVE  f - (e - s) \in Turns
<1>1. (f - (e - s)) % 360 = 0
  <2>1. PICK i \in Int, j \in Int, k \in Int :
           a + e - t = 360 * i /\ b + f - t = 360 * j /\ b - (a + s) = 360 * k
    <3>1. \A n \in Int : n % 360 = 0 => n = 360 * (n \div 360) /\ n \div 360 \in Int
      BY SMT
    <3>2. a + e - t \in Int /\ b + f - t \in Int /\ b - (a + s) \in Int
      BY SMT
    <3> QED
      BY <3>1, <3>2 DEF SameAngle
  <2>2. PICK n \in Int : f - (e - s) = 360 * n
    <3>1. j - i - k \in Int /\ f - (e - s) = 360 * (j - i - k)
      BY <2>1, SMT
    <3> QED
      BY <3>1
  <2>3. (360 * n) % 360 = 0
    BY SMT
  <2> QED
    BY <2>2, <2>3, SMT
<1>2. f - (e - s) \in Int /\ -720 < f - (e - s) /\ f - (e - s) < 720
  BY SMT
<1> QED
  BY <1>1, <1>2, TurnsOnly

LEMMA TurnShifts ==
    ASSUME TypeOK, TypeOK', AngleAssumption, Turn
    PROVE  /\ Sgn(power) \in {-1, 1}
           /\ Error' - (Error - Sgn(power)) \in Turns
<1>1. Sgn(power) \in {-1, 1}
  BY SMT DEF Turn, TypeOK, Sgn
<1>2. /\ GetAngle \in Int /\ Error \in -180..180
      /\ GetAngle' \in Int /\ Error' \in -180..180
      /\ target \in Int /\ target' = target
  BY ErrorType, ErrorTypeNext DEF TypeOK, Turn
<1>3. SameAngle(GetAngle', GetAngle + Sgn(power))
  <2>1. wheel \in 0..359 /\ Offset \in Int /\ wheel' = (wheel + Sgn(power)) % 360
    BY DEF TypeOK, AngleAssumption, Turn
  <2>2. ASSUME NEW w \in 0..359, NEW o \in Int, NEW s \in {-1, 1}
        PROVE  SameAngle(((w + s) % 360) + o, w + o + s)
    <3>1. ((w + s) % 360) - (w + s) \in {-360, 0, 360}
      BY SMT
    <3> QED
      BY <3>1, SMT DEF SameAngle
  <2> QED
    BY <1>1, <2>1, <2>2 DEF GetAngle
<1>4. SameAngle(GetAngle + Error, target) /\ SameAngle(GetAngle' + Error', target)
  BY <1>2, Distance DEF Error
<1> QED
  BY <1>1, <1>2, <1>3, <1>4, DegreeLess

(* The way ahead is a degree shorter.                                      *)
LEMMA AheadLess ==
    ASSUME NEW s \in {-1, 1}, NEW e \in -180..180, NEW f \in -180..180,
           NEW ahead \in Int,
           SameAngle(s * e, ahead), f - (e - s) \in Turns
    PROVE  SameAngle(s * f, ahead - 1)
<1>1. SameAngle(s * f - s * e, -1)
  BY SMT DEF Turns, SameAngle
<1>2. s * e \in Int /\ s * f - s * e \in Int
  BY SMT
<1>3. SameAngle(s * e + (s * f - s * e), ahead + (-1))
  BY <1>1, <1>2, SameSum
<1>4. s * e + (s * f - s * e) = s * f /\ ahead + (-1) = ahead - 1
  BY <1>2, SMT
<1> QED
  BY <1>3, <1>4

(* It is lost only beyond the target or half a turn away.                  *)
LEMMA AheadLost ==
    ASSUME NEW s \in {-1, 1}, NEW e \in -180..180, NEW f \in -180..180,
           NEW d \in Nat, NEW ahead \in Int, ahead <= 180 + d,
           SameAngle(s * e, ahead), SameAngle(s * f, ahead - 1),
           Abs(f) > Abs(e)
    PROVE  Abs(f) <= 1 - ahead \/ Abs(e) >= 180 - d
<1> DEFINE x == s * e
           y == s * f
<1>1. /\ x \in -180..180 /\ Abs(x) = Abs(e)
      /\ y \in -180..180 /\ Abs(y) = Abs(f)
  BY SMT DEF Abs
<1>2. SameAngle(x, ahead) /\ SameAngle(y, ahead - 1)
  OBVIOUS
<1> HIDE DEF x, y
<1>3. CASE ahead > 180
  BY <1>1, <1>2, <1>3, SMT DEF SameAngle, Abs
<1>4. CASE 1 <= ahead /\ ahead <= 180
  BY <1>1, <1>2, <1>4, SMT DEF SameAngle, Abs
<1>5. CASE ahead <= 0
  BY <1>1, <1>2, <1>5, SMT DEF SameAngle, Abs
<1> QED
  BY <1>3, <1>4, <1>5

(* The gain keeps the sign of the error where it matters.                  *)
LEMMA GainSign ==
    ASSUME NEW e \in -180..180, e # 0, AngleAssumption,
           Abs(Gain(e)) > 90 * MinSpeed
    PROVE  Sgn(Gain(e)) = Sgn(e)
<1> DEFINE g == 100 - MinSpeed
           m == 90 * MinSpeed
<1>1. g \in Int /\ g > 0 /\ m \in Int /\ m > 0
  BY SMT DEF AngleAssumption
<1>2. Gain(e) = e * g + m
  BY DEF Gain
<1> HIDE DEF g, m
<1>3. e * g \in Int /\ (e > 0 => e * g > 0) /\ (e < 0 => e * g < 0)
  BY <1>1, SMT
<1>4. Abs(Gain(e)) > m
  BY DEF m
<1> QED
  BY <1>2, <1>3, <1>1, <1>4, SMT DEF Sgn, Abs

(* A power that is computed from an error e and, a little later, from the  *)
(* direction of an error f turns the motor the way that is ahead.          *)
LEMMA PowerAhead ==
    ASSUME AngleAssumption,
           NEW e \in -180..180, NEW f \in -180..180,
           NEW k \in -Drift..Drift, f - (e + k) \in Turns,
           NEW d, d = IF f = -180 THEN 0 ELSE Sgn(f),
           SpeedControlStep(e, d) # 0
    PROVE  \E ahead \in (Threshold - Drift)..(180 + Drift) :
               Sgn(SpeedControlStep(e, d)) * f - ahead \in Turns
<1> DEFINE p == SpeedControlStep(e, d)
<1>1. /\ Drift \in Int /\ 0 <= Drift /\ Drift < Threshold
      /\ Threshold \in Int /\ 1 <= Threshold /\ Threshold <= 90
      /\ MinSpeed \in Int /\ 0 < MinSpeed
      /\ k \in Int /\ -Drift <= k /\ k <= Drift
  BY SMT DEF AngleAssumption
<1>2. Abs(e) >= Threshold /\ e # 0
  BY <1>1, SMT DEF SpeedControlStep, Abs
<1>3. CASE Abs(Gain(e)) > 90 * MinSpeed
  <2>1. p = Gain(e)
    BY <1>1, <1>2, <1>3, SMT DEF SpeedControlStep, Abs
  <2>2. Sgn(p) = Sgn(e)
    BY <1>2, <1>3, <2>1, GainSign
  <2>3. Sgn(e) * (e + k) \in (Threshold - Drift)..(180 + Drift)
    BY <1>1, <1>2, SMT DEF Abs, Sgn
  <2>4. Sgn(e) * f - Sgn(e) * (e + k) \in Turns
    BY <1>1, <1>2, SMT DEF Turns, Sgn
  <2> QED
    BY <2>2, <2>3, <2>4
<1>4. CASE ~(Abs(Gain(e)) > 90 * MinSpeed)
  <2>1. p = d * 90 * MinSpeed
    BY <1>1, <1>2, <1>4, SMT DEF SpeedControlStep, Abs
  <2>2. d \in {-1, 0, 1}
    BY SMT DEF Sgn
  <2>3. d # 0 /\ Sgn(p) = d
    BY <1>1, <2>1, <2>2, SMT DEF Sgn
  <2>4. d = Sgn(f) /\ f # 0
    BY <2>3, SMT DEF Sgn
  <2>5. Sgn(f) * f \in (Threshold - Drift)..(180 + Drift)
    BY <1>1, <1>2, <2>4, SMT DEF Abs, Sgn, Turns
  <2>6. Sgn(f) * f - Sgn(f) * f \in Turns
    BY SMT DEF Turns, Sgn
  <2> QED
    BY <2>3, <2>4, <2>5, <2>6
<1> QED
  BY <1>3, <1>4

-------------------------------------------------------------------------------
LEMMA ReadingStep ==
    ASSUME TypeOK, TypeOK', ReadingInv, [Next]_vars, AngleAssumption
    PROVE  ReadingInv'
<1> USE DEF ReadingInv
<1>1. ASSUME NEW v \in Targets, StartSpeedControl(v) \/ SetControlTarget(v)
      PROVE  ReadingInv'
  <2>1. /\ clean' => clean /\ target' = target
        /\ UNCHANGED <<wheel, pc, error, drifted>>
    BY <1>1 DEF StartSpeedControl, SetControlTarget, SetControlTargetImpl
  <2> QED
    BY <2>1, ErrorSame
<1>2. CASE Turn
  <2> SUFFICES ASSUME pc' = "direction", clean'
               PROVE  \E k \in -drifted'..drifted' : Error' - (error' + k) \in Turns
    OBVIOUS
  <2>1. /\ pc = "direction" /\ clean /\ error' = error
        /\ drifted' = drifted + 1
    BY <1>2 DEF Turn
  <2>2. PICK k \in -drifted..drifted : Error - (error + k) \in Turns
    BY <2>1
  <2>3. /\ drifted \in Int /\ 0 <= drifted /\ drifted' <= Drift /\ Drift < 90
        /\ error \in -180..180 /\ Error' \in -180..180 /\ Error \in -180..180
    <3>1. Drift \in Int /\ Drift < 90
      BY SMT DEF AngleAssumption
    <3>2. drifted \in 0..Drift /\ drifted' \in 0..Drift
      BY DEF TypeOK
    <3> QED
      BY <3>1, <3>2, ErrorType, ErrorTypeNext DEF TypeOK
  <2>4. Sgn(power) \in {-1, 1} /\ Error' - (Error - Sgn(power)) \in Turns
    BY <1>2, TurnShifts
  <2>5. k - Sgn(power) \in -drifted'..drifted'
    BY <2>1, <2>3, <2>4, SMT
  <2>6. Error' - (error + (k - Sgn(power))) \in Turns
    BY <2>1, <2>2, <2>3, <2>4, <2>5, SMT DEF Turns
  <2> QED
    BY <2>1, <2>5, <2>6
<1>3. CASE ReadError
  <2>1. error' = Error /\ Error' = Error /\ drifted' = drifted /\ drifted \in Nat
    BY <1>3, ErrorSame DEF ReadError, TypeOK
  <2>2. 0 \in -drifted'..drifted' /\ Error' - (error' + 0) \in Turns
    BY <2>1, ErrorType, SMT DEF Turns
  <2> QED
    BY <2>2
<1>4. CASE IsComplete \/ Stop \/ ReadDirection
  BY <1>4 DEF IsComplete, Stop, ReadDirection, SetSpeedForce
<1>5. CASE UNCHANGED vars
  BY <1>5, ErrorSame DEF vars
<1> QED
  BY <1>1, <1>2, <1>3, <1>4, <1>5 DEF Next, Execute

(* The new power turns the motor the way that is ahead.                    *)
LEMMA NewPowerAhead ==
    ASSUME TypeOK, ReadingInv, AngleAssumption, ReadDirection, clean, power' # 0
    PROVE  \E ahead \in (Threshold - Drift)..(180 + Drift) :
               Sgn(power') * Error - ahead \in Turns
<1> DEFINE d == GetMotorDirToTarget(GetAngle, target)
<1>1. PICK k \in -drifted..drifted : Error - (error + k) \in Turns
  BY DEF ReadingInv, ReadDirection
<1>2. k \in -Drift..Drift
  <2>1. drifted \in 0..Drift /\ Drift \in Int
    BY DEF TypeOK, AngleAssumption
  <2> QED
    BY <2>1, SMT
<1>3. d = IF Error = -180 THEN 0 ELSE Sgn(Error)
  <2>1. GetAngle \in Int /\ target \in Int
    BY ErrorType DEF TypeOK
  <2> QED
    BY <2>1, Direction DEF DirectionsAgreeAt, Error
<1>4. error \in -180..180 /\ Error \in -180..180
  BY ErrorType DEF TypeOK
<1>5. power' = SpeedControlStep(error, d)
  BY DEF ReadDirection, SetSpeedForce
<1> HIDE DEF d
<1> QED
  BY <1>1, <1>2, <1>3, <1>4, <1>5, PowerAhead

LEMMA AheadStep ==
    ASSUME TypeOK, TypeOK', ReadingInv, AheadInv, [Next]_vars, AngleAssumption
    PROVE  AheadInv'
<1> USE DEF AheadInv
<1>1. ASSUME NEW v \in Targets, StartSpeedControl(v) \/ SetControlTarget(v)
      PROVE  AheadInv'
  <2>1. /\ fresh' => fresh /\ target' = target
        /\ UNCHANGED <<wheel, power, turned>>
    BY <1>1 DEF StartSpeedControl, SetControlTarget, SetControlTargetImpl
  <2> QED
    BY <2>1, ErrorSame
<1>2. CASE Turn
  <2> DEFINE s == Sgn(power)
  <2> SUFFICES ASSUME fresh', power' # 0
               PROVE  \E ahead \in (Threshold - Drift - turned')..(180 + Drift - turned') :
                          SameAngle(Sgn(power') * Error', ahead)
    OBVIOUS
  <2>1. fresh /\ power # 0 /\ power' = power /\ turned' = turned + 1
    BY <1>2 DEF Turn
  <2>2. PICK ahead \in (Threshold - Drift - turned)..(180 + Drift - turned) :
           SameAngle(s * Error, ahead)
    BY <2>1
  <2>3. s \in {-1, 1} /\ Error' - (Error - s) \in Turns
    BY <1>2, TurnShifts
  <2> HIDE DEF s
  <2>4. /\ Threshold \in Int /\ Drift \in Int /\ turned \in Int
        /\ Error \in -180..180 /\ Error' \in -180..180
    BY TurnedType, ErrorType, ErrorTypeNext, SMT DEF AngleAssumption
  <2>5. ahead \in Int /\ ahead - 1 \in (Threshold - Drift - turned')..(180 + Drift - turned')
    BY <2>1, <2>4, SMT
  <2>6. SameAngle(s * Error', ahead - 1)
    BY <2>2, <2>3, <2>4, <2>5, AheadLess
  <2> QED
    BY <2>1, <2>5, <2>6 DEF s
<1>3. CASE ReadDirection
  <2> SUFFICES ASSUME fresh', power' # 0
               PROVE  \E ahead \in (Threshold - Drift - turned')..(180 + Drift - turned') :
                          SameAngle(Sgn(power') * Error', ahead)
    OBVIOUS
  <2>1. clean /\ turned' = 0 /\ Error' = Error
    BY <1>3, ErrorSame DEF ReadDirection, SetSpeedForce
  <2>2. Threshold \in Int /\ Drift \in Int
    BY DEF AngleAssumption
  <2>3. /\ Threshold - Drift - turned' = Threshold - Drift
        /\ 180 + Drift - turned' = 180 + Drift
    BY <2>1, <2>2, SMT
  <2>4. PICK ahead \in (Threshold - Drift)..(180 + Drift) :
           Sgn(power') * Error - ahead \in Turns
    BY <1>3, <2>1, NewPowerAhead
  <2>5. SameAngle(Sgn(power') * Error, ahead)
    BY <2>4, SMT DEF SameAngle, Turns
  <2> QED
    BY <2>1, <2>3, <2>4, <2>5
<1>4. CASE Stop
  BY <1>4 DEF Stop, SetSpeedForce
<1>5. CASE IsComplete \/ ReadError
  <2>1. UNCHANGED <<wheel, target, power, turned, fresh>>
    BY <1>5 DEF IsComplete, ReadError
  <2> QED
    BY <2>1, ErrorSame
<1>6. CASE UNCHANGED vars
  BY <1>6, ErrorSame DEF vars
<1> QED
  BY <1>1, <1>2, <1>3, <1>4, <1>5, <1>6 DEF Next, Execute

(* The inductive invariant: what the readings have to do with each other,  *)
(* and the power with the way there is ahead.                              *)
THEOREM Invariance == Spec => []IInv
<1>1. Init => ReadingInv /\ AheadInv
  BY DEF Init, ReadingInv, AheadInv
<1>2. TypeOK /\ TypeOK' /\ ReadingInv /\ AheadInv /\ [Next]_vars => ReadingInv' /\ AheadInv'
  BY ReadingStep, AheadStep, AngleAssumption
<1> QED
  BY <1>1, <1>2, TypeCorrect, PTL DEF Spec, IInv

(* What is ahead is the short way, or the wheel is half a turn away.       *)
LEMMA AheadIsShort ==
    ASSUME AngleAssumption, NEW s \in {-1, 1}, NEW f \in -180..180,
           NEW ahead \in (Threshold - Drift)..(180 + Drift), s * f - ahead \in Turns
    PROVE  s = Sgn(f) \/ Abs(f) >= 180 - Drift
<1>1. /\ Drift \in Int /\ 0 <= Drift /\ Threshold \in Int /\ Drift < Threshold
      /\ Threshold <= 90
  BY SMT DEF AngleAssumption
<1> QED
  BY <1>1, SMT DEF Turns, Sgn, Abs

(* Unless the target changed while it was computed, a new power turns the  *)
(* motor the short way round, although error and direction come from two   *)
(* readings (LinearAngleTarget.cpp:38, 41) of a wheel that moves.          *)
THEOREM TurnsShortWayAlways == Spec => TurnsShortWay
<1>1. ASSUME IInv, [Next]_vars, pc # "wait", pc' = "wait", clean, power' # 0
      PROVE  Sgn(power') = Sgn(Error) \/ Abs(Error) >= 180 - Drift
  <2>1. CASE ReadDirection
    <3>1. PICK ahead \in (Threshold - Drift)..(180 + Drift) :
             Sgn(power') * Error - ahead \in Turns
      BY <1>1, <2>1, NewPowerAhead, AngleAssumption DEF IInv
    <3>2. power' \in Int
      BY <1>1, TypeStep, AngleAssumption DEF IInv, TypeOK
    <3>3. Sgn(power') \in {-1, 1}
      BY <1>1, <3>2, SMT DEF Sgn
    <3>4. Error \in -180..180
      BY <1>1, ErrorType, AngleAssumption DEF IInv
    <3> QED
      BY <3>1, <3>3, <3>4, AheadIsShort, AngleAssumption
  <2>2. CASE ~ReadDirection
    BY <1>1, <2>2 DEF Next, Execute, StartSpeedControl, SetControlTarget, Turn, IsComplete,
                      Stop, SetSpeedForce, ReadError, vars
  <2> QED
    BY <2>1, <2>2
<1>2. IInv /\ [Next]_vars =>
         [ pc # "wait" /\ pc' = "wait" /\ clean /\ power' # 0 =>
               \/ Sgn(power') = Sgn(Error)
               \/ Abs(Error) >= 180 - Drift ]_vars
  BY <1>1
<1> QED
  BY <1>2, Invariance, PTL DEF Spec, TurnsShortWay

(* A power computed for the present target brings the motor nearer, except *)
(* half a turn away and beyond the target, and there it takes the motor no *)
(* further than it can turn it less the threshold, at which it was nonzero *)
(* (LinearAngleTarget.cpp:43).                                             *)
THEOREM NeverLosesGroundAlways == Spec => NeverLosesGround
<1>1. ASSUME IInv, [Next]_vars, fresh, Abs(Error') > Abs(Error), target' = target
      PROVE  \/ Abs(Error') <= MostTurn(full, power) + Drift - Threshold
             \/ Abs(Error) >= 180 - Drift
  <2>1. TypeOK /\ TypeOK' /\ Error \in -180..180 /\ Error' \in -180..180
    <3>1. TypeOK /\ TypeOK'
      BY <1>1, TypeStep, AngleAssumption DEF IInv
    <3> QED
      BY <3>1, ErrorType, ErrorTypeNext, AngleAssumption
  <2>2. Turn
    <3>1. Error' # Error
      <4>1. \A n \in Int : ~(Abs(n) > Abs(n))
        BY SMT DEF Abs
      <4> QED
        BY <1>1, <2>1, <4>1
    <3>2. wheel' # wheel
      BY <1>1, <3>1, ErrorSame
    <3> QED
      BY <1>1, <3>2 DEF Next, Execute, StartSpeedControl, SetControlTarget, IsComplete, Stop,
                        SetSpeedForce, ReadError, ReadDirection, vars
  <2>3. Sgn(power) \in {-1, 1} /\ Error' - (Error - Sgn(power)) \in Turns
    BY <2>1, <2>2, TurnShifts, AngleAssumption
  <2>4. PICK ahead \in (Threshold - Drift - turned)..(180 + Drift - turned) :
           SameAngle(Sgn(power) * Error, ahead)
    BY <1>1, <2>2 DEF IInv, AheadInv, Turn
  <2>5. /\ Threshold \in Int /\ Drift \in Nat /\ turned \in Nat
        /\ MostTurn(full, power) \in Nat /\ turned < MostTurn(full, power)
    BY <2>1, <2>2, TurnedType, AngleAssumption, SMT DEF AngleAssumption, Turn
  <2>6. /\ ahead \in Int /\ ahead <= 180 + Drift
        /\ 1 - ahead <= MostTurn(full, power) + Drift - Threshold
    BY <2>5, SMT
  <2>7. SameAngle(Sgn(power) * Error', ahead - 1)
    BY <2>1, <2>3, <2>4, <2>6, AheadLess
  <2>8. Abs(Error') <= 1 - ahead \/ Abs(Error) >= 180 - Drift
    BY <1>1, <2>1, <2>3, <2>4, <2>5, <2>6, <2>7, AheadLost
  <2>9. Abs(Error') \in Int
    BY <2>1, SMT DEF Abs
  <2> QED
    BY <2>5, <2>6, <2>8, <2>9, SMT
<1>2. IInv /\ [Next]_vars =>
         [ fresh /\ Abs(Error') > Abs(Error) /\ target' = target =>
               \/ Abs(Error') <= MostTurn(full, power) + Drift - Threshold
               \/ Abs(Error) >= 180 - Drift ]_vars
  BY <1>1
<1> QED
  BY <1>2, Invariance, PTL DEF Spec, NeverLosesGround

===============================================================================
