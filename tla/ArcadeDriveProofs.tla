--------------------------- MODULE ArcadeDriveProofs ---------------------------
(***************************************************************************)
(* From the stick to the wheels, for any values the axes may show and      *)
(* queues of any length: when nothing is left to do, the wheels run as the *)
(* stick says.                                                             *)
(*                                                                         *)
(* As long as another run of steerHandler is certain to begin, nothing is  *)
(* promised.  From then on no value is published any more, so what the run *)
(* in progress has read is what the stick shows.                           *)
(***************************************************************************)
EXTENDS ArcadeDrive, FiniteSetTheorems, TLAPS

(* Another run of steerHandler is certain to begin.                        *)
Coming == poller # "poll" \/ steers > 0

(* The power a wheel will have when its queue is empty.                    *)
Final(w) == IF queues[w] = <<>> THEN talon[w] ELSE queues[w][Len(queues[w])]

Right(w) == Final(w) = Meant(shown)[w]

MixedX == mix["x"] = Dead(shown["x"])
MixedY == mix["y"] = -Dead(shown["y"])

Above(axis) == Abs(shown[axis]) > Thresh

(* What the last run of steerHandler has got of the values, by its steps.  *)
LastRun ==
    /\ handler = "idle"  => Right("left") /\ Right("right")
    /\ handler = "useX"  => Above("x")
    /\ handler = "testY" => MixedX
    /\ handler = "useY"  => MixedX /\ Above("y")
    /\ handler = "left"  => MixedX /\ MixedY
    /\ handler = "right" => MixedX /\ MixedY /\ Right("left")

Settling == ~Coming => LastRun

(* A cycle in progress has a listener to call.                             *)
CallInv == poller # "poll" => calls > 0

IInv == TypeOK /\ CallInv /\ Settling

-------------------------------------------------------------------------------
(* Numbers and positions of the stick.                                     *)

LEMMA Sign ==
    ASSUME NEW v \in -10..10
    PROVE  /\ 1 * v \in -10..10 /\ 1 * v = v
           /\ (-1) * v \in -10..10 /\ (-1) * v = -v
           /\ v = 0 => -v = 0
  OBVIOUS

LEMMA PowerType ==
    ASSUME NEW m \in [Axes -> -10..10], NEW w
    PROVE  Power(w, m) \in -20..20
<1>1. m["x"] \in -10..10 /\ m["y"] \in -10..10
  BY DEF Axes
<1> QED
  BY <1>1 DEF Power

LEMMA PadType ==
    ASSUME NEW p \in Pads
    PROVE  /\ p \in [Axes -> -10..10]
           /\ p["x"] \in -10..10 /\ p["y"] \in -10..10
  BY DEF Pads, Axes

LEMMA RestType == Rest \in Pads /\ Rest["x"] = 0 /\ Rest["y"] = 0
  BY ValueAssumption DEF ValueAssumption, Rest, Axes

(* At most two axes differ, and one at least if the positions do.          *)
LEMMA ChangedAxes ==
    ASSUME NEW p \in Pads, NEW q \in Pads, p # q
    PROVE  Cardinality({a \in Axes : p[a] # q[a]}) \in 1..2
<1> DEFINE S == {a \in Axes : p[a] # q[a]}
<1>1. \E a \in Axes : p[a] # q[a]
  BY DEF Pads
<1>2. S # {} /\ S \subseteq {"x"} \cup {"y"}
  BY <1>1 DEF Axes
<1>3. IsFiniteSet({"x"}) /\ Cardinality({"x"}) = 1
  BY FS_Singleton
<1>4. IsFiniteSet({"x"} \cup {"y"}) /\ Cardinality({"x"} \cup {"y"}) = 2
  BY <1>3, FS_AddElement
<1>5. IsFiniteSet(S) /\ Cardinality(S) <= 2
  BY <1>2, <1>4, FS_Subset
<1>6. Cardinality(S) \in Nat /\ Cardinality(S) # 0
  BY <1>2, <1>5, FS_CardinalityType, FS_EmptySet
<1> QED
  BY <1>5, <1>6

(* Taking the first power of a queue.                                      *)
LEMMA HeadTail ==
    ASSUME NEW S, NEW q \in Seq(S), q # <<>>
    PROVE  /\ Head(q) \in S /\ Head(q) = q[1]
           /\ Tail(q) \in Seq(S)
           /\ Len(q) \in Nat /\ Len(q) > 0
           /\ Len(Tail(q)) = Len(q) - 1
           /\ \A i \in 1..(Len(q) - 1) : Tail(q)[i] = q[i + 1]
  OBVIOUS

-------------------------------------------------------------------------------
LEMMA TypeStep ==
    ASSUME TypeOK, CallInv, [Next]_vars
    PROVE  TypeOK' /\ CallInv'
<1> USE BoundAssumption DEF TypeOK, CallInv, BoundAssumption
<1>1. CASE Move
  BY <1>1 DEF Move
<1>2. CASE Poll
  <2>1. calls' \in 1..2
    BY <1>2, ChangedAxes DEF Poll
  <2> QED
    BY <1>2, <2>1 DEF Poll
<1>3. CASE UpdateX \/ UpdateY
  <2>1. PICK axis \in Axes, from \in {"updateX", "updateY"}, to \in {"updateY", "steer"} :
           Publish(axis, from, to)
    BY <1>3 DEF UpdateX, UpdateY, Axes
  <2>2. shown' \in Pads
    BY <2>1 DEF Publish, Pads
  <2> QED
    BY <2>1, <2>2 DEF Publish
<1>4. CASE Steer
  <2>1. calls > 0 /\ calls' \in 0..2 /\ steers' \in 0..MaxQueue
    BY <1>4 DEF Steer, Called
  <2>2. polled' \in Pads /\ poller' \in {"poll", "steer"} /\ (poller' # "poll" => calls' > 0)
    BY <1>4, <2>1, RestType DEF Steer, Called
  <2> QED
    BY <1>4, <2>1, <2>2 DEF Steer, Called
<1>5. CASE Begin
  <2>1. steers' \in 0..MaxQueue
    BY <1>5 DEF Begin
  <2>2. mix' \in [Axes -> -10..10] /\ handler' \in {"useX", "testY"}
    BY <1>5 DEF Begin, Test, Axes
  <2> QED
    BY <1>5, <2>1, <2>2 DEF Begin, Test
<1>6. CASE TestY
  <2>1. mix' \in [Axes -> -10..10] /\ handler' \in {"useY", "left"}
    BY <1>6 DEF TestY, Test, Axes
  <2> QED
    BY <1>6, <2>1 DEF TestY, Test
<1>7. CASE UseX
  <2>1. mix' \in [Axes -> -10..10]
    <3>1. 1 * shown["x"] \in -10..10
      <4>1. shown["x"] \in -10..10
        BY PadType
      <4> QED
        BY <4>1, Sign
    <3> QED
      BY <1>7, <3>1 DEF UseX, Use
  <2> QED
    BY <1>7, <2>1 DEF UseX, Use
<1>8. CASE UseY
  <2>1. mix' \in [Axes -> -10..10]
    <3>1. (-1) * shown["y"] \in -10..10
      <4>1. shown["y"] \in -10..10
        BY PadType
      <4> QED
        BY <4>1, Sign
    <3> QED
      BY <1>8, <3>1 DEF UseY, Use
  <2> QED
    BY <1>8, <2>1 DEF UseY, Use
<1>9. ASSUME NEW w \in Wheels, SetSpeed(w)
      PROVE  queues' \in [Wheels -> Seq(-20..20)] /\ \A v \in Wheels : Len(queues'[v]) <= MaxQueue
  <2>1. Power(w, mix) \in -20..20
    BY PowerType
  <2>2. queues[w] \in Seq(-20..20)
    OBVIOUS
  <2>3. /\ Append(queues[w], Power(w, mix)) \in Seq(-20..20)
        /\ Len(Append(queues[w], Power(w, mix))) <= MaxQueue
    BY <1>9, <2>1, <2>2 DEF SetSpeed
  <2>4. queues' = [queues EXCEPT ![w] = Append(queues[w], Power(w, mix))]
    BY <1>9 DEF SetSpeed
  <2> QED
    BY <2>3, <2>4
<1>10. CASE SetLeft
  BY <1>10, <1>9 DEF SetLeft, SetSpeed, Wheels
<1>11. CASE SetRight
  <2>1. mix' \in [Axes -> -10..10]
    BY <1>11, RestType, PadType DEF SetRight
  <2> QED
    BY <1>11, <1>9, <2>1 DEF SetRight, SetSpeed, Wheels
<1>12. ASSUME NEW w \in Wheels, Apply(w)
       PROVE  TypeOK' /\ CallInv'
  <2>1. queues[w] \in Seq(-20..20) /\ queues[w] # <<>> /\ Len(queues[w]) <= MaxQueue
    BY <1>12 DEF Apply
  <2>2. /\ Head(queues[w]) \in -20..20
        /\ Tail(queues[w]) \in Seq(-20..20)
    BY <2>1, HeadTail
  <2>3. Len(Tail(queues[w])) = Len(queues[w]) - 1 /\ Len(queues[w]) \in Nat
    BY <2>1, HeadTail
  <2>4. /\ talon' = [talon EXCEPT ![w] = Head(queues[w])]
        /\ queues' = [queues EXCEPT ![w] = Tail(queues[w])]
    BY <1>12 DEF Apply
  <2>5. talon' \in [Wheels -> -20..20]
    BY <2>2, <2>4
  <2>6. queues' \in [Wheels -> Seq(-20..20)] /\ \A v \in Wheels : Len(queues'[v]) <= MaxQueue
    BY <2>1, <2>2, <2>3, <2>4
  <2> QED
    BY <1>12, <2>5, <2>6 DEF Apply
<1>13. CASE UNCHANGED vars
  BY <1>13 DEF vars
<1> QED
  BY <1>1, <1>2, <1>3, <1>4, <1>5, <1>6, <1>7, <1>8, <1>10, <1>11, <1>12, <1>13
     DEF Next, Polling, Driving

-------------------------------------------------------------------------------
(* The values of an axis as steerHandler takes them.                       *)
LEMMA Taken ==
    ASSUME TypeOK, NEW axis \in Axes
    PROVE  /\ Above(axis) => Dead(shown[axis]) = shown[axis]
           /\ ~Above(axis) => Dead(shown[axis]) = 0 /\ -Dead(shown[axis]) = 0
           /\ shown[axis] \in Int
<1>1. shown[axis] \in -10..10
  BY DEF TypeOK, Pads
<1>2. ~Above(axis) => Dead(shown[axis]) = 0
  BY DEF Above, Dead
<1>3. Dead(shown[axis]) = 0 => -Dead(shown[axis]) = 0
  BY <1>2, Sign
<1> QED
  BY <1>1, <1>2, <1>3 DEF Above, Dead

(* What it then computes is what the driver means.                         *)
LEMMA MixedIsMeant ==
    ASSUME TypeOK, MixedX, MixedY, NEW w \in Wheels
    PROVE  Power(w, mix) = Meant(shown)[w]
  BY DEF MixedX, MixedY, Meant, Power

(* Putting a power on a queue, and taking one.                             *)
LEMMA FinalPut ==
    ASSUME TypeOK, NEW w \in Wheels, SetSpeed(w)
    PROVE  /\ Final(w)' = Power(w, mix)
           /\ \A v \in Wheels \ {w} : Final(v)' = Final(v)
<1>1. queues[w] \in Seq(-20..20) /\ DOMAIN queues = Wheels
  BY DEF TypeOK
<1>2. /\ queues' = [queues EXCEPT ![w] = Append(queues[w], Power(w, mix))]
      /\ talon' = talon
  BY DEF SetSpeed
<1>3. queues'[w] = Append(queues[w], Power(w, mix)) /\ queues'[w] # <<>>
  BY <1>1, <1>2, PowerType DEF TypeOK
<1>4. queues'[w][Len(queues'[w])] = Power(w, mix)
  BY <1>1, <1>3, PowerType DEF TypeOK
<1>5. \A v \in Wheels \ {w} : queues'[v] = queues[v]
  BY <1>1, <1>2
<1> QED
  BY <1>2, <1>3, <1>4, <1>5 DEF Final

LEMMA FinalTaken ==
    ASSUME TypeOK, NEW w \in Wheels, Apply(w)
    PROVE  \A v \in Wheels : Final(v)' = Final(v)
<1>1. /\ queues[w] \in Seq(-20..20) /\ queues[w] # <<>>
      /\ DOMAIN queues = Wheels /\ DOMAIN talon = Wheels
  BY DEF TypeOK, Apply
<1>2. queues'[w] = Tail(queues[w]) /\ talon'[w] = Head(queues[w])
  BY <1>1 DEF Apply
<1>3. \A v \in Wheels \ {w} : queues'[v] = queues[v] /\ talon'[v] = talon[v]
  BY <1>1 DEF Apply
<1>4. Len(queues[w]) \in Nat /\ Len(queues[w]) > 0
  BY <1>1, HeadTail
<1>5. CASE Len(queues[w]) = 1
  <2>1. queues'[w] = <<>> /\ talon'[w] = queues[w][Len(queues[w])]
    BY <1>1, <1>2, <1>5
  <2> QED
    BY <1>1, <1>3, <2>1 DEF Final
<1>6. CASE Len(queues[w]) > 1
  <2>1. Len(queues[w]) \in Nat /\ Len(queues[w]) > 1
    BY <1>4, <1>6
  <2>2. Len(Tail(queues[w])) = Len(queues[w]) - 1
    BY <1>1, HeadTail
  <2>3. Tail(queues[w])[Len(queues[w]) - 1] = queues[w][Len(queues[w])]
    BY <1>1, <2>1, HeadTail
  <2>4. queues'[w] # <<>> /\ queues'[w][Len(queues'[w])] = queues[w][Len(queues[w])]
    BY <1>2, <2>1, <2>2, <2>3
  <2> QED
    BY <1>1, <1>3, <2>4 DEF Final
<1>7. \A n \in Nat : n > 0 => n = 1 \/ n > 1
  OBVIOUS
<1> QED
  BY <1>4, <1>5, <1>6, <1>7

(* A run of steerHandler that nothing follows.                             *)
LEMMA RunStep ==
    ASSUME TypeOK, LastRun, UNCHANGED shown,
           UseX \/ TestY \/ UseY \/ SetLeft \/ SetRight
    PROVE  LastRun'
<1> USE DEF LastRun, Axes
<1>1. mix \in [Axes -> -10..10]
  BY DEF TypeOK
<1>2. CASE UseX
  <2>1. handler' = "testY" /\ mix'["x"] = 1 * shown["x"] /\ Above("x")
    BY <1>1, <1>2 DEF UseX, Use
  <2> QED
    BY <2>1, Taken DEF MixedX
<1>3. CASE TestY
  <2>1. MixedX'
    BY <1>1, <1>3 DEF TestY, Test, MixedX
  <2>2. CASE Above("y")
    BY <1>3, <2>1, <2>2 DEF TestY, Test, Above
  <2>3. CASE ~Above("y")
    <3>1. handler' = "left" /\ mix'["y"] = 0
      BY <1>1, <1>3, <2>3 DEF TestY, Test, Above
    <3> QED
      BY <2>1, <2>3, <3>1, Taken DEF MixedY
  <2> QED
    BY <2>2, <2>3
<1>4. CASE UseY
  <2>1. handler' = "left" /\ mix'["y"] = (-1) * shown["y"] /\ mix'["x"] = mix["x"] /\ Above("y")
    BY <1>1, <1>4 DEF UseY, Use
  <2>2. (-1) * shown["y"] = -shown["y"]
    BY Taken
  <2> QED
    BY <1>4, <2>1, <2>2, Taken DEF MixedX, MixedY, UseY, Use
<1>5. CASE SetLeft
  <2>1. handler = "left" /\ handler' = "right" /\ mix' = mix /\ SetSpeed("left")
    BY <1>5 DEF SetLeft, SetSpeed
  <2>2. Right("left")'
    BY <2>1, FinalPut, MixedIsMeant DEF Right, Wheels
  <2> QED
    BY <2>1, <2>2 DEF MixedX, MixedY
<1>6. CASE SetRight
  <2>1. handler = "right" /\ handler' = "idle" /\ SetSpeed("right")
    BY <1>6 DEF SetRight, SetSpeed
  <2>2. Right("left")' /\ Right("right")'
    BY <2>1, FinalPut, MixedIsMeant DEF Right, Wheels
  <2> QED
    BY <2>1, <2>2
<1> QED
  BY <1>2, <1>3, <1>4, <1>5, <1>6

LEMMA SettlingStep ==
    ASSUME TypeOK, CallInv, Settling, [Next]_vars
    PROVE  Settling'
<1> SUFFICES ASSUME ~Coming'
             PROVE  LastRun'
  BY DEF Settling
<1> USE DEF Settling
<1>1. CASE Move \/ UNCHANGED vars
  <2>1. UNCHANGED <<shown, poller, steers, handler, mix, queues, talon>>
    BY <1>1 DEF Move, vars
  <2> QED
    BY <2>1 DEF Coming, LastRun, Right, Final, MixedX, MixedY, Above
<1>2. CASE Poll \/ UpdateX \/ UpdateY
  BY <1>2 DEF Coming, Poll, UpdateX, UpdateY, Publish
<1>3. CASE Steer
  BY <1>3 DEF Coming, Steer, Called, TypeOK
<1>4. CASE Begin
  <2>1. handler' \in {"useX", "testY"} /\ UNCHANGED shown
    BY <1>4 DEF Begin, Test
  <2>2. CASE Above("x")
    <3>1. handler' = "useX"
      BY <1>4, <2>2 DEF Begin, Test, Above
    <3> QED
      BY <2>1, <2>2, <3>1 DEF LastRun, Above
  <2>3. CASE ~Above("x")
    <3>1. handler' = "testY" /\ mix'["x"] = 0
      BY <1>4, <2>3 DEF Begin, Test, Above, TypeOK, Axes
    <3>2. Dead(shown["x"]) = 0
      BY <2>3, Taken DEF Axes
    <3> QED
      BY <2>1, <3>1, <3>2 DEF LastRun, MixedX
  <2> QED
    BY <2>2, <2>3
<1>5. CASE UseX \/ TestY \/ UseY \/ SetLeft \/ SetRight
  <2>1. UNCHANGED <<shown, poller, steers>>
    BY <1>5 DEF UseX, TestY, UseY, SetLeft, SetRight, Use, Test, SetSpeed
  <2> QED
    BY <1>5, <2>1, RunStep DEF Coming
<1>6. ASSUME NEW w \in Wheels, Apply(w)
      PROVE  LastRun'
  <2>1. UNCHANGED <<shown, poller, steers, handler, mix>>
    BY <1>6 DEF Apply
  <2>2. Final("left")' = Final("left") /\ Final("right")' = Final("right")
    BY <1>6, FinalTaken DEF Wheels
  <2> QED
    BY <2>1, <2>2 DEF Coming, LastRun, Right, MixedX, MixedY, Above
<1> QED
  BY <1>1, <1>2, <1>3, <1>4, <1>5, <1>6 DEF Next, Polling, Driving

-------------------------------------------------------------------------------
LEMMA Initially ==
    ASSUME Init
    PROVE  IInv
<1> USE DEF Init
<1>1. /\ pad \in Pads /\ shown \in Pads /\ polled \in Pads
      /\ mix \in [Axes -> -10..10]
  BY RestType, PadType
<1>2. /\ queues \in [Wheels -> Seq(-20..20)]
      /\ talon \in [Wheels -> -20..20]
      /\ \A w \in Wheels : queues[w] = <<>> /\ Len(queues[w]) = 0 /\ talon[w] = 0
  OBVIOUS
<1>3. TypeOK /\ CallInv
  BY <1>1, <1>2, BoundAssumption DEF TypeOK, CallInv, BoundAssumption
<1>4. \A w \in Wheels : Right(w)
  <2>1. Dead(shown["x"]) = 0 /\ -Dead(shown["y"]) = 0
    <3>1. Dead(0) = 0
      BY Sign DEF Dead, Abs
    <3>2. -Dead(0) = 0
      BY <3>1, Sign
    <3> QED
      BY <3>1, <3>2, RestType
  <2>2. \A w \in Wheels : Meant(shown)[w] = 0
    BY <2>1 DEF Meant, Power
  <2> QED
    BY <1>2, <2>2 DEF Right, Final
<1>5. Settling
  BY <1>4 DEF Settling, LastRun, Wheels
<1> QED
  BY <1>3, <1>5 DEF IInv

(* The inductive invariant, over all steps between the stick and the       *)
(* Talons.                                                                 *)
THEOREM Invariance == Spec => []IInv
<1>1. Init => IInv
  BY Initially
<1>2. IInv /\ [Next]_vars => IInv'
  BY TypeStep, SettlingStep DEF IInv
<1> QED
  BY <1>1, <1>2, PTL DEF Spec

(* Every variable keeps its type: no power leaves -2..2, although x1 and   *)
(* y1 come from different readings, and the calls of a cycle are counted   *)
(* down to 0.                                                              *)
THEOREM TypeCorrect == Spec => []TypeOK
<1>1. IInv => TypeOK
  BY DEF IInv
<1> QED
  BY <1>1, Invariance, PTL

(* When nothing is left to do the wheels run as the stick says: however    *)
(* steerHandler and the polling overlap, no change is lost in the three    *)
(* queues and no old one is applied last.                                  *)
THEOREM WheelsFollowStickAlways == Spec => []WheelsFollowStick
<1>1. ASSUME IInv, Idle
      PROVE  talon = Meant(pad)
  <2>1. \A w \in Wheels : Right(w)
    BY <1>1 DEF IInv, Settling, LastRun, Coming, Idle, Wheels
  <2>2. \A w \in Wheels : talon[w] = Meant(pad)[w]
    BY <1>1, <2>1 DEF Right, Final, Idle
  <2>3. talon \in [Wheels -> -20..20]
    BY <1>1 DEF IInv, TypeOK
  <2> QED
    BY <2>2, <2>3 DEF Meant
<1>2. IInv => WheelsFollowStick
  BY <1>1 DEF WheelsFollowStick
<1> QED
  BY <1>2, Invariance, PTL

===============================================================================
