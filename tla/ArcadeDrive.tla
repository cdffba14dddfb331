------------------------------ MODULE ArcadeDrive ------------------------------
(***************************************************************************)
(* src/src/RobotMovement/ArcadeDrive.cpp between the two components it     *)
(* joins.  The polling thread of the ListenerManager publishes what the    *)
(* joystick shows and calls steer(), which enqueues steerHandler() on the  *)
(* CmdProcessor of the drive; steerHandler() looks at the published values *)
(* again, up to twice each, and gives powers to the MotorLinks of the left *)
(* and the right wheel, each with a CmdProcessor of its own.               *)
(*                                                                         *)
(* ListenerManager.tla and MotorLink.tla have the details of the two; here *)
(* steer() is registered for both axes (Global.cpp:109-110), a CmdProcessor*)
(* is its queue, and nobody else uses the two motors.  Values and powers   *)
(* are in tenths.                                                          *)
(***************************************************************************)
EXTENDS Integers, Sequences, FiniteSets

CONSTANTS
    Values,     \* what each axis may show
    MaxQueue    \* bound: commands queued at a time, in each queue

Thresh == 2

Axes   == {"x", "y"}
Wheels == {"left", "right"}
Pads   == {p \in [Axes -> -10..10] : \A a \in Axes : p[a] \in Values[a]}
Rest   == [a \in Axes |-> 0]

ASSUME ValueAssumption == Values \in [Axes -> SUBSET (-10..10)] /\ Rest \in Pads

ASSUME BoundAssumption == MaxQueue \in Nat \ {0}

VARIABLES
    pad,        \* the joystick
    shown,      \* _joystickValues of the ListenerManager
    polled,     \* newValues of its thread
    poller,     \* where that thread is
    calls,      \* listeners it has yet to call in this cycle
    steers,     \* number of steerHandler commands queued
    handler,    \* where the thread of the drive is in steerHandler
    mix,        \* its locals x1 and y1
    queues,     \* powers queued per wheel
    talon       \* power per wheel

vars == <<pad, shown, polled, poller, calls, steers, handler, mix, queues, talon>>

Init ==
    /\ pad = Rest
    /\ shown = Rest
    /\ polled = Rest
    /\ poller = "poll"
    /\ calls = 0
    /\ steers = 0
    /\ handler = "idle"
    /\ mix = Rest
    /\ queues = [w \in Wheels |-> <<>>]
    /\ talon = [w \in Wheels |-> 0]

-------------------------------------------------------------------------------
(* The driver moves the stick.                                             *)
Move ==
    /\ pad' \in Pads
    /\ UNCHANGED <<shown, polled, poller, calls, steers, handler, mix, queues, talon>>

(* A polling cycle that finds a change ...                                 *)
Poll ==
    /\ poller = "poll"
    /\ pad # shown
    /\ polled' = pad
    /\ poller' = "updateX"
    /\ calls' = Cardinality({a \in Axes : pad[a] # shown[a]})
    /\ UNCHANGED <<pad, shown, steers, handler, mix, queues, talon>>

Publish(axis, from, to) ==
    /\ poller = from
    /\ shown' = [shown EXCEPT ![axis] = polled[axis]]
    /\ poller' = to
    /\ UNCHANGED <<pad, polled, calls, steers, handler, mix, queues, talon>>

UpdateX == Publish("x", "updateX", "updateY")

(* ... publishes both values ...                                           *)
UpdateY == Publish("y", "updateY", "steer")

Called(n) ==
    /\ poller = "steer"
    /\ steers + n <= MaxQueue
    /\ steers' = steers + n
    /\ calls' = calls - 1
    /\ IF calls = 1 THEN poller' = "poll" /\ polled' = Rest
                    ELSE UNCHANGED <<poller, polled>>
    /\ UNCHANGED <<pad, shown, handler, mix, queues, talon>>

Steer_SkippedWhenBusy == Called(IF handler = "idle" THEN 1 ELSE 0)

(* ... and then calls steer(): there is a listener for each axis, and each *)
(* that changed is called.                                                 *)
Steer == Called(1)

-------------------------------------------------------------------------------
Abs(v) == IF v < 0 THEN -v ELSE v

(* steerHandler: is the value of an axis above the threshold?  If not, it  *)
(* counts as 0.                                                            *)
Test(axis, from, use, next) ==
    /\ handler = from
    /\ IF Abs(shown[axis]) > Thresh
       THEN handler' = use /\ UNCHANGED mix
       ELSE handler' = next /\ mix' = [mix EXCEPT ![axis] = 0]
    /\ UNCHANGED <<pad, shown, polled, poller, calls, queues, talon>>

(* If it is, the value is read again, and the one of y negated.            *)
Use(axis, from, next, sign) ==
    /\ handler = from
    /\ mix' = [mix EXCEPT ![axis] = sign * shown[axis]]
    /\ handler' = next
    /\ UNCHANGED <<pad, shown, polled, poller, calls, steers, queues, talon>>

(* The thread of the drive takes the command.                              *)
Begin ==
    /\ steers > 0
    /\ steers' = steers - 1
    /\ Test("x", "idle", "useX", "testY")

UseX == Use("x", "useX", "testY", 1)

TestY == Test("y", "testY", "useY", "left") /\ UNCHANGED steers

UseY == Use("y", "useY", "left", -1)

(* What _spdL and _spdR become.                                            *)
Power(wheel, m) == IF wheel = "left" THEN m["x"] - m["y"] ELSE m["x"] + m["y"]

(* MotorLink::setSpeed of a motor without a speed controller: Enqueue.     *)
SetSpeed(wheel) ==
    /\ handler = wheel
    /\ Len(queues[wheel]) < MaxQueue
    /\ queues' = [queues EXCEPT ![wheel] = Append(@, Power(wheel, mix))]
    /\ UNCHANGED <<pad, shown, polled, poller, calls, steers, talon>>

SetLeft == SetSpeed("left") /\ handler' = "right" /\ UNCHANGED mix

SetRight_SkippedWhenBusy ==
    /\ handler = "right"
    /\ handler' = "idle"
    /\ mix' = Rest
    /\ queues' = IF queues["right"] # <<>> THEN queues
                 ELSE [queues EXCEPT !["right"] = <<Power("right", mix)>>]
    /\ UNCHANGED <<pad, shown, polled, poller, calls, steers, talon>>

SetRight == SetSpeed("right") /\ handler' = "idle" /\ mix' = Rest

(* The thread of a MotorLink: setSpeedImpl.                                *)
Apply(wheel) ==
    /\ queues[wheel] # <<>>
    /\ talon' = [talon EXCEPT ![wheel] = Head(queues[wheel])]
    /\ queues' = [queues EXCEPT ![wheel] = Tail(@)]
    /\ UNCHANGED <<pad, shown, polled, poller, calls, steers, handler, mix>>

Polling == Poll \/ UpdateX \/ UpdateY \/ Steer
Driving == Begin \/ UseX \/ TestY \/ UseY \/ SetLeft \/ SetRight

Next == Move \/ Polling \/ Driving \/ \E w \in Wheels : Apply(w)

(* Each thread goes on.  The driver moves the stick at will.               *)
Fairness == /\ WF_vars(Polling)
            /\ WF_vars(Driving)
            /\ \A w \in Wheels : WF_vars(Apply(w))

Spec == Init /\ [][Next]_vars /\ Fairness

-------------------------------------------------------------------------------
TypeOK ==
    /\ pad \in Pads
    /\ shown \in Pads
    /\ polled \in Pads
    /\ poller \in {"poll", "updateX", "updateY", "steer"}
    /\ calls \in 0..2
    /\ steers \in 0..MaxQueue
    /\ handler \in {"idle", "useX", "testY", "useY", "left", "right"}
    /\ mix \in [Axes -> -10..10]
    /\ queues \in [Wheels -> Seq(-20..20)]
    /\ \A w \in Wheels : Len(queues[w]) <= MaxQueue
    /\ talon \in [Wheels -> -20..20]

(* What the driver means by a position of the stick.                       *)
Dead(v)  == IF Abs(v) > Thresh THEN v ELSE 0
Meant(p) == [w \in Wheels |-> Power(w, [x |-> Dead(p["x"]), y |-> -Dead(p["y"])])]

Idle ==
    /\ poller = "poll"
    /\ pad = shown
    /\ steers = 0
    /\ handler = "idle"
    /\ \A w \in Wheels : queues[w] = <<>>

(* When nothing is left to do the wheels run as the stick says: no change  *)
(* of the stick is lost on the way through the three queues, and no old    *)
(* one is applied after a newer one, although steerHandler() does not take *)
(* the values it was called for but whatever is published when it looks.   *)
WheelsFollowStick == Idle => talon = Meant(pad)

(* Once the driver holds the stick still the wheels come to run, and go on *)
(* running, as it says; in particular they stop when it is released.       *)
SettlesOnStick ==
    <>[][UNCHANGED pad]_vars
        => <>[](\A w \in Wheels : talon[w] = Meant(pad)[w])

===============================================================================
