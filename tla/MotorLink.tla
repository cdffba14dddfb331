------------------------------- MODULE MotorLink -------------------------------
(***************************************************************************)
(* A motor and its speed controller: src/src/HardwareLink/Motor/MotorLink  *)
(* and MotorControl.  MotorLink executes most calls on the thread of its   *)
(* CmdProcessor; setSpeed also looks at and changes _spdControlEnabled and *)
(* the controller on the thread of the caller.  The controller is called   *)
(* back by a timer, and re-arms the timer at the end of each callback.     *)
(*                                                                         *)
(* The `std::unique_lock<std::mutex>(_mutex);` of MotorControl.cpp lock    *)
(* nothing, so its methods interleave freely.  Of the timer, whose class   *)
(* is chosen by a header outside this repository, only what CmdTimer.h     *)
(* says is assumed: Start arms it, Cancel disarms it, and an armed timer   *)
(* calls back on a thread of its own.  Left out: setEncoder and            *)
(* setSpeedController, which no code calls, and the target of the          *)
(* controller, which decides what power it asks for and nothing else here. *)
(***************************************************************************)
EXTENDS Integers, Sequences

CONSTANTS
    Callers,        \* threads that call MotorLink
    Speeds,         \* powers that callers ask for
    ControlSpeeds,  \* powers that speedControlStep returns
    Scalars,        \* values for setSpeedScalar; 1 is the initial one
    Ticks,          \* timer threads: one (Win32 window) or more (POSIX)
    Periodic,       \* the timer stays armed after it fired (Win32)
    MaxQueue,       \* bound: commands queued at a time
    MaxStarts       \* bound: calls of startSpeedControl

ASSUME MotorAssumption ==
    /\ Speeds \subseteq Int
    /\ ControlSpeeds \subseteq Int
    /\ Scalars \subseteq Int
    /\ 1 \in Scalars
    /\ Periodic \in BOOLEAN
    /\ MaxQueue \in Nat
    /\ MaxStarts \in Nat

VARIABLES
    queue,      \* commands in the CmdProcessor of the MotorLink
    worker,     \* its thread: idle, or the step of a command it is about to do
    talon,      \* the power the Talon was last given
    enabled,    \* _spdControlEnabled
    reversed,   \* _motorReversed
    scalar,     \* _speedScalar
    attached,   \* _controlledMotor of the controller is set
    armed,      \* _speedSetScheduler is armed
    tick,       \* per timer thread: where it is in execute()
    call,       \* per caller: the rest of setSpeed or setControlTarget
    starts,     \* number of startSpeedControl calls
    crashed,    \* a null _controlledMotor was dereferenced (never: NullSafe)
    wanted,     \* history: the last power put on the queue (0 for a stop)
    stopped     \* history: cancel() was called after the last start()

vars == <<queue, worker, talon, enabled, reversed, scalar, attached,
          armed, tick, call, starts, crashed, wanted, stopped>>

motor      == <<talon, reversed, scalar>>
controller == <<attached, armed, stopped>>

Idle == [at |-> "idle", arg |-> 0]

Powers   == Speeds \cup ControlSpeeds \cup {0}
Commands == [op : {"speed"}, arg : Powers]
              \cup [op : {"scalar"}, arg : Scalars]
              \cup [op : {"start", "stop", "reverse"}, arg : {0}]
Calls    == {Idle} \cup [at : {"cancel", "clear", "put"}, arg : Speeds]

Init ==
    /\ queue = <<>>
    /\ worker = "idle"
    /\ talon = 0
    /\ enabled = FALSE
    /\ reversed = FALSE
    /\ scalar = 1
    /\ attached = FALSE
    /\ armed = FALSE
    /\ tick = [t \in Ticks |-> "none"]
    /\ call = [c \in Callers |-> Idle]
    /\ starts = 0
    /\ crashed = FALSE
    /\ wanted = 0
    /\ stopped = TRUE

-------------------------------------------------------------------------------
(* _cmdProcessor.Enqueue.                                                  *)
Put_InFront(op, arg) ==
    /\ Len(queue) < MaxQueue
    /\ queue' = <<[op |-> op, arg |-> arg]>> \o queue
    /\ wanted' = IF op \in {"speed", "stop"} THEN arg ELSE wanted

Put(op, arg) ==
    /\ Len(queue) < MaxQueue
    /\ queue' = Append(queue, [op |-> op, arg |-> arg])
    /\ wanted' = IF op \in {"speed", "stop"} THEN arg ELSE wanted

(* setSpeedForce, setSpeedScalar, reverseMotor, stopSpeedControl.          *)
JustEnqueue(c) ==
    /\ call[c] = Idle
    /\ \/ \E p \in Speeds : Put("speed", p)
       \/ \E s \in Scalars : Put("scalar", s)
       \/ Put("reverse", 0)
       \/ Put("stop", 0)
    /\ UNCHANGED <<worker, motor, enabled, controller, tick, call, starts,
                   crashed>>

StartSpeedControl(c) ==
    /\ call[c] = Idle
    /\ starts < MaxStarts
    /\ starts' = starts + 1
    /\ Put("start", 0)
    /\ UNCHANGED <<worker, motor, enabled, controller, tick, call,
                   crashed>>

(* setSpeed: if _spdControlEnabled ...                                     *)
SetSpeed(c) ==
    /\ call[c] = Idle
    /\ \E p \in Speeds :
          call' = [call EXCEPT ![c] = [at |-> IF enabled THEN "cancel" ELSE "put",
                                       arg |-> p]]
    /\ UNCHANGED <<queue, worker, motor, enabled, controller, tick,
                   starts, crashed, wanted>>

(* ... cancel the controller, ...                                          *)
SetSpeedCancels(c) ==
    /\ call[c].at = "cancel"
    /\ armed' = FALSE
    /\ stopped' = TRUE
    /\ call' = [call EXCEPT ![c].at = "clear"]
    /\ UNCHANGED <<queue, worker, motor, enabled, attached, tick,
                   starts, crashed, wanted>>

(* ... clear the flag, ...                                                 *)
SetSpeedClears(c) ==
    /\ call[c].at = "clear"
    /\ enabled' = FALSE
    /\ call' = [call EXCEPT ![c].at = "put"]
    /\ UNCHANGED <<queue, worker, motor, controller, tick, starts,
                   crashed, wanted>>

(* ... and in any case enqueue setSpeedImpl.                               *)
SetSpeedEnqueues(c) ==
    /\ call[c].at = "put"
    /\ Put("speed", call[c].arg)
    /\ call' = [call EXCEPT ![c] = Idle]
    /\ UNCHANGED <<worker, motor, enabled, controller, tick, starts,
                   crashed>>

-------------------------------------------------------------------------------
(* The thread of the CmdProcessor takes a command.                         *)
Take(op) ==
    /\ worker = "idle"
    /\ queue # <<>>
    /\ Head(queue).op = op
    /\ queue' = Tail(queue)

SetSpeedImpl_Yields ==
    /\ Take("speed")
    /\ talon' = IF enabled THEN talon
                ELSE Head(queue).arg * scalar * (IF reversed THEN -1 ELSE 1)
    /\ UNCHANGED <<worker, enabled, reversed, scalar, controller, tick,
                   call, starts, crashed, wanted>>

SetSpeedImpl ==
    /\ Take("speed")
    /\ talon' = Head(queue).arg * scalar * (IF reversed THEN -1 ELSE 1)
    /\ UNCHANGED <<worker, enabled, reversed, scalar, controller, tick,
                   call, starts, crashed, wanted>>

SetSpeedScalarImpl ==
    /\ Take("scalar")
    /\ scalar' = Head(queue).arg
    /\ UNCHANGED <<worker, talon, reversed, enabled, controller, tick,
                   call, starts, crashed, wanted>>

ReverseMotorImpl ==
    /\ Take("reverse")
    /\ reversed' = ~reversed
    /\ UNCHANGED <<worker, talon, scalar, enabled, controller, tick, call,
                   starts, crashed, wanted>>

(* startSpeedControlImpl: clearControlRun and setControlTarget, of which a *)
(* LinearAngleTarget (the one controller in use) keeps the target, ...     *)
StartImpl ==
    /\ Take("start")
    /\ worker' = "attach"
    /\ UNCHANGED <<motor, enabled, attached, armed, stopped, tick, call,
                   starts, crashed, wanted>>

StartAttaches_Later ==
    /\ worker = "attach"
    /\ worker' = "arm"
    /\ UNCHANGED <<queue, motor, enabled, controller, tick, call, starts,
                   crashed, wanted>>

(* ... setControlledMotor, ...                                             *)
StartAttaches ==
    /\ worker = "attach"
    /\ attached' = TRUE
    /\ worker' = "arm"
    /\ UNCHANGED <<queue, motor, enabled, armed, stopped, tick,
                   call, starts, crashed, wanted>>

StartArms_Not ==
    /\ worker = "arm"
    /\ stopped' = FALSE
    /\ worker' = "enable"
    /\ UNCHANGED <<queue, motor, enabled, attached, armed, tick,
                   call, starts, crashed, wanted>>

(* ... start, ...                                                          *)
StartArms ==
    /\ worker = "arm"
    /\ armed' = TRUE
    /\ stopped' = FALSE
    /\ worker' = "enable"
    /\ UNCHANGED <<queue, motor, enabled, attached, tick, call,
                   starts, crashed, wanted>>

(* ... and only then the flag.                                             *)
StartEnables ==
    /\ worker = "enable"
    /\ enabled' = TRUE
    /\ worker' = "idle"
    /\ UNCHANGED <<queue, motor, controller, tick, call, starts, crashed,
                   wanted>>

(* stopSpeedControlImpl: the Talon, the controller, the flag.              *)
StopImpl ==
    /\ Take("stop")
    /\ talon' = 0
    /\ worker' = "stopCancel"
    /\ UNCHANGED <<reversed, scalar, enabled, controller, tick, call,
                   starts, crashed, wanted>>

StopCancels ==
    /\ worker = "stopCancel"
    /\ armed' = FALSE
    /\ stopped' = TRUE
    /\ worker' = "stopClear"
    /\ UNCHANGED <<queue, motor, enabled, attached, tick, call,
                   starts, crashed, wanted>>

StopClears ==
    /\ worker = "stopClear"
    /\ enabled' = FALSE
    /\ worker' = "idle"
    /\ UNCHANGED <<queue, motor, controller, tick, call, starts, crashed,
                   wanted>>

-------------------------------------------------------------------------------
(* The timer expires: MotorControl::execute() begins ...                   *)
Fire(t) ==
    /\ tick[t] = "none"
    /\ armed
    /\ armed' = Periodic
    /\ tick' = [tick EXCEPT ![t] = "step"]
    /\ UNCHANGED <<queue, worker, motor, enabled, attached,
                   stopped, call, starts, crashed, wanted>>

(* ... asks the controller, which reads the encoder of the motor, for a    *)
(* power (0 when the target is reached) and enqueues it, ...               *)
Step(t) ==
    /\ tick[t] = "step"
    /\ IF attached
       THEN /\ \E p \in ControlSpeeds \cup {0} : Put("speed", p)
            /\ UNCHANGED crashed
       ELSE /\ crashed' = TRUE
            /\ UNCHANGED <<queue, wanted>>
    /\ tick' = [tick EXCEPT ![t] = "rearm"]
    /\ UNCHANGED <<worker, motor, enabled, controller, call, starts>>

Rearm_Not(t) ==
    /\ tick[t] = "rearm"
    /\ tick' = [tick EXCEPT ![t] = "none"]
    /\ UNCHANGED <<queue, worker, motor, enabled, controller, call,
                   starts, crashed, wanted>>

(* ... and re-arms the timer, whatever happened meanwhile.                 *)
Rearm(t) ==
    /\ tick[t] = "rearm"
    /\ armed' = TRUE
    /\ tick' = [tick EXCEPT ![t] = "none"]
    /\ UNCHANGED <<queue, worker, motor, enabled, attached,
                   stopped, call, starts, crashed, wanted>>

Worker == \/ SetSpeedImpl \/ SetSpeedScalarImpl \/ ReverseMotorImpl
          \/ StartImpl \/ StartAttaches \/ StartArms \/ StartEnables
          \/ StopImpl \/ StopCancels \/ StopClears

Begins(c) == \/ JustEnqueue(c) \/ StartSpeedControl(c) \/ SetSpeed(c)
Goes(c)   == \/ SetSpeedCancels(c) \/ SetSpeedClears(c) \/ SetSpeedEnqueues(c)
Tick(t)   == Fire(t) \/ Step(t) \/ Rearm(t)

Next == \/ Worker
        \/ \E c \in Callers : Begins(c) \/ Goes(c)
        \/ \E t \in Ticks : Tick(t)

(* The thread of the CmdProcessor, the timer and the calls in progress go  *)
(* on.  A caller or a timer thread may find the queue at MaxQueue again    *)
(* and again where the real queue has no bound, hence SF.                  *)
Fairness == /\ WF_vars(Worker)
            /\ \A c \in Callers : SF_vars(Goes(c))
            /\ \A t \in Ticks : SF_vars(Tick(t))

Spec == Init /\ [][Next]_vars /\ Fairness

-------------------------------------------------------------------------------
TypeOK ==
    /\ queue \in Seq(Commands)
    /\ Len(queue) <= MaxQueue
    /\ worker \in {"idle", "attach", "arm", "enable", "stopCancel", "stopClear"}
    /\ talon \in Int
    /\ enabled \in BOOLEAN
    /\ reversed \in BOOLEAN
    /\ scalar \in Scalars
    /\ attached \in BOOLEAN
    /\ armed \in BOOLEAN
    /\ tick \in [Ticks -> {"none", "step", "rearm"}]
    /\ call \in [Callers -> Calls]
    /\ starts \in 0..MaxStarts
    /\ crashed \in BOOLEAN
    /\ wanted \in Powers
    /\ stopped \in BOOLEAN

(* execute() never runs before the controller knows its motor: whatever    *)
(* calls overlap, start() comes after setControlledMotor()                 *)
(* (MotorLink.cpp:64-65).                                                  *)
NullSafe == ~crashed /\ (\A t \in Ticks : tick[t] # "none" => attached)

(* When every queued command was executed the Talon runs at the power that *)
(* was enqueued last, by whichever thread, scaled and perhaps reversed.    *)
LastPowerWins ==
    queue = <<>> /\ worker = "idle" =>
        \E s \in Scalars : talon \in {wanted * s, -wanted * s}

(* The controller that is enabled has its loop running, or somebody is     *)
(* between cancelling the one and clearing the other.  True as long as     *)
(* startSpeedControl was called once, which is what the robot does         *)
(* (Global.cpp:56-58); a second call races with the check in setSpeed.     *)
EnabledMeansLooping ==
    enabled /\ starts <= 1 =>
        \/ armed
        \/ \E t \in Ticks : tick[t] # "none"
        \/ \E c \in Callers : call[c].at = "clear"
        \/ worker = "stopClear"

(* As long as the controller, started once, stays enabled it keeps feeding *)
(* the motor.                                                              *)
LoopGoesOn ==
    <>[](enabled /\ starts <= 1) => []<>(\E t \in Ticks : tick[t] = "rearm")

-------------------------------------------------------------------------------
(* "stops the speed-setting loop, allowing you to control the motor via    *)
(* something else" (MotorControl.h:82-83): after cancel(), and before the  *)
(* next start(), the timer is not armed.                                   *)
CancelStopsLoop == stopped => ~armed

===============================================================================
