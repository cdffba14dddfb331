----------------------------- MODULE MotorLinkProofs -----------------------------
(***************************************************************************)
(* Safety of a motor with its speed controller, for any number of callers  *)
(* and timer threads, both classes of timers, any powers and scalars.      *)
(*                                                                         *)
(* The invariant has a part for each property: why a callback finds its    *)
(* motor, where the power enqueued last is, and how far the one call of    *)
(* startSpeedControl has come while nobody can cancel it.                  *)
(***************************************************************************)
EXTENDS MotorLink, TLAPS

(* The steps of startSpeedControlImpl.                                     *)
Starting == {"attach", "arm", "enable"}

(* Whatever may lead to a callback comes after setControlledMotor.         *)
AttachedFirst ==
    worker \in {"arm", "enable"} \/ armed \/ (\E t \in Ticks : tick[t] # "none")
        => attached

NullInv == ~crashed /\ AttachedFirst

(* Commands that give a power to the Talon, and the Talon given the power  *)
(* that was enqueued last.                                                 *)
PowerOps  == {"speed", "stop"}
Delivered == \E s \in Scalars : talon \in {wanted * s, -wanted * s}

(* The power enqueued last is the last one in the queue, or was delivered. *)
LastInQueue ==
    \E i \in DOMAIN queue :
        /\ queue[i].op \in PowerOps
        /\ queue[i].arg = wanted
        /\ \A j \in DOMAIN queue : j > i => queue[j].op \notin PowerOps

PowerInv ==
    \/ LastInQueue
    \/ (\A i \in DOMAIN queue : queue[i].op \notin PowerOps) /\ Delivered

(* The one call of startSpeedControl has not been executed to its end.     *)
Queued == \E i \in DOMAIN queue : queue[i].op = "start"
Before == Queued \/ worker \in Starting \/ starts = 0

(* The timer is armed or will be at the end of a callback.                 *)
Looping == armed \/ \E t \in Ticks : tick[t] # "none"

OneStart ==
    \A i, j \in DOMAIN queue : queue[i].op = "start" /\ queue[j].op = "start" => i = j

(* Nobody cancels a controller that nobody saw enabled.                    *)
Unseen == ~enabled /\ \A c \in Callers : call[c].at \notin {"cancel", "clear"}

(* The one call of startSpeedControl is in one place; before its end       *)
(* nobody saw the controller enabled; and when the controller is about to  *)
(* be enabled its loop runs.                                               *)
Once ==
    /\ OneStart
    /\ worker \in Starting => ~Queued
    /\ starts = 0 => ~Queued /\ worker \notin Starting
    /\ Before => Unseen
    /\ worker = "enable" => Looping

OnceInv == starts <= 1 => Once

IInv == TypeOK /\ NullInv /\ PowerInv /\ OnceInv /\ EnabledMeansLooping

-------------------------------------------------------------------------------
(* The queue.                                                              *)

LEMMA PutQueue ==
    ASSUME TypeOK, NEW op, NEW arg, Put(op, arg), [op |-> op, arg |-> arg] \in Commands
    PROVE  /\ queue' \in Seq(Commands)
           /\ Len(queue') = Len(queue) + 1
           /\ Len(queue') <= MaxQueue
           /\ queue'[Len(queue')] = [op |-> op, arg |-> arg]
           /\ \A i \in 1..Len(queue) : queue'[i] = queue[i]
           /\ wanted' = IF op \in PowerOps THEN arg ELSE wanted
  BY MotorAssumption DEF TypeOK, Put, PowerOps, MotorAssumption

LEMMA TakeQueue ==
    ASSUME TypeOK, NEW op, Take(op)
    PROVE  /\ queue' \in Seq(Commands)
           /\ Len(queue) \in Nat /\ Len(queue) > 0
           /\ Len(queue') = Len(queue) - 1
           /\ Len(queue') <= MaxQueue
           /\ \A i \in 1..Len(queue') : queue'[i] = queue[i + 1]
           /\ queue[1] = Head(queue)
           /\ queue[1] \in Commands
           /\ queue[1].op = op
           /\ worker = "idle"
  BY MotorAssumption DEF TypeOK, Take, MotorAssumption

LEMMA CommandType ==
    /\ \A c \in Commands : /\ c.op \in {"speed", "scalar", "start", "stop", "reverse"}
                           /\ c.op = "speed" => c.arg \in Powers
                           /\ c.op = "scalar" => c.arg \in Scalars
                           /\ c.op \in {"start", "stop", "reverse"} => c.arg = 0
    /\ \A p \in Powers : [op |-> "speed", arg |-> p] \in Commands
    /\ \A s \in Scalars : [op |-> "scalar", arg |-> s] \in Commands
    /\ \A o \in {"start", "stop", "reverse"} : [op |-> o, arg |-> 0] \in Commands
  BY DEF Commands

(* Steps that put a command on the queue.                                  *)
Putting(op, arg) == Put(op, arg) /\ [op |-> op, arg |-> arg] \in Commands

LEMMA JustEnqueuePuts ==
    ASSUME TypeOK, NEW c \in Callers, JustEnqueue(c)
    PROVE  \E op \in {"speed", "scalar", "stop", "reverse"}, arg \in Int : Putting(op, arg)
<1> USE CommandType DEF Putting, JustEnqueue
<1>1. CASE \E p \in Speeds : Put("speed", p)
  BY <1>1, MotorAssumption DEF MotorAssumption, Powers
<1>2. CASE \E s \in Scalars : Put("scalar", s)
  BY <1>2, MotorAssumption DEF MotorAssumption
<1> QED
  BY <1>1, <1>2

LEMMA StepPuts ==
    ASSUME TypeOK, NEW t \in Ticks, Step(t), attached
    PROVE  \E arg \in Powers : Putting("speed", arg)
  BY CommandType DEF Putting, Step, Powers

LEMMA SetSpeedPuts ==
    ASSUME TypeOK, NEW c \in Callers, SetSpeedEnqueues(c)
    PROVE  \E arg \in Powers : Putting("speed", arg)
<1>1. call[c] \in Calls
  BY DEF TypeOK
<1>2. call[c].arg \in Speeds
  BY <1>1 DEF SetSpeedEnqueues, Calls, Idle
<1> QED
  BY <1>2, CommandType DEF Putting, SetSpeedEnqueues, Powers

LEMMA StartPuts ==
    ASSUME TypeOK, NEW c \in Callers, StartSpeedControl(c)
    PROVE  Putting("start", 0)
  BY CommandType DEF Putting, StartSpeedControl

-------------------------------------------------------------------------------
(* The types.                                                              *)

QueueTypeOK ==
    /\ queue \in Seq(Commands)
    /\ Len(queue) <= MaxQueue
    /\ wanted \in Powers

LEMMA PutTypes ==
    ASSUME TypeOK, NEW op, NEW arg, Putting(op, arg)
    PROVE  QueueTypeOK'
<1>1. op \in PowerOps => arg \in Powers
  <2>1. /\ [op |-> op, arg |-> arg].op = op
        /\ [op |-> op, arg |-> arg].arg = arg
    OBVIOUS
  <2> QED
    BY <2>1, CommandType DEF Putting, PowerOps, Powers
<1> QED
  BY <1>1, PutQueue DEF QueueTypeOK, Putting, TypeOK

LEMMA TypeStep ==
    ASSUME TypeOK, [Next]_vars
    PROVE  TypeOK'
<1>1. ASSUME NEW c \in Callers, Begins(c) \/ Goes(c)
      PROVE  TypeOK'
  <2> USE DEF TypeOK, QueueTypeOK, motor, controller
  <2>1. CASE JustEnqueue(c)
    BY <2>1, JustEnqueuePuts, PutTypes DEF JustEnqueue
  <2>2. CASE StartSpeedControl(c)
    <3>1. starts' \in 0..MaxStarts
      BY <2>2, MotorAssumption DEF StartSpeedControl, MotorAssumption
    <3> QED
      BY <2>2, <3>1, StartPuts, PutTypes DEF StartSpeedControl
  <2>3. CASE SetSpeed(c)
    <3>1. call' \in [Callers -> Calls]
      BY <2>3 DEF SetSpeed, Calls
    <3> QED
      BY <2>3, <3>1 DEF SetSpeed
  <2>4. CASE SetSpeedCancels(c)
    <3>1. call' \in [Callers -> Calls]
      BY <2>4 DEF SetSpeedCancels, Calls, Idle
    <3> QED
      BY <2>4, <3>1 DEF SetSpeedCancels
  <2>5. CASE SetSpeedClears(c)
    <3>1. call' \in [Callers -> Calls]
      BY <2>5 DEF SetSpeedClears, Calls, Idle
    <3> QED
      BY <2>5, <3>1 DEF SetSpeedClears
  <2>6. CASE SetSpeedEnqueues(c)
    <3>1. call' \in [Callers -> Calls]
      BY <2>6 DEF SetSpeedEnqueues, Calls
    <3> QED
      BY <2>6, <3>1, SetSpeedPuts, PutTypes DEF SetSpeedEnqueues
  <2> QED
    BY <1>1, <2>1, <2>2, <2>3, <2>4, <2>5, <2>6 DEF Begins, Goes
<1>2. ASSUME NEW t \in Ticks, Tick(t)
      PROVE  TypeOK'
  <2> USE DEF TypeOK, QueueTypeOK, motor, controller
  <2>1. CASE Fire(t)
    BY <2>1, MotorAssumption DEF Fire, MotorAssumption
  <2>2. CASE Step(t) /\ attached
    BY <2>2, StepPuts, PutTypes DEF Step
  <2>3. CASE Step(t) /\ ~attached
    BY <2>3 DEF Step
  <2>4. CASE Rearm(t)
    BY <2>4 DEF Rearm
  <2> QED
    BY <1>2, <2>1, <2>2, <2>3, <2>4 DEF Tick
<1>3. CASE Worker
  <2> USE DEF TypeOK, motor, controller
  <2>1. CASE SetSpeedImpl
    <3>1. Head(queue).arg \in Int /\ scalar \in Int
      <4>1. Head(queue) \in Commands /\ Head(queue).op = "speed"
        BY <2>1, TakeQueue DEF SetSpeedImpl
      <4>2. Powers \subseteq Int /\ Scalars \subseteq Int
        BY MotorAssumption DEF MotorAssumption, Powers
      <4> QED
        BY <4>1, <4>2, CommandType
    <3>2. talon' \in Int
      BY <2>1, <3>1 DEF SetSpeedImpl
    <3> QED
      BY <2>1, <3>2, TakeQueue DEF SetSpeedImpl
  <2>2. CASE SetSpeedScalarImpl
    BY <2>2, TakeQueue, CommandType DEF SetSpeedScalarImpl
  <2>3. CASE ReverseMotorImpl
    BY <2>3, TakeQueue DEF ReverseMotorImpl
  <2>4. CASE StartImpl
    BY <2>4, TakeQueue DEF StartImpl
  <2>5. CASE StopImpl
    BY <2>5, TakeQueue DEF StopImpl
  <2>6. CASE StartAttaches \/ StartArms \/ StartEnables
    BY <2>6 DEF StartAttaches, StartArms, StartEnables
  <2>7. CASE StopCancels \/ StopClears
    BY <2>7 DEF StopCancels, StopClears
  <2> QED
    BY <1>3, <2>1, <2>2, <2>3, <2>4, <2>5, <2>6, <2>7 DEF Worker
<1>4. CASE UNCHANGED vars
  BY <1>4 DEF TypeOK, vars, motor, controller
<1> QED
  BY <1>1, <1>2, <1>3, <1>4 DEF Next

-------------------------------------------------------------------------------
(* No callback without a motor: setControlledMotor comes before start, and *)
(* only a callback arms the timer again.                                   *)
LEMMA NullStep ==
    ASSUME TypeOK, NullInv, [Next]_vars
    PROVE  NullInv'
<1> USE DEF TypeOK, NullInv, AttachedFirst, motor, controller
<1>1. ASSUME NEW c \in Callers, Begins(c) \/ Goes(c)
      PROVE  NullInv'
  BY <1>1 DEF Begins, Goes, JustEnqueue, StartSpeedControl, SetSpeed, SetSpeedCancels,
              SetSpeedClears, SetSpeedEnqueues
<1>2. ASSUME NEW t \in Ticks, Tick(t)
      PROVE  NullInv'
  BY <1>2 DEF Tick, Fire, Step, Rearm
<1>3. CASE Worker
  BY <1>3 DEF Worker, Take, SetSpeedImpl, SetSpeedScalarImpl, ReverseMotorImpl, StartImpl,
              StartAttaches, StartArms, StartEnables, StopImpl, StopCancels, StopClears
<1>4. CASE UNCHANGED vars
  BY <1>4 DEF vars
<1> QED
  BY <1>1, <1>2, <1>3, <1>4 DEF Next

-------------------------------------------------------------------------------
(* The last power wins.                                                    *)

LEMMA PutKeepsPower ==
    ASSUME TypeOK, PowerInv, NEW op, NEW arg, Putting(op, arg), talon' = talon
    PROVE  PowerInv'
<1> USE DEF PowerInv, LastInQueue
<1>1. DOMAIN queue = 1..Len(queue) /\ Len(queue) \in Nat
  BY DEF TypeOK
<1>2. /\ DOMAIN queue' = 1..(Len(queue) + 1)
      /\ Len(queue') = Len(queue) + 1
      /\ queue'[Len(queue) + 1].op = op /\ queue'[Len(queue) + 1].arg = arg
      /\ \A i \in 1..Len(queue) : queue'[i] = queue[i]
      /\ wanted' = IF op \in PowerOps THEN arg ELSE wanted
  BY <1>1, PutQueue DEF Putting
<1>3. CASE op \in PowerOps
  BY <1>1, <1>2, <1>3
<1>4. CASE op \notin PowerOps /\ LastInQueue
  <2>1. PICK i \in 1..Len(queue) :
           /\ queue[i].op \in PowerOps
           /\ queue[i].arg = wanted
           /\ \A j \in 1..Len(queue) : j > i => queue[j].op \notin PowerOps
    BY <1>1, <1>4
  <2>2. \A j \in 1..(Len(queue) + 1) : j > i => queue'[j].op \notin PowerOps
    BY <1>1, <1>2, <1>4, <2>1
  <2>3. i \in DOMAIN queue' /\ queue'[i].op \in PowerOps /\ queue'[i].arg = wanted'
    BY <1>1, <1>2, <1>4, <2>1
  <2> QED
    BY <1>2, <2>2, <2>3
<1>5. CASE /\ op \notin PowerOps
           /\ \A i \in DOMAIN queue : queue[i].op \notin PowerOps
           /\ Delivered
  <2>1. \A i \in DOMAIN queue' : queue'[i].op \notin PowerOps
    BY <1>1, <1>2, <1>5
  <2>2. Delivered'
    BY <1>2, <1>5 DEF Delivered
  <2> QED
    BY <2>1, <2>2
<1> QED
  BY <1>3, <1>4, <1>5

(* Taking the only power there is delivers it; taking anything else leaves *)
(* the last power where it is.                                             *)
LEMMA TakeKeepsPower ==
    ASSUME TypeOK, PowerInv, NEW op, Take(op), wanted' = wanted,
           op \notin PowerOps => talon' = talon,
           op \in PowerOps => \/ Head(queue).arg # wanted
                              \/ Delivered'
    PROVE  PowerInv'
<1> USE DEF PowerInv, LastInQueue
<1>1. /\ DOMAIN queue = 1..Len(queue) /\ Len(queue) \in Nat /\ Len(queue) > 0
      /\ DOMAIN queue' = 1..(Len(queue) - 1)
      /\ \A i \in 1..(Len(queue) - 1) : queue'[i] = queue[i + 1]
      /\ queue[1] = Head(queue)
      /\ queue[1].op = op
  BY TakeQueue DEF TypeOK
<1>2. CASE LastInQueue
  <2>1. PICK i \in 1..Len(queue) :
           /\ queue[i].op \in PowerOps
           /\ queue[i].arg = wanted
           /\ \A j \in 1..Len(queue) : j > i => queue[j].op \notin PowerOps
    BY <1>1, <1>2
  <2>2. CASE i = 1
    <3>1. Delivered'
      BY <1>1, <2>1, <2>2
    <3>2. \A j \in DOMAIN queue' : queue'[j].op \notin PowerOps
      BY <1>1, <2>1, <2>2
    <3> QED
      BY <3>1, <3>2
  <2>3. CASE i > 1
    <3>1. i - 1 \in DOMAIN queue' /\ queue'[i - 1] = queue[i]
      BY <1>1, <2>1, <2>3
    <3>2. \A j \in DOMAIN queue' : j > i - 1 => queue'[j].op \notin PowerOps
      BY <1>1, <2>1, <2>3
    <3> QED
      BY <2>1, <3>1, <3>2
  <2> QED
    BY <2>2, <2>3
<1>3. CASE (\A i \in DOMAIN queue : queue[i].op \notin PowerOps) /\ Delivered
  <2>1. op \notin PowerOps
    BY <1>1, <1>3
  <2>2. \A i \in DOMAIN queue' : queue'[i].op \notin PowerOps
    BY <1>1, <1>3
  <2>3. Delivered'
    BY <1>3, <2>1 DEF Delivered
  <2> QED
    BY <2>2, <2>3
<1> QED
  BY <1>2, <1>3

LEMMA PowerAlone ==
    ASSUME PowerInv, UNCHANGED <<queue, wanted, talon>>
    PROVE  PowerInv'
  BY DEF PowerInv, LastInQueue, Delivered

LEMMA PowerStep ==
    ASSUME TypeOK, PowerInv, [Next]_vars
    PROVE  PowerInv'
<1> USE DEF motor, controller
<1>1. ASSUME NEW c \in Callers, Begins(c) \/ Goes(c)
      PROVE  PowerInv'
  <2>1. CASE JustEnqueue(c)
    BY <2>1, JustEnqueuePuts, PutKeepsPower DEF JustEnqueue
  <2>2. CASE StartSpeedControl(c)
    BY <2>2, StartPuts, PutKeepsPower DEF StartSpeedControl
  <2>3. CASE SetSpeedEnqueues(c)
    BY <2>3, SetSpeedPuts, PutKeepsPower DEF SetSpeedEnqueues
  <2>4. CASE SetSpeed(c) \/ SetSpeedCancels(c) \/ SetSpeedClears(c)
    BY <2>4, PowerAlone DEF SetSpeed, SetSpeedCancels, SetSpeedClears
  <2> QED
    BY <1>1, <2>1, <2>2, <2>3, <2>4 DEF Begins, Goes
<1>2. ASSUME NEW t \in Ticks, Tick(t)
      PROVE  PowerInv'
  <2>1. CASE Step(t) /\ attached
    BY <2>1, StepPuts, PutKeepsPower DEF Step
  <2>2. CASE Fire(t) \/ Rearm(t) \/ (Step(t) /\ ~attached)
    BY <2>2, PowerAlone DEF Fire, Rearm, Step
  <2> QED
    BY <1>2, <2>1, <2>2 DEF Tick
<1>3. CASE SetSpeedImpl
  <2>1. Take("speed") /\ wanted' = wanted
    BY <1>3 DEF SetSpeedImpl
  <2>2. Head(queue).arg \in Int /\ scalar \in Scalars /\ scalar \in Int
    <3>1. Head(queue) \in Commands /\ Head(queue).op = "speed"
      BY <2>1, TakeQueue
    <3>2. Powers \subseteq Int /\ Scalars \subseteq Int /\ scalar \in Scalars
      BY MotorAssumption DEF MotorAssumption, Powers, TypeOK
    <3> QED
      BY <3>1, <3>2, CommandType
  <2>3. ASSUME Head(queue).arg = wanted
        PROVE  Delivered'
    <3>1. talon' \in {wanted * scalar, -wanted * scalar}
      BY <1>3, <2>2, <2>3 DEF SetSpeedImpl
    <3> QED
      BY <2>1, <2>2, <3>1 DEF Delivered
  <2> QED
    BY <2>1, <2>3, TakeKeepsPower DEF PowerOps
<1>4. CASE StopImpl
  <2>1. Take("stop") /\ wanted' = wanted /\ talon' = 0
    BY <1>4 DEF StopImpl
  <2>2. Head(queue).arg = 0
    BY <2>1, TakeQueue, CommandType
  <2>3. ASSUME wanted = 0
        PROVE  Delivered'
    <3>1. 1 \in Scalars /\ talon' = wanted' * 1
      BY <2>1, <2>3, MotorAssumption DEF MotorAssumption
    <3> QED
      BY <3>1 DEF Delivered
  <2> QED
    BY <2>1, <2>2, <2>3, TakeKeepsPower DEF PowerOps
<1>5. CASE SetSpeedScalarImpl \/ ReverseMotorImpl \/ StartImpl
  <2>1. PICK op \in {"scalar", "reverse", "start"} : Take(op)
    BY <1>5 DEF SetSpeedScalarImpl, ReverseMotorImpl, StartImpl
  <2>2. UNCHANGED <<wanted, talon>>
    BY <1>5 DEF SetSpeedScalarImpl, ReverseMotorImpl, StartImpl
  <2> QED
    BY <2>1, <2>2, TakeKeepsPower DEF PowerOps
<1>6. CASE StartAttaches \/ StartArms \/ StartEnables \/ StopCancels \/ StopClears
  BY <1>6, PowerAlone DEF StartAttaches, StartArms, StartEnables, StopCancels, StopClears
<1>7. CASE UNCHANGED vars
  BY <1>7, PowerAlone DEF vars
<1> QED
  BY <1>1, <1>2, <1>3, <1>4, <1>5, <1>6, <1>7 DEF Next, Worker

-------------------------------------------------------------------------------
(* The loop of a controller that was started once.                         *)

(* Where the command that starts the controller is, after a put ...        *)
LEMMA PutQueued ==
    ASSUME TypeOK, NEW op, NEW arg, Putting(op, arg)
    PROVE  /\ Queued' <=> Queued \/ op = "start"
           /\ OneStart /\ (op # "start" \/ ~Queued) => OneStart'
<1>1. DOMAIN queue = 1..Len(queue) /\ Len(queue) \in Nat
  BY DEF TypeOK
<1>2. /\ DOMAIN queue' = 1..(Len(queue) + 1)
      /\ queue'[Len(queue) + 1].op = op
      /\ \A i \in 1..Len(queue) : queue'[i] = queue[i]
  BY <1>1, PutQueue DEF Putting
<1>3. Queued' <=> Queued \/ op = "start"
  BY <1>1, <1>2 DEF Queued
<1>4. ASSUME OneStart, op # "start" \/ ~Queued,
             NEW i \in DOMAIN queue', NEW j \in DOMAIN queue',
             queue'[i].op = "start", queue'[j].op = "start"
      PROVE  i = j
  BY <1>1, <1>2, <1>4 DEF Queued, OneStart
<1> QED
  BY <1>3, <1>4 DEF OneStart

(* ... and after a take.                                                   *)
LEMMA TakeQueued ==
    ASSUME TypeOK, OneStart, NEW op, Take(op)
    PROVE  /\ OneStart'
           /\ op = "start" => Queued /\ ~Queued'
           /\ op # "start" => (Queued' <=> Queued)
<1>1. /\ DOMAIN queue = 1..Len(queue) /\ Len(queue) \in Nat /\ Len(queue) > 0
      /\ DOMAIN queue' = 1..(Len(queue) - 1)
      /\ \A i \in 1..(Len(queue) - 1) : queue'[i] = queue[i + 1]
      /\ queue[1].op = op
  BY TakeQueue DEF TypeOK
<1>2. ASSUME NEW i \in DOMAIN queue', NEW j \in DOMAIN queue',
             queue'[i].op = "start", queue'[j].op = "start"
      PROVE  i = j
  <2>1. i + 1 \in DOMAIN queue /\ j + 1 \in DOMAIN queue
    BY <1>1, <1>2
  <2>2. i + 1 = j + 1
    BY <1>1, <1>2, <2>1 DEF OneStart
  <2> QED
    BY <1>1, <1>2, <2>2
<1>3. ASSUME op = "start", NEW i \in DOMAIN queue', queue'[i].op = "start"
      PROVE  FALSE
  <2>1. i + 1 \in DOMAIN queue /\ 1 \in DOMAIN queue
    BY <1>1, <1>3
  <2>2. i + 1 = 1
    BY <1>1, <1>3, <2>1 DEF OneStart
  <2> QED
    BY <1>1, <1>3, <2>2
<1>4. ASSUME op # "start", Queued
      PROVE  Queued'
  <2>1. PICK i \in DOMAIN queue : queue[i].op = "start"
    BY <1>4 DEF Queued
  <2>2. i - 1 \in DOMAIN queue' /\ queue'[i - 1].op = "start"
    BY <1>1, <1>4, <2>1
  <2> QED
    BY <2>2 DEF Queued
<1>5. (Queued' => Queued) /\ (op = "start" => Queued)
  BY <1>1 DEF Queued
<1> QED
  BY <1>2, <1>3, <1>4, <1>5 DEF OneStart, Queued

(* Steps that neither start nor stop the controller.                       *)
LEMMA OnceElse ==
    ASSUME Once, OneStart', Queued' <=> Queued,
           UNCHANGED <<worker, starts>>,
           Before => Unseen', Looping => Looping'
    PROVE  Once'
  BY DEF Once, Before

LEMMA OnceCall ==
    ASSUME TypeOK, Once, NEW c \in Callers, Begins(c) \/ Goes(c), starts' <= 1
    PROVE  Once'
<1> USE DEF TypeOK, controller
<1>1. ASSUME NEW op, NEW arg, Putting(op, arg), op # "start",
             UNCHANGED <<worker, starts, enabled, armed, tick>>,
             \/ UNCHANGED call
             \/ call' = [call EXCEPT ![c] = Idle]
      PROVE  Once'
  <2>1. OneStart' /\ (Queued' <=> Queued)
    BY <1>1, PutQueued DEF Once
  <2>2. Unseen => Unseen'
    BY <1>1 DEF Unseen, Idle
  <2>3. Looping => Looping'
    BY <1>1 DEF Looping
  <2> QED
    BY <1>1, <2>1, <2>2, <2>3, OnceElse DEF Once
<1>2. CASE JustEnqueue(c)
  BY <1>1, <1>2, JustEnqueuePuts DEF JustEnqueue
<1>3. CASE SetSpeedEnqueues(c)
  BY <1>1, <1>3, SetSpeedPuts DEF SetSpeedEnqueues
<1>4. CASE StartSpeedControl(c)
  <2>1. starts = 0 /\ starts' = 1
    BY <1>4 DEF StartSpeedControl
  <2>2. ~Queued /\ worker \notin Starting /\ OneStart /\ Unseen
    BY <2>1 DEF Once, Before
  <2>3. OneStart'
    BY <1>4, <2>2, StartPuts, PutQueued
  <2>4. UNCHANGED <<worker, enabled, call>>
    BY <1>4 DEF StartSpeedControl
  <2>5. Unseen' /\ worker' \notin Starting
    BY <2>2, <2>4 DEF Unseen
  <2> QED
    BY <2>1, <2>3, <2>5 DEF Once, Starting
<1>5. CASE SetSpeed(c) \/ SetSpeedCancels(c) \/ SetSpeedClears(c)
  <2>1. UNCHANGED <<queue, worker, starts, tick>>
    BY <1>5 DEF SetSpeed, SetSpeedCancels, SetSpeedClears
  <2>2. OneStart' /\ (Queued' <=> Queued)
    BY <2>1 DEF Once, OneStart, Queued
  <2>3. Unseen => Unseen' /\ (Looping => Looping')
    BY <1>5 DEF Unseen, Looping, SetSpeed, SetSpeedCancels, SetSpeedClears
  <2>4. CASE Before
    BY <2>1, <2>2, <2>3, <2>4, OnceElse DEF Once
  <2>5. CASE ~Before
    <3>1. ~Before' /\ worker' # "enable" /\ worker' \notin Starting
      BY <2>1, <2>2, <2>5 DEF Before, Starting
    <3> QED
      BY <2>2, <3>1 DEF Once, Before
  <2> QED
    BY <2>4, <2>5
<1> QED
  BY <1>2, <1>3, <1>4, <1>5 DEF Begins, Goes

LEMMA OnceTick ==
    ASSUME TypeOK, NullInv, Once, NEW t \in Ticks, Tick(t)
    PROVE  Once'
<1> USE DEF TypeOK, controller
<1>1. CASE Fire(t) \/ Rearm(t)
  <2>1. UNCHANGED <<queue, worker, starts, enabled, call>>
    BY <1>1 DEF Fire, Rearm
  <2>2. Looping'
    BY <1>1 DEF Fire, Rearm, Looping
  <2> QED
    BY <2>1, <2>2 DEF Once, OneStart, Queued, Before, Unseen
<1>2. CASE Step(t)
  <2>1. attached
    BY <1>2 DEF Step, NullInv, AttachedFirst
  <2>2. PICK arg \in Powers : Putting("speed", arg)
    BY <1>2, <2>1, StepPuts
  <2>3. UNCHANGED <<worker, starts, enabled, call>>
    BY <1>2 DEF Step
  <2>4. Looping'
    BY <1>2 DEF Step, Looping
  <2>5. OneStart' /\ (Queued' <=> Queued)
    BY <2>2, PutQueued DEF Once
  <2> QED
    BY <2>3, <2>4, <2>5 DEF Once, Before, Unseen
<1> QED
  BY <1>1, <1>2 DEF Tick

LEMMA OnceWorker ==
    ASSUME TypeOK, Once, Worker
    PROVE  Once'
<1> USE DEF TypeOK, controller, motor
<1>1. CASE SetSpeedImpl \/ SetSpeedScalarImpl \/ ReverseMotorImpl \/ StopImpl
  <2>1. PICK op \in {"speed", "scalar", "reverse", "stop"} : Take(op)
    BY <1>1 DEF SetSpeedImpl, SetSpeedScalarImpl, ReverseMotorImpl, StopImpl
  <2>2. /\ worker = "idle"
        /\ worker' \notin Starting
        /\ UNCHANGED <<starts, enabled, call>>
    BY <1>1, <2>1 DEF Take, Starting, SetSpeedImpl, SetSpeedScalarImpl, ReverseMotorImpl, StopImpl
  <2>3. OneStart' /\ (Queued' <=> Queued)
    BY <2>1, TakeQueued DEF Once
  <2> QED
    BY <2>2, <2>3 DEF Once, Before, Unseen, Starting
<1>2. CASE StartImpl
  <2>1. Queued /\ ~Queued' /\ OneStart'
    BY <1>2, TakeQueued DEF StartImpl, Once
  <2>2. Unseen /\ starts # 0
    BY <2>1 DEF Once, Before
  <2>3. worker' = "attach" /\ UNCHANGED <<starts, enabled, call>>
    BY <1>2 DEF StartImpl
  <2> QED
    BY <2>1, <2>2, <2>3 DEF Once, Before, Unseen
<1>3. CASE StartAttaches \/ StartArms
  <2>1. /\ worker \in Starting /\ worker' \in Starting
        /\ UNCHANGED <<queue, starts, enabled, call>>
        /\ worker' = "enable" => armed'
    BY <1>3 DEF StartAttaches, StartArms, Starting
  <2> QED
    BY <2>1 DEF Once, OneStart, Queued, Before, Unseen, Looping
<1>4. CASE StartEnables
  <2>1. worker = "enable" /\ worker' = "idle" /\ UNCHANGED <<queue, starts>>
    BY <1>4 DEF StartEnables
  <2>2. ~Queued /\ starts # 0
    BY <2>1 DEF Once, Starting
  <2> QED
    BY <2>1, <2>2 DEF Once, OneStart, Queued, Before, Starting
<1>5. CASE StopCancels \/ StopClears
  <2>1. /\ worker' \notin Starting /\ worker \notin Starting
        /\ UNCHANGED <<queue, starts, call>>
        /\ ~enabled => ~enabled'
    BY <1>5 DEF StopCancels, StopClears, Starting
  <2> QED
    BY <2>1 DEF Once, OneStart, Queued, Before, Unseen, Starting
<1> QED
  BY <1>1, <1>2, <1>3, <1>4, <1>5 DEF Worker

LEMMA OnceStep ==
    ASSUME TypeOK, NullInv, OnceInv, [Next]_vars
    PROVE  OnceInv'
<1> SUFFICES ASSUME starts' <= 1
             PROVE  Once'
  BY DEF OnceInv
<1>1. starts <= 1
  <2>1. starts' = starts \/ starts' = starts + 1
    BY DEF Next, vars, Worker, Begins, Goes, Tick, JustEnqueue, StartSpeedControl, SetSpeed,
           SetSpeedCancels, SetSpeedClears, SetSpeedEnqueues, Fire, Step, Rearm,
           SetSpeedImpl, SetSpeedScalarImpl, ReverseMotorImpl, StartImpl,
           StartAttaches, StartArms, StartEnables, StopImpl, StopCancels, StopClears
  <2>2. starts \in Int
    BY DEF TypeOK
  <2> QED
    BY <2>1, <2>2
<1>2. Once
  BY <1>1 DEF OnceInv
<1>3. CASE UNCHANGED vars
  BY <1>2, <1>3 DEF vars, Once, OneStart, Queued, Before, Unseen, Looping
<1> QED
  BY <1>2, <1>3, OnceCall, OnceTick, OnceWorker DEF Next

-------------------------------------------------------------------------------
(* The controller is enabled when its loop runs, and stays enabled until   *)
(* the one who cancelled the loop has cleared the flag.                    *)
LEMMA LoopingStep ==
    ASSUME TypeOK, OnceInv, EnabledMeansLooping, [Next]_vars
    PROVE  EnabledMeansLooping'
<1> USE DEF TypeOK, EnabledMeansLooping, controller, motor
<1>1. ASSUME NEW c \in Callers, Begins(c) \/ Goes(c)
      PROVE  EnabledMeansLooping'
  <2>1. CASE JustEnqueue(c)
    BY <2>1 DEF JustEnqueue
  <2>2. CASE StartSpeedControl(c)
    BY <2>2 DEF StartSpeedControl
  <2>3. CASE SetSpeed(c) \/ SetSpeedEnqueues(c)
    <3>1. /\ \A d \in Callers : call[d].at = "clear" => call'[d].at = "clear"
          /\ UNCHANGED <<enabled, starts, armed, tick, worker>>
      BY <2>3 DEF SetSpeed, SetSpeedEnqueues, Idle
    <3> QED
      BY <3>1
  <2>4. CASE SetSpeedCancels(c)
    <3>1. call'[c].at = "clear"
      BY <2>4 DEF SetSpeedCancels, Calls, Idle
    <3> QED
      BY <3>1
  <2>5. CASE SetSpeedClears(c)
    BY <2>5 DEF SetSpeedClears
  <2> QED
    BY <1>1, <2>1, <2>2, <2>3, <2>4, <2>5 DEF Begins, Goes
<1>2. ASSUME NEW t \in Ticks, Tick(t)
      PROVE  EnabledMeansLooping'
  BY <1>2 DEF Tick, Fire, Step, Rearm
<1>3. CASE StartEnables
  BY <1>3 DEF StartEnables, OnceInv, Once, Looping
<1>4. CASE StopCancels \/ StopClears
  BY <1>4 DEF StopCancels, StopClears
<1>5. CASE SetSpeedImpl \/ SetSpeedScalarImpl \/ ReverseMotorImpl \/ StopImpl \/ StartImpl
  BY <1>5 DEF Take, SetSpeedImpl, SetSpeedScalarImpl, ReverseMotorImpl, StopImpl, StartImpl
<1>6. CASE StartAttaches \/ StartArms
  BY <1>6 DEF StartAttaches, StartArms
<1>7. CASE UNCHANGED vars
  BY <1>7 DEF vars
<1> QED
  BY <1>1, <1>2, <1>3, <1>4, <1>5, <1>6, <1>7 DEF Next, Worker

-------------------------------------------------------------------------------
LEMMA Initially ==
    ASSUME Init
    PROVE  IInv
<1> USE MotorAssumption DEF MotorAssumption, Init
<1>1. TypeOK
  <2>1. queue \in Seq(Commands) /\ Len(queue) <= MaxQueue
    OBVIOUS
  <2>2. call \in [Callers -> Calls]
    BY DEF Calls
  <2>3. starts \in 0..MaxStarts /\ scalar \in Scalars /\ wanted \in Powers
    BY DEF Powers
  <2>4. tick \in [Ticks -> {"none", "step", "rearm"}]
    OBVIOUS
  <2>5. talon \in Int /\ worker \in {"idle", "attach", "arm", "enable", "stopCancel", "stopClear"}
    OBVIOUS
  <2>6. /\ enabled \in BOOLEAN /\ reversed \in BOOLEAN /\ attached \in BOOLEAN
        /\ armed \in BOOLEAN /\ crashed \in BOOLEAN /\ stopped \in BOOLEAN
    OBVIOUS
  <2> HIDE DEF Init
  <2> QED
    BY <2>1, <2>2, <2>3, <2>4, <2>5, <2>6 DEF TypeOK
<1>2. NullInv
  BY DEF NullInv, AttachedFirst
<1>3. Delivered
  <2>1. 1 \in Scalars /\ talon = wanted * 1
    OBVIOUS
  <2> QED
    BY <2>1 DEF Delivered
<1>4. PowerInv
  BY <1>3 DEF PowerInv
<1>5. OnceInv
  BY DEF OnceInv, Once, OneStart, Queued, Starting, Before, Unseen, Idle
<1>6. EnabledMeansLooping
  BY DEF EnabledMeansLooping
<1> QED
  BY <1>1, <1>2, <1>4, <1>5, <1>6 DEF IInv

(* The inductive invariant, over all steps of MotorLink.cpp and            *)
(* MotorControl.cpp.                                                       *)
THEOREM Invariance == Spec => []IInv
<1>1. Init => IInv
  BY Initially
<1>2. IInv /\ [Next]_vars => IInv'
  BY TypeStep, NullStep, PowerStep, OnceStep, LoopingStep DEF IInv
<1> QED
  BY <1>1, <1>2, PTL DEF Spec

(* Every variable keeps its type, and at most MaxQueue commands wait.      *)
THEOREM TypeCorrect == Spec => []TypeOK
<1>1. IInv => TypeOK
  BY DEF IInv
<1> QED
  BY <1>1, Invariance, PTL

(* MotorControl::execute() never dereferences a _controlledMotor that      *)
(* startSpeedControlImpl has not set yet (MotorLink.cpp:64-65).            *)
THEOREM NullSafeAlways == Spec => []NullSafe
<1>1. IInv => NullSafe
  BY DEF IInv, NullInv, AttachedFirst, NullSafe
<1> QED
  BY <1>1, Invariance, PTL

(* Once the thread of the CmdProcessor has nothing left to do, the Talon   *)
(* runs at the power that was enqueued last, whoever enqueued it: a        *)
(* caller's setSpeed, the controller or stopSpeedControl.                  *)
THEOREM LastPowerWinsAlways == Spec => []LastPowerWins
<1>1. IInv => LastPowerWins
  BY DEF IInv, PowerInv, LastInQueue, Delivered, LastPowerWins
<1> QED
  BY <1>1, Invariance, PTL

(* A controller that was started once and is enabled has its loop running, *)
(* or is about to be disabled by the one who cancelled the loop.           *)
THEOREM EnabledMeansLoopingAlways == Spec => []EnabledMeansLooping
<1>1. IInv => EnabledMeansLooping
  BY DEF IInv
<1> QED
  BY <1>1, Invariance, PTL

===============================================================================
