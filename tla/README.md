# TLA+ models of the FRC 3128 robot code (2015)

Models, model checks and proofs for the C++ program in `src/src`: a robot whose
joystick listeners, command queues, timers and motor controllers run on threads of
their own. Every module says in its head which files it models; `PROJECT.json` maps
each definition to its lines. Paths below are relative to `src/src`.

## 1. The system

| part | state | operations | runs on |
|---|---|---|---|
| `EventManager/CmdProcessor` ("active object") | queue of commands, thread | `Enqueue`, `EnqueueLambda`, `EnqueueFront`, `ShutDown`, destructor; commands with a `Rendezvous` block their client | clients and one worker thread |
| `EventManager/ListenerManager` | joystick values, multimap of listeners, two mutexes, interruptible wait | `addListener`, `removeAllListeners`, `removeAllListenersForControl`, `getRawBool/Double`, `run` | clients and a polling thread |
| `HardwareLink/Motor/MotorLink`, `MotorControl` | Talon, `_spdControlEnabled`, scalar, direction; controller with its motor and a timer | `setSpeed`, `setSpeedForce`, `reverseMotor`, `setSpeedScalar`, `startSpeedControl`, `stopSpeedControl`; `cancel`, `start`, `execute` | callers, the CmdProcessor of the motor, timer callbacks |
| `SpeedControl/LinearAngleTarget` | target angle, gain, threshold | `setControlTarget`, `isComplete`, `speedControlStep` | timer callback and the autonomous thread |
| `RobotMovement/RobotMath`, `SwerveDrive::optimizeSwerve` | none | angle arithmetic | any |
| `EventManager/CmdTimerWin32` | static id counter, set of ids, id-to-timer map, mutex; timers of the system | `StartRelative`, `StartAbsolute`, `Cancel`, `TimerHandler`, destructor | any thread, and one that dispatches messages |
| `RobotMovement/ArcadeDrive` | two motors, a CmdProcessor | `steer`, `steerHandler` | polling thread, its own worker |
| `EventManager/CmdTimerMultiplex` | `_timerMap`: a timer for each command that is to come | `startTimer`, `onTimerFire`, destructor | any thread, and one that dispatches messages |
| `RobotMovement/CockArm` | motor, touch sensor, timer, `_cockArmActive` | `start`, `cancel`, `execute`, `startArmCock`, `stopArmCock` | polling thread, autonomous thread, timer |
| `RobotTemplate`, `Global`, `Util/AutoConfig`, `HardwareLink/LightChangeEvent` | all of the above; `autonomousHasBeenInit`, `teleopHasBeenInit`; the lights | mode changes; registration of listeners; the autonomous sequence | WPILib main thread, and a detached thread for each autonomous mode |
| `MagneticPotEncoder`, `RelayLink` | offset; relay | `getAngle`; `setOn`, `setOff` | their callers |
| `LinearSpeedTarget`, `OpticalDiskEncoder`, `Piston`, `CmdTimerPosix`, logging | - | unused, single hardware accesses, or compiled out | - |

How they interact: the polling thread of `ListenerManager` calls listeners
(`Global::initializeTeleop`), which enqueue commands on the `CmdProcessor`s of
`ArcadeDrive` and of `MotorLink`s; `MotorControl::execute` is called back by a timer,
reads the encoder through its `MotorLink`, enqueues a power on the same queue, and
arms the timer again. `RobotTemplate` binds and removes the listeners as the modes
change, and starts an autonomous thread that sets the wheels, cancels and starts the loop
of `CockArm` and changes the lights, whatever the driver does meanwhile.
`ThreadSafeQueue`, `InterruptibleWaiter`, `Rendezvous` and the choice of the timer
class come from a submodule that is not in the repository: they are modelled from
how they are used.

What is hard here, in short (the full list is `hazards` in `PROJECT.json`):
`std::unique_lock<std::mutex>(_mutex);` declares a local variable named `_mutex` and
locks nothing (`MotorControl` also has `std::unique_lock<std::mutex>();`), in `ListenerManager`, `MotorControl`,
`CockArm` and `CmdTimerWin32`, so handlers
that look serialized interleave; flags are tested on one thread and changed on
another; callbacks re-arm what was cancelled; sensor and joystick values are read more than
once per decision; destructors must stop threads that may be anywhere; a thread that is
detached is never told that the mode it was started for is over; `shared_ptr`s that point at
each other decide how long timers live.

## 2. Modules

| module | models | abstract specification / used by |
|---|---|---|
| `ActiveObject` | what `CmdProcessor` promises | refined by `CmdProcessor` |
| `CmdProcessor` | `CmdProcessor.{h,cpp}`, the idioms of `Cmd.h` | - |
| `CmdProcessorProofs` | theorems | extends `CmdProcessor` |
| `ListenerManager` | `ListenerManager.{h,cpp}` | - |
| `ListenerManagerProofs` | theorems | extends `ListenerManager` |
| `MotorLink` | `MotorLink.{h,cpp}` with `MotorControl.{h,cpp}` | - |
| `MotorLinkProofs` | theorems | extends `MotorLink` |
| `RobotMath` | `RobotMath.cpp`, `optimizeSwerve` (operators only) | extended by `LinearAngleTarget` |
| `LinearAngleTarget` | `LinearAngleTarget.{h,cpp}` in `MotorControl::execute`, `MagneticPotEncoder::getAngle`, the target of a `MotorLink` | - |
| `LinearAngleTargetProofs` | theorems, first those about `RobotMath` | extends `LinearAngleTarget` |
| `CmdTimerWin32` | `CmdTimerWin32.{h,cpp}` with `SetTimer`/`KillTimer` | - |
| `CmdTimerWin32Proofs` | theorems | extends `CmdTimerWin32` |
| `CmdTimerMultiplex` | `CmdTimerMultiplex.{h,cpp}`, and what `CmdTimerWin32` does for it | - |
| `CmdTimerMultiplexProofs` | theorems | extends `CmdTimerMultiplex` |
| `CockArm` | `CockArm.{h,cpp}`: one call or callback step at a time | extended by `Robot` |
| `Robot` | `RobotTemplate`, `Global`, `AutoConfig`, lights, and the threads that use `CockArm` | composes `CockArm` with everything that calls it |
| `RobotProofs` | theorems | extends `Robot` |
| `ArcadeDrive` | `ArcadeDrive.{h,cpp}` composed with the publishing of `ListenerManager` and the queues of two `MotorLink`s | - |
| `ArcadeDriveProofs` | theorems | extends `ArcadeDrive` |
| `MC*` | model values and small sets for TLC | - |

In each module an operator whose name ends in an underscore and a word
(`Dequeue_Peeks`) is a plausible mistake in the definition that follows it. `Next`
does not use it; put in the place of that definition it violates the property
that `PROJECT.json` pairs it with, which shows that the property depends on the code.

### CmdProcessor

`queue` is `_queue`; a command is the number of the call that made it (each call
allocates a fresh `shared_ptr`). The worker takes a command (`Dequeue`), runs it, and
the call ends in one of four ways: it returns, throws a `std::exception` (logged, the
loop goes on), throws `ThreadInterruptedException` itself (caught as if it were the
shutdown signal), or throws anything else (the thread function is left and the process
terminates). `ShutDown` and `Join` are the destructor. A client with a `Rendezvous` is `blocked` until its
command calls `NotifyOne`. It is assumed of the queue that `Interrupt()` latches: the
next `Dequeue` throws even if the thread was executing a command.

Histories (`issued`, `fronts`, `started`, `failed`) only serve properties. `TypeOK`
of the modules is a conjunct of the proved invariants where there is a proof module.

### ListenerManager

One action per step of `run()`: poll one control, compare, look up one key, publish
one value, call one listener, wait. Adding and removing listeners takes two steps
(`Edit` with the mutex held, `EditDone`), because the polling thread does not take the
mutex: a lookup in between returns any subset of what is or will be registered,
or crashes. The condition for releases is the one for presses, as in the code. The
wait is assumed to throw if `interrupt()` came before it. Listeners do not themselves
register listeners, and the joystick is arbitrary.

### MotorLink

`queue` holds the commands of the motor's `CmdProcessor`. `setSpeed` is the three steps it takes on
its caller's thread (test the flag, cancel, clear) before it enqueues;
`startSpeedControlImpl` is attach, arm, enable; `stopSpeedControlImpl` stop, cancel,
clear; `execute` begins (`Fire`), enqueues a power (`Step`) and re-arms (`Rearm`). The timer is
periodic or one-shot, and may call back on one thread or on more, since the class is chosen
outside the repository. Left out: `setEncoder` and `setSpeedController`, which
nothing calls. `MotorLink::setControlTarget`, which passes the target on, is in
`LinearAngleTarget`.

### RobotMath and LinearAngleTarget

Angles are whole degrees (the code has doubles: rounding is out of the model), powers
are scaled so that the gain is exact. `LinearAngleTarget` has a wheel at any of 360
angles, an encoder that shows the angle less its offset, and a controller that ignores targets until it is `enabled`
(`_spdControlEnabled`). The motor is one of `FullTurns`, which says how many degrees it turns at most between two powers, at full
power; at less it turns in proportion (`MostTurn`). It may be strong enough to overshoot: nothing is assumed of that, and
`NoOvershoot` names the motors that do not get past both edges of the threshold in one period. The wheel turns by up to `Drift` degrees
while `execute()` looks at the encoder (three times), which takes microseconds: `AngleAssumption` has that to be less than the
threshold, and less than the wheel turns between two calls of `execute()` (`Drift < MinTurn`). Without the latter the motor may
hunt to and fro for ever half a turn away from its target, where the direction changes sign with every degree.

That `normalizeAngle` is right means that it gives every direction one name, however many turns apart the angles are. Which name is left open: it is between
-179 and 180 degrees, where `RobotMath.h:28` says "between 0 and 359 degrees"; no caller depends on it.

### CmdTimerWin32

`TimerSetTime` is five steps (`CreateTimer`, `MarkUsed`, `Bump`, and `Register` and `Insert`: the pair of id and timer is made and
then inserted), `Cancel` two (`Kill`, `Erase`), `TimerHandler` lookup and command, and the command may start its own timer again whatever
happened meanwhile, as `MotorControl::execute` does. Any number of threads start, cancel and drop timers. The C++ containers
are `Corrupt`ed when two threads are in them and one has no mutex.

The system keeps a timer by its window, or by the thread that set it if there is no window. Of `SetTimer` and `KillTimer` only
what Win32 documents is assumed. An id the system chooses may be one the class made up for another timer. `KillTimer` is called without a window: it finds surely a timer
without a window that this thread set, and perhaps one of another thread, and its success is taken for a failure (`LOG_FATAL`, `exit(2)`,
`Kill`). A message goes to the thread that owns the window or set the timer. No thread of `src/` dispatches messages, neither
the worker nor the polling nor the autonomous threads that start timers: `Pump` is a thread of the host that may, and owns the window. Nothing is assumed
of how often it does, so this module has no fairness and no liveness. `Erase` may destroy the timer, whose destructor locks the mutex the
thread holds already (`mutexStuck`): reached when `SetTimer` failed for the window of another process,
so that the timer is registered under id 0.

Three histories say what overlapped. `disturbed`: a start overlapped another start or a cancel, or the system chose an id in use. `NoSharedId` and `MapMirrorsIDs`
hold until then; the run `timer_ids` shows what happens after. `torn`: the timer was cancelled in the middle of being started,
between the pair and its insertion, so that it is in the map although it was cancelled. `CancelledIsSilent` holds for all others, however calls
overlap; without that exception TLC finds the race. `cancelled` is what the property is about.

### CmdTimerMultiplex

`startTimer` takes a step for each thing another thread can see: the timer is made (`MakeTimer`), set in
Windows, entered in the static map of `CmdTimerWin32`, and put into `_timerMap`, where it replaces nothing
because each call makes a timer of its own. A message calls a timer of the static map, which runs its command,
and is erased from `_timerMap`. The multiplex is destroyed when neither a user nor a timer holds it. That never happens once
a timer was started: the static map keeps the timer, whose destructor would take it out, and the timer keeps the multiplex. So timers
go on being called after the user let go (the run `multiplex_destroyed`); what can be proved is that they do not call a multiplex
that is gone (`AliveWhenCalled`).

### CockArm and Robot

`CockArm` has the loop and each step of a call on some thread: `start()` tests the timer and arms it in two
steps (`Start`, `StartRelative`), `cancel()` likewise (`Cancel`, `TimerCancel`), since nothing is locked. `Fire`,
`LoopSets` and `Rearm` are `execute()`: the test of the flags, the power, and the timer again. `armed` is what
`TimerIsRunning()` tells, which is false in a callback of a timer that is not periodic. One callback is in progress at a
time, as with a timer class that calls back on one thread; `MotorLink` has more, where two ticks of a timer may overlap. `ArmCall(at, to)` is what a thread does at step
`at` before it stands at step `to`; `Robot` supplies the threads.

`Robot` has four kinds of threads. `main` is the thread of WPILib on its way through `RobotInit`, `DisabledInit`,
`AutonomousInit` or `TeleopInit`: it removes all listeners, spawns a sequence or sets the lights and adds the
listeners one by one, and sets the two flags. `polling` calls what is bound to a control, in any order, as
`ListenerManager` shows that it does. `auto` has the autonomous threads, each at a stretch of
`AutoConfig::initialize` and a step of it. The loop of `CockArm` is the fourth. A motor is the power it was last asked
for, which `LastPowerWins` of `MotorLink` justifies. `Bindings` are those of `initializeTeleop`; as the run
`listeners_up` shows, a press also calls the listeners for the release. One match (`match`) fixes the Options,
the class of the timer, the controls the driver uses and the number of autonomous modes.

### ArcadeDrive

Three threads and three queues: the polling thread publishes x and y one after the
other and calls `steer` for each axis that changed; the drive's thread runs
`steerHandler`, which reads x up to twice and y up to twice; each wheel's thread applies powers.
Here the motors have no speed controller and no other user. The two axes are polled
in one step: since the driver may move the stick arbitrarily in between, what two reads
find is also a position of the stick.

## 3. Runs

Each `.cfg` names its bounds. The slowest, `angle` and `drive`, take about two minutes.

| run | shows | bounds |
|---|---|---|
| `processor` | safety, order, refinement, inductive invariant; every command begun, destructor returns, blocked client released | 2 clients, 4 commands, all outcomes |
| `listeners` | what a cycle delivers, and to whom; destructor returns; listeners fall silent | 1 button, 1 axis with 2 values, 2 listeners, 3 bindings |
| `motor` | null safety, last power wins, enabled means looping; the loop goes on | 2 callers, one-shot timer, 2 queued commands, 2 starts |
| `angle` | arithmetic against reference definitions wherever wheel and target are; short way, ground lost only by one overshoot; stays near the target, comes to rest | 360 angles, targets 90, 200, 180, 1 change, the robot's offset, gain and threshold, two motors: one that turns 8 degrees at full power and one that turns 22 and hunts |
| `timer` | a cancelled timer is not called; the map mirrors the ids and no id is shared while calls do not overlap | 2 timers, 1 caller beside the thread that dispatches and starts timers again; own, no and foreign window; 2 ids made up, 2 the system may choose, one of them the same |
| `drive` | wheels follow the stick and settle | x and y in 0, 10 (tenths), queues of 2 |
| `robot` | listeners match the mode, no runaway wheel, stop is heeded; sequences end, the loop follows its sensor | 5 matches: two overlapping sequences; a sequence and the stick; start, cancel and stop by the driver; stop beside a sequence; the other controls |

Why the bounds are enough: four commands let front and back insertions overlap with
two more on either side; one button with its release key, one axis and a listener bound to
two keys exercise both loops of `run()`; a queue of two lets a stop or a
power of a caller and a callback's power be queued in either order; two starts reach the race described
below; two timers show every collision of ids, two ids let one be cancelled and given another, and two threads, the caller and the one that dispatches, let every step of
a start overlap any other (the theorems of `CmdTimerWin32Proofs` cover any number of each);
a weak and a strong motor are on either side of `NoOvershoot`; with two commands in each queue of `drive` one may overtake, replace or drop the other,
and a command may come while one is executed and another waits, so that a longer queue only has more of the same in between (`WheelsFollowStick` is proved
for every length and all values, those below the threshold of the stick among them; `SettlesOnStick`, which is liveness, is not); two sequences show every overlap of
two stretches, and each group of controls that can disturb one part of the state is in some match (the theorems of `RobotProofs` cover
all groups at once, and any number of sequences). The queues of the code have no bound: where
`MaxQueue` blocks an action the code would go on.

Runs that find what the code does not do (each one property that quotes the repository):

| run | the claim | what happens |
|---|---|---|
| `listeners_up` | `ListenerManager.cpp:172` "has this button just stopped being pressed?" | listeners for releases are called on presses |
| `motor_cancel` | `MotorControl.h:82` "stops the speed-setting loop" | a callback in progress re-arms the timer |
| `timer_ids` | `CmdTimerWin32.h:33` "never use the same one twice" | two threads that start timers together share an id |
| `multiplex_destroyed` | `CmdTimerMultiplexTest.cpp:87` "`BOOST_CHECK(!handler.wasCalled());`" once the multiplex is let go | the static map keeps its timers, which go on calling their commands |
| `arm_cocking` | `CockArm.h:43` "Starts the internal arm-control loop if it's not already running" | with `_armEnabled` TRUE (`Configuration.h:14`) `execute()` returns at once and does not arm its timer again |

`ArmFollowsSensor` speaks of a loop that was started and not cancelled since: which of an overlapping `start` and `cancel` ought to win no comment says, so the
races of `CockArm.cpp:52` and `Global.cpp:87` are in the model but not in the property; and it needs Options that enable the loop, unlike the shipped ones.

`EnabledMeansLooping` and `LoopGoesOn` speak of at most one call of `startSpeedControl`, which is what the
robot does; with two they fail (a `setSpeed` that tested the flag before the second
start cancels the new loop). `NeverShared`, which `timer_ids` refutes, is the conclusion of `NoSharedId`: the robot starts
timers from three threads, and `MotorControl::execute` from a fourth, so the condition of `NoSharedId` is not always met.

### Fairness

- Worker, polling and drive threads: weak fairness; the scheduler runs them, and commands end.
- A destructor in progress goes on (`Join`); nobody is obliged to destroy, call, register or move the stick.
- `MotorLink`: strong fairness for callers and timer threads in the middle of a call, because the bounded queue may
  be full again and again where the real one never is.
- `MotorLink`, `LinearAngleTarget` and `Robot` take it from `CmdTimer.h:26-28` that a timer that is set calls back. With `CmdTimerWin32` that needs a thread of
  the host that dispatches messages; which timer class the robot has is chosen in a submodule that is not in the repository.
- `CmdTimerWin32` and `CmdTimerMultiplex`: none.
- `LinearAngleTarget`: `execute` is called again (`LoopGoesOn` of `MotorLink`) and a motor with power turns.
- `Robot`: each thread that has something to do goes on, and the timer calls back (weak fairness). A loop of `AutoConfig` ends, because its time
  passes (strong fairness of `Elapsed`: it is possible again in each turn). Nobody is obliged to enter a mode, press a control or move the shooter.
- `EveryCommandBegun` rests on finitely many `EnqueueFront`s (`MaxCmds`).

## 4. Proofs

Every safety invariant and every action property that a passing run checks is proved, for all values of the constants that the named
assumption allows. Each proof module has an inductive invariant `IInv`, which TLC checked on the bounds of the run before it was proved;
`Invariance` states it, and the theorems whose names end in `Always` (of `CmdProcessor`: those of `PROJECT.json`) follow from it.

| module | proves | assumption |
|---|---|---|
| `CmdProcessorProofs` | all safety properties of `processor`, `ServiceOrder`, the refinement of `ActiveObject` | `ConstAssumption` |
| `ListenerManagerProofs` | `HandlersSeeTheChange`, `QuietCycleDelivers`, `RemovedIsForgotten` | `ControlAssumption`, `BindingAssumption` |
| `MotorLinkProofs` | `NullSafe`, `LastPowerWins`, `EnabledMeansLooping` | `MotorAssumption` |
| `LinearAngleTargetProofs` | the four properties of the arithmetic; `TurnsShortWay`, `NeverLosesGround` | none for the arithmetic, `AngleAssumption` for the loop |
| `CmdTimerWin32Proofs` | `NoSharedId`, `MapMirrorsIDs`, `CancelledIsSilent` | `TimerAssumption` |
| `CmdTimerMultiplexProofs` | `AliveWhenCalled` | none |
| `ArcadeDriveProofs` | `WheelsFollowStick` | `ValueAssumption`, `BoundAssumption` |
| `RobotProofs` | `ListenersMatchMode`, `NoRunaway`, `StopIsHeeded` | `ArmAssumption` |

`CmdProcessorProofs`: the safety properties are not inductive by themselves. That commands are *begun*
in order depends on how the queue is laid out (`QueueShape`: newest front command first, then the
back commands, oldest first, none of which was overtaken), and that none is begun twice on what the thread holds
(`ThreadState`). Lemmas state what the two ends of the queue do to its range. The refinement maps
`waiting` to the range of the queue, `busy` to `current`, `served` to what was begun and is not
`current`, and `open` to `~interrupted`; each action is a step or a stutter of `ActiveObject`.

`ListenerManagerProofs`: `SeenInv` says that the controls not yet visited are the only ones whose old value may still be shown; `KnownInv` that
a lookup, torn or not, finds only who is or will be registered; `QuietInv` where those who are due are at each step of the cycle (still to be
found, found, or called). No proof uses the order in which the loops visit the controls.

`MotorLinkProofs`: `AttachedFirst` puts `setControlledMotor` before everything that can lead to a callback (`NullSafe`). `PowerInv` says where the power
asked for last is: in the queue with no power behind it, or on the Talon (`LastPowerWins`). `OnceInv` follows the one call of `startSpeedControl`:
its command is in one place, and until it is done nobody saw the controller enabled, so nobody is about to cancel it; hence the loop
runs when the flag is set (`EnabledMeansLooping`, itself inductive with this).

`LinearAngleTargetProofs` first proves the four properties of `RobotMath` for all integers, from a lemma on `normalizeAngle` by cases on the sign `fmod`
keeps. The wheel, the encoder and the target stay integers, so they hold in every reachable state. For the loop, `ReadingInv` says that
the error that `execute()` read is off by what the wheel drifted since, up to a full turn, and `AheadInv` that after a power is given there is a way to the target ahead,
in the direction the motor turns, that is not shorter than the threshold less what the wheel has turned since, and hardly longer than half a turn less the same. Both are about
angles modulo a turn, which is why they are existential. What is ahead is negative once the motor has overshot; by how much is bounded by the turn that its power allows,
whatever that is, and this is the bound of `NeverLosesGround`. That motors below it come to rest (`NoOvershoot`) is liveness, and model-checked.

`CmdTimerWin32Proofs`: nothing is assumed of who uses the timers. `ThreadInv` says what each thread has in hand at its step. Whom the map finds under an id has that id
(`CurrentInv`), and a thread that is about to insert a pair has the id of its timer in it (`KeyInv`), both unless the timer is `torn`. A cancelled timer has no id (`SilentInv`), so
no lookup finds it, whatever overlaps. The rest, `QuietInv`, is promised while `disturbed` is false: one thread at a time makes a timer (`OneMaker`), every id of a timer is
marked as used (`UsedInv`), `nextID` is not, except while it is being changed (`FreeInv`), so `SetTimer` is never given an id in use and `insert()` never finds one taken, and a timer with an id is in
the map under it (`FoundInv`). `MotorLink` and `CockArm`, which are written against the interface `CmdTimer`, take of their timers that one which was cancelled does not call
until it is started again; `CancelledIsSilent` is that, with its exception.

`CmdTimerMultiplexProofs`: `AliveWhenCalled` is inductive only with the way a timer goes:
`startTimer` has come as far as the sets of timers say (`Progress`), only timers found in the static map are called
(`CallsRegistered`), which are never taken out of it, and a multiplex that is gone has no timers (`GoneForGood`).

`ArcadeDriveProofs`: nothing is promised while another run of `steerHandler` is certain to begin (`Coming`). From then on nothing is published, so
each step of the last run has read what the stick shows (`LastRun`), and the last power in the queue of a wheel is final. The number of changed
axes bounds the calls still due (`CallInv`).

`RobotProofs` covers every set of matches: every group of controls, every number of
sequences, both classes of timers, both values of the Options. The inductive invariant has three parts, and a step disturbs at most two:
`ArmInv` (a callback that decided to set a power after `stopArmCock()` is the first to do so), `ModeInv` (what is bound at each step of the
thread of WPILib, which is why the flags and the listeners agree when it is done) and `NoRunaway`, which is inductive with the types: a thread no longer
obliged to stop a wheel has just stopped it (`StopsOrStopped`). The module has a lemma for each part and each thread, and `Inductive` puts them together.

Only model-checked: all liveness, which is out of the prover's reach as `ENABLED` is (`EveryCommandBegun`, `DestructorReturns`, `Settles`, `LoopGoesOn`,
`StaysNear`, `ComesToRest`, `SettlesOnStick`, `AutonomousEnds`, `ArmFollowsSensor`). The `TypeOK`s are proved, and left out of the `.cfg`s,
which have the properties that say something of the code.

## 5. Not modelled

`LinearSpeedTarget` (unused; its `speedControlStep` also needs the motor before it is attached), `OpticalDiskEncoder` and `Piston` (not
instantiated), the averaging and conversion of voltages in `MagneticPotEncoder` (doubles; the delegated arguments at
`MagneticPotEncoder.cpp:17-18` are swapped, and ten readings on the seam between 5 V and 0 V average to an angle on the far side),
the gyro, the camera light and the watchdog, `CmdTimerPosix` (`#if 0`), logging, mocks and
tests, floating-point rounding, wall-clock time (the tests of `CmdTimer` are about milliseconds; a press shorter than the 50 ms
between two polls is not seen), and the trigonometry of `SwerveDrive`, which is not instantiated. `setEncoder` and `setSpeedController` of `MotorLink` are called by nothing.

Noted while modelling, without a run: `KillTimer` is not told the window, so a cancelled timer of a window stays in
the system (`CmdTimerWin32.h:113` "Deletes this timer from the OS"), and the static map keeps a timer alive that no
`CmdTimerWin32` points to (`CmdTimerWin32.h:120` "will be cleaned up when last CmdTimerPosix pointing to it is destroyed", `CmdTimer.h:26-27` "unless cancelled or destroyed", and
the test `Deleting`, `CmdTimerTest.cpp:163-178`), both
modelled (`Kill`, `Drop`), the latter with the same cause and effect as `multiplex_destroyed` shows; `MotorLink::setSpeed` clears `_spdControlEnabled` on its caller's thread, though `MotorLink.h:21` says changes
are serialized; `RobotMath.h:28` promises angles "between 0 and 359 degrees" where `normalizeAngle` gives
-179 to 180; one constructor of `MotorLink` (`MotorLink.h:79-80`)
drops its power scale; `setControlTargetImpl` ignores multiples of 180 (modelled);
`speedControlStep` has a gain that is not symmetric and may exceed full power (modelled); the polling thread looks listeners up without the mutex of
which `ListenerManager.h:73` says "when this is locked no one should touch _listeners" (modelled); `steerHandler` compares one reading
of the stick with the threshold and uses the next (modelled, `ArcadeDrive.cpp:33` and `:37`); `CmdTimerMultiplex.h:18-20` says that timers are destroyed
after they fire, but a timer never leaves the
static map (modelled), and the test `Basic` makes a multiplex on the stack, of which `shared_from_this` has no owner; `onTimerFire` logs "Couldn't erase timer" when it did erase it (`CmdTimerMultiplex.cpp:56`); `lightChange`
ignores its parameter (`LightChangeEvent.cpp:13`, modelled); `RelayLink::setOff` drives the relay backwards (modelled as such); `MotorLink.h:116` says that
`setSpeed` sets the speed "except if a speed controller is active", but it then cancels the controller and sets the power (modelled, `SetSpeedCancels` to `SetSpeedEnqueues`); after teleop, disabled,
teleop the lights stay off, since `initializeTeleop` is not called again (modelled); a steady stream of `EnqueueFront` would keep commands at the back from being executed.

## 6. Plan

Done: `CmdProcessor`, `ListenerManager`, `MotorLink`, `LinearAngleTarget`, `CmdTimerWin32`, `ArcadeDrive`, `CmdTimerMultiplex`, `CockArm` and the
composition `Robot`, with the proofs of section 4. Left:

1. `MotorLink`: an abstract motor that executes what it is asked for in order, that it refines, and `setSpeedController`.
