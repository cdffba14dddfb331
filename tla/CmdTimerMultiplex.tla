---------------------------- MODULE CmdTimerMultiplex ----------------------------
(***************************************************************************)
(* A set of timers, each for one command: EventManager/CmdTimerMultiplex   *)
(* with the timers of CmdTimerWin32 that report to it, and the             *)
(* shared_ptrs between them.  A timer (a CmdTimerWin32Impl) holds the      *)
(* multiplex; it is held by the static map of CmdTimerWin32, by its        *)
(* wrapper in _timerMap of the multiplex, and while it is called.  Windows *)
(* calls a timer again and again until it is killed, and only the          *)
(* destructor of the timer would do that.                                  *)
(*                                                                         *)
(* A timer stands for the call of startTimer that makes it.  SetTimer is   *)
(* assumed to succeed; CmdTimerWin32.tla has what happens if it does not,  *)
(* and the ids.                                                            *)
(***************************************************************************)
EXTENDS Naturals

CONSTANT Timers     \* calls of startTimer

VARIABLES
    held,       \* some user of the multiplex holds a shared_ptr to it
    start,      \* per timer: the step of startTimer that comes next
    impls,      \* timers that exist
    os,         \* timers that Windows has and calls
    registered, \* timers in the static map _idToTimerMap
    inMap,      \* timers in _timerMap
    firing,     \* the message loop: the timer it calls, and what comes next
    ran,        \* history: timers whose command was executed
    destroyed   \* the multiplex is

vars == <<held, start, impls, os, registered, inMap, firing, ran, destroyed>>

None   == [at |-> "idle"]
Firing == {None} \cup [at : {"run", "erase"}, timer : Timers]

Init ==
    /\ held = TRUE
    /\ start = [t \in Timers |-> "new"]
    /\ impls = {}
    /\ os = {}
    /\ registered = {}
    /\ inMap = {}
    /\ firing = None
    /\ ran = {}
    /\ destroyed = FALSE

-------------------------------------------------------------------------------
(* Who keeps the multiplex: every timer made for it.                       *)
Holders == impls

(* startTimer, on any thread: the timer is made, ...                       *)
MakeTimer(t) ==
    /\ held
    /\ start[t] = "new"
    /\ start' = [start EXCEPT ![t] = "made"]
    /\ impls' = impls \cup {t}
    /\ UNCHANGED <<held, os, registered, inMap, firing, ran, destroyed>>

(* ... set in Windows ...                                                  *)
SetTimer(t) ==
    /\ start[t] = "made"
    /\ start' = [start EXCEPT ![t] = "set"]
    /\ os' = os \cup {t}
    /\ UNCHANGED <<held, impls, registered, inMap, firing, ran, destroyed>>

(* ... and put into the static map (TimerSetTime), ...                     *)
Register(t) ==
    /\ start[t] = "set"
    /\ start' = [start EXCEPT ![t] = "registered"]
    /\ registered' = registered \cup {t}
    /\ UNCHANGED <<held, impls, os, inMap, firing, ran, destroyed>>

(* ... and only then into that of the multiplex.                           *)
Insert(t) ==
    /\ start[t] = "registered"
    /\ start' = [start EXCEPT ![t] = "inserted"]
    /\ inMap' = inMap \cup {t}
    /\ UNCHANGED <<held, impls, os, registered, firing, ran, destroyed>>

StartTimer(t) == MakeTimer(t) \/ SetTimer(t) \/ Register(t) \/ Insert(t)

(* The last user lets go of the multiplex, outside startTimer.  Its        *)
(* destructor destroys _timerMap.                                          *)
Reset ==
    /\ held
    /\ \A t \in Timers : start[t] \in {"new", "inserted"}
    /\ held' = FALSE
    /\ destroyed' = (Holders = {})
    /\ inMap' = IF destroyed' THEN {} ELSE inMap
    /\ UNCHANGED <<start, impls, os, registered, firing, ran>>

-------------------------------------------------------------------------------
(* A message of Windows: TimerHandler looks the timer up, and ignores the  *)
(* message if it does not find it.                                         *)
Fire(t) ==
    /\ firing = None
    /\ t \in os /\ t \in registered
    /\ firing' = [at |-> "run", timer |-> t]
    /\ UNCHANGED <<held, start, impls, os, registered, inMap, ran, destroyed>>

(* operator() has a multiplex: onTimerFire executes the command, whose     *)
(* exception it catches, ...                                               *)
RunCommand ==
    /\ firing.at = "run"
    /\ ran' = ran \cup {firing.timer}
    /\ firing' = [firing EXCEPT !.at = "erase"]
    /\ UNCHANGED <<held, start, impls, os, registered, inMap, destroyed>>

(* ... and erases the timer from _timerMap, if it is there.  A timer that  *)
(* nobody holds any more is destroyed, and with the last one the           *)
(* multiplex.                                                              *)
Erase ==
    /\ firing.at = "erase"
    /\ firing' = None
    /\ inMap' = inMap \ {firing.timer}
    /\ impls' = {t \in impls : t \in registered \cup inMap'
                                 \/ start[t] \in {"made", "set", "registered"}}
    /\ destroyed' = (destroyed \/ (~held /\ Holders' = {}))
    /\ UNCHANGED <<held, start, os, registered, ran>>

Called == RunCommand \/ Erase

Next == \/ \E t \in Timers : StartTimer(t) \/ Fire(t)
        \/ Called
        \/ Reset

Spec == Init /\ [][Next]_vars

-------------------------------------------------------------------------------
TypeOK ==
    /\ held \in BOOLEAN
    /\ start \in [Timers -> {"new", "made", "set", "registered", "inserted"}]
    /\ impls \subseteq Timers
    /\ os \subseteq Timers
    /\ registered \subseteq Timers
    /\ inMap \subseteq Timers
    /\ firing \in Firing
    /\ ran \subseteq Timers
    /\ destroyed \in BOOLEAN

(* onTimerFire is never called on a multiplex that is gone: as long as     *)
(* Windows may call a timer of it, or is calling one, it exists, whoever   *)
(* let go of it (CmdTimerMultiplex.cpp:25, CmdTimerWin32.cpp:131).  Since  *)
(* a timer never leaves the static map, it exists for ever: which is also  *)
(* why the property after this one fails.                                  *)
AliveWhenCalled ==
    destroyed => registered = {} /\ firing = None

(* "TimersStopWhenContainerIsDestroyed" (CmdTimerMultiplexTest.cpp:71-89,  *)
(* which ends in BOOST_CHECK(!handler.wasCalled())): once the user let go  *)
(* of the multiplex, none of its timers is called, to execute its command. *)
(* A call already in progress then may go on.                              *)
TimersStopWhenDestroyed == [][firing = None /\ firing' # None => held]_vars
===============================================================================
