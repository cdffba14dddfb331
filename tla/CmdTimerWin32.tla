----------------------------- MODULE CmdTimerWin32 -----------------------------
(***************************************************************************)
(* src/src/EventManager/CmdTimerWin32.{h,cpp}: timers on top of SetTimer   *)
(* and KillTimer.  All of them share a static map from timer ids to        *)
(* timers, the set of ids in use, and the next id to hand to the system.   *)
(* TimerHandler, called where messages are dispatched, looks the timer up  *)
(* and runs its command; a command may start its own timer again, even     *)
(* after it was cancelled (MotorControl.cpp:81).                           *)
(*                                                                         *)
(* Cancel and TimerHandler lock _mapMutex; TimerSetTime only declares a    *)
(* variable of that name (line 32), so its steps interleave with anything. *)
(*                                                                         *)
(* The system is modelled by what Win32 documents of SetTimer and          *)
(* KillTimer.  A timer belongs to a window, or to the thread that set it,  *)
(* and fires again and again; its messages go to the thread of the window, *)
(* or to the thread that set it.  No thread of src/ dispatches messages:   *)
(* Pump is a thread of the host that does, or of nobody, since nothing is  *)
(* assumed of how often it runs.                                           *)
(***************************************************************************)
EXTENDS Integers, FiniteSets, FiniteSetsExt, Functions

CONSTANTS
    Timers,     \* the CmdTimerWin32Impl objects
    None,       \* no timer
    Callers,    \* threads that start, cancel and drop timers
    Pump,       \* the thread that dispatches messages, and owns the window
    Windows,    \* what GetForegroundWindow may return
    SystemIDs,  \* ids the system may choose for timers without a window
    MaxID       \* bound: ids the class makes up

(* Nothing promises that the system's ids are others than the class makes  *)
(* up; they only end where the model does.                                 *)
ASSUME TimerAssumption ==
    /\ None \notin Timers
    /\ Pump \notin Callers
    /\ "own" \notin Callers \cup {Pump}
    /\ Windows \subseteq {"own", "none", "foreign"}
    /\ MaxID \in Nat \ {0}
    /\ SystemIDs \subseteq Nat \ {0, MaxID + 1}

VARIABLES
    nextID,     \* guaranteedUnusedID
    usedIDs,    \* _usedIDs
    map,        \* _idToTimerMap
    timerID,    \* per timer: _timerID
    held,       \* per timer: a CmdTimerWin32 still points to it
    os,         \* the timers of the system: <<"own" or the thread, id>>
    at,         \* per thread: the step it is about to do
    on,         \* per thread: the timer it is working on
    key,        \* per thread: the id of the pair it is about to insert
    event,      \* the id of the WM_TIMER message being handled
    process,    \* the process: runs, exited or crashed
    mutexStuck, \* _mapMutex is held by a thread that waits for it
    cancelled,  \* history: per timer, cancelled after its last start
    torn,       \* history: per timer, cancelled in the middle of a start
    disturbed   \* history: calls overlapped, or the system chose an id in use

ids     == <<nextID, usedIDs, map, timerID>>
threads == <<at, on, key, event>>
history == <<cancelled, torn, disturbed>>

vars == <<ids, held, os, threads, process, mutexStuck, history>>

IDs     == 0..(MaxID + 1) \cup SystemIDs
Threads == Callers \cup {Pump}

(* The steps of a thread that gives a timer an id, none of them locked.    *)
Making == {"used", "bump", "register", "insert"}

Init ==
    /\ nextID = 1
    /\ usedIDs = {0}
    /\ map = [i \in IDs |-> None]
    /\ timerID = [t \in Timers |-> 0]
    /\ held = [t \in Timers |-> TRUE]
    /\ os = {}
    /\ at = [th \in Threads |-> "idle"]
    /\ on = [th \in Threads |-> None]
    /\ key = [th \in Threads |-> 0]
    /\ event = 0
    /\ process = "runs"
    /\ mutexStuck = FALSE
    /\ cancelled = [t \in Timers |-> TRUE]
    /\ torn = [t \in Timers |-> FALSE]
    /\ disturbed = FALSE

-------------------------------------------------------------------------------
At(th, step) == process = "runs" /\ at[th] = step

Goto(th, step, t) ==
    /\ at' = [at EXCEPT ![th] = step]
    /\ on' = [on EXCEPT ![th] = t]

(* The thread is done with a call.  If it is TimerHandler's and that has   *)
(* the last reference to the timer, ~CmdTimerWin32Impl cancels it.         *)
Leave(th) ==
    IF th # Pump \/ held[on[th]] \/ on[th] \in Range(map')
    THEN Goto(th, "idle", None)
    ELSE Goto(th, "kill", on[th])

(* SetTimer, called by th for whatever window is in front, returns new.    *)
(* With the window of another process it fails.  Without a window it sets  *)
(* the timer without a window that has this id, which it surely finds if   *)
(* th set it, or else it chooses an id.                                    *)
SetTimer(th, id, new) ==
    \/ "own" \in Windows /\ new = id /\ os' = os \cup {<<"own", id>>}
    \/ "foreign" \in Windows /\ new = 0 /\ UNCHANGED os
    \/ /\ "none" \in Windows
       /\ \/ new = id /\ (\E owner \in Threads : <<owner, id>> \in os) /\ UNCHANGED os
          \/ /\ <<th, id>> \notin os
             /\ new \in SystemIDs
             /\ <<th, new>> \notin os
             /\ os' = os \cup {<<th, new>>}

Overlaps(th) == \E other \in Threads \ {th} : at[other] \in Making

ChosenInUse(new) == new \notin {0, nextID} /\ \E t \in Timers : timerID[t] = new

(* StartRelative and TimerSetTime: a timer without an id gets one, ...     *)
CreateTimer(th, t) ==
    /\ timerID[t] = 0
    /\ nextID <= MaxID
    /\ \E new \in IDs :
          /\ SetTimer(th, nextID, new)
          /\ timerID' = [timerID EXCEPT ![t] = new]
          /\ disturbed' = (disturbed \/ Overlaps(th) \/ ChosenInUse(new))
    /\ Goto(th, "used", t)

(* ... and one with an id is set again, whatever SetTimer returns.         *)
ResetTimer(th, t) ==
    /\ timerID[t] # 0
    /\ \E new \in IDs : SetTimer(th, timerID[t], new)
    /\ Goto(th, "idle", None)
    /\ UNCHANGED <<timerID, disturbed>>

Start(th, t) ==
    /\ cancelled' = [cancelled EXCEPT ![t] = FALSE]
    /\ CreateTimer(th, t) \/ ResetTimer(th, t)
    /\ UNCHANGED <<nextID, usedIDs, map, held, key, event, process, mutexStuck, torn>>

StartRelative(th, t) == At(th, "idle") /\ th \in Callers /\ held[t] /\ Start(th, t)

(* Step 1: mark the id as used.                                            *)
MarkUsed(th) ==
    /\ At(th, "used")
    /\ usedIDs' = usedIDs \cup {timerID[on[th]]}
    /\ Goto(th, "bump", on[th])
    /\ UNCHANGED <<nextID, map, timerID, held, os, key, event, process, mutexStuck,
                   history>>

Bump_ByOne(th) ==
    /\ At(th, "bump")
    /\ nextID' = nextID + 1
    /\ Goto(th, "register", on[th])
    /\ UNCHANGED <<usedIDs, map, timerID, held, os, key, event, process, mutexStuck,
                   history>>

(* Step 2: find the next id that is not used.                              *)
Bump(th) ==
    /\ At(th, "bump")
    /\ nextID' = Min({i \in nextID..(MaxID + 1) : i \notin usedIDs})
    /\ Goto(th, "register", on[th])
    /\ UNCHANGED <<usedIDs, map, timerID, held, os, key, event, process, mutexStuck,
                   history>>

Register_UnderNextID(th) ==
    /\ At(th, "register")
    /\ key' = [key EXCEPT ![th] = nextID]
    /\ Goto(th, "insert", on[th])
    /\ UNCHANGED <<ids, held, os, event, process, mutexStuck, history>>

(* Step 3: make a pair of id and timer, ...                                *)
Register(th) ==
    /\ At(th, "register")
    /\ key' = [key EXCEPT ![th] = timerID[on[th]]]
    /\ Goto(th, "insert", on[th])
    /\ UNCHANGED <<ids, held, os, event, process, mutexStuck, history>>

(* ... and insert it, which leaves an id that is in the map alone.         *)
Insert(th) ==
    /\ At(th, "insert")
    /\ map' = [map EXCEPT ![key[th]] = IF @ = None THEN on[th] ELSE @]
    /\ key' = [key EXCEPT ![th] = 0]
    /\ Leave(th)
    /\ UNCHANGED <<nextID, usedIDs, timerID, held, os, event, process, mutexStuck,
                   history>>

-------------------------------------------------------------------------------
Cancel(th, t) ==
    /\ At(th, "idle")
    /\ th \in Callers
    /\ held[t]
    /\ Goto(th, "kill", t)
    /\ UNCHANGED <<ids, held, os, key, event, process, mutexStuck, history>>

(* KillTimer(nullptr, id) finds only timers without a window: surely one   *)
(* that th set, and perhaps one of another thread.  It returns nonzero if  *)
(* it found one, which the code takes for a failure: LOG_FATAL, and,       *)
(* except in unit tests, exit(2) (LogMacros.h:50-57).                      *)
Kill(th) ==
    /\ At(th, "kill")
    /\ LET id == timerID[on[th]]
       IN  \/ \E owner \in Threads :
                 /\ <<owner, id>> \in os
                 /\ os' = os \ {<<owner, id>>}
                 /\ process' = "exited"
           \/ <<th, id>> \notin os /\ UNCHANGED <<os, process>>
    /\ Goto(th, "erase", on[th])
    /\ UNCHANGED <<ids, held, key, event, mutexStuck, history>>

(* The last reference to a timer in the map may be all that is left of it. *)
LastReference(i) ==
    /\ map[i] # None
    /\ ~held[map[i]]
    /\ \A th \in Threads : on[th] # map[i]

Erased(th, t) ==
    /\ usedIDs' = usedIDs \ {timerID[t]}
    /\ timerID' = [timerID EXCEPT ![t] = 0]
    /\ cancelled' = [cancelled EXCEPT ![t] = TRUE]
    /\ torn' = [torn EXCEPT ![t] = @ \/ \E other \in Threads \ {th} :
                                            on[other] = t /\ at[other] \in Making]
    /\ disturbed' = (disturbed \/ Overlaps(th))
    /\ Goto(th, "idle", None)

Erase_KeepsMap(th) ==
    /\ At(th, "erase")
    /\ ~mutexStuck
    /\ Erased(th, on[th])
    /\ UNCHANGED <<nextID, map, held, os, key, event, process, mutexStuck>>

(* The rest of Cancel, under the mutex.  If the erase destroys the timer,  *)
(* the destructor calls Cancel, and locks the mutex again.                 *)
Erase(th) ==
    /\ At(th, "erase")
    /\ ~mutexStuck
    /\ \/ /\ LastReference(timerID[on[th]])
          /\ mutexStuck' = TRUE
          /\ UNCHANGED <<map, usedIDs, timerID, at, on, history>>
       \/ /\ ~LastReference(timerID[on[th]])
          /\ map' = [map EXCEPT ![timerID[on[th]]] = None]
          /\ Erased(th, on[th])
          /\ UNCHANGED mutexStuck
    /\ UNCHANGED <<nextID, held, os, key, event, process>>

(* The last CmdTimerWin32 that points to the timer is destroyed.  If the   *)
(* map and TimerHandler do not refer to it either, ~CmdTimerWin32Impl      *)
(* cancels it.                                                             *)
Drop(th, t) ==
    /\ At(th, "idle")
    /\ held[t]
    /\ \A other \in Callers : on[other] # t
    /\ held' = [held EXCEPT ![t] = FALSE]
    /\ IF t \in Range(map) \/ on[Pump] = t THEN UNCHANGED <<at, on>>
                                           ELSE Goto(th, "kill", t)
    /\ UNCHANGED <<ids, os, key, event, process, mutexStuck, history>>

(* WM_TIMER for an id comes from a timer of the window of this thread, or  *)
(* from one without a window that this thread set.                         *)
Dispatch(i) ==
    /\ At(Pump, "idle")
    /\ <<"own", i>> \in os \/ <<Pump, i>> \in os
    /\ event' = i
    /\ Goto(Pump, "lookup", None)
    /\ UNCHANGED <<ids, held, os, key, process, mutexStuck, history>>

(* TimerHandler: look up the timer, under the mutex; ignore an unknown id. *)
Lookup ==
    /\ At(Pump, "lookup")
    /\ ~mutexStuck
    /\ Goto(Pump, IF map[event] = None THEN "idle" ELSE "command", map[event])
    /\ event' = 0
    /\ UNCHANGED <<ids, held, os, key, process, mutexStuck, history>>

(* The command may set its timer again ...                                 *)
CommandRestarts ==
    /\ At(Pump, "command")
    /\ held[on[Pump]]
    /\ Start(Pump, on[Pump])

(* ... or not; what it throws is caught and logged.                        *)
CommandReturns ==
    /\ At(Pump, "command")
    /\ UNCHANGED <<ids, held, os, key, event, process, mutexStuck, history>>
    /\ Leave(Pump)

(* Two threads at work on the same container, at least one of them without *)
(* the mutex: the set and map are no longer what they were.                *)
Conflict(s1, s2) ==
    \/ s1 \in {"used", "bump"} /\ s2 \in {"used", "bump", "erase"}
    \/ s1 = "insert" /\ s2 \in {"insert", "erase", "lookup"}

Corrupt ==
    /\ process = "runs"
    /\ \E th1, th2 \in Threads : th1 # th2 /\ Conflict(at[th1], at[th2])
    /\ process' = "crashed"
    /\ UNCHANGED <<ids, held, os, threads, mutexStuck, history>>

Working(th) ==
    \/ MarkUsed(th) \/ Bump(th) \/ Register(th) \/ Insert(th)
    \/ Kill(th) \/ Erase(th)

Next ==
    \/ \E th \in Callers, t \in Timers :
          StartRelative(th, t) \/ Cancel(th, t) \/ Drop(th, t)
    \/ \E th \in Threads : Working(th)
    \/ \E i \in IDs : Dispatch(i)
    \/ Lookup \/ CommandRestarts \/ CommandReturns
    \/ Corrupt

Spec == Init /\ [][Next]_vars

-------------------------------------------------------------------------------
TypeOK ==
    /\ nextID \in 1..(MaxID + 1)
    /\ usedIDs \subseteq IDs \ {MaxID + 1}
    /\ map \in [IDs -> Timers \cup {None}]
    /\ timerID \in [Timers -> IDs \ {MaxID + 1}]
    /\ held \in [Timers -> BOOLEAN]
    /\ os \subseteq (Threads \cup {"own"}) \X (IDs \ {0})
    /\ at \in [Threads -> Making \cup {"idle", "kill", "erase", "lookup", "command"}]
    /\ on \in [Threads -> Timers \cup {None}]
    /\ key \in [Threads -> IDs]
    /\ event \in IDs
    /\ process \in {"runs", "exited", "crashed"}
    /\ mutexStuck \in BOOLEAN
    /\ cancelled \in [Timers -> BOOLEAN]
    /\ torn \in [Timers -> BOOLEAN]
    /\ disturbed \in BOOLEAN

(* "we never use the same one twice" (CmdTimerWin32.h:30-33): no two       *)
(* timers have the same id.                                                *)
NeverShared ==
    \A t1, t2 \in Timers :
        t1 # t2 /\ timerID[t1] # 0 => timerID[t1] # timerID[t2]

(* The ids made up are never those of other timers, neither made up nor    *)
(* chosen by the system, as long as no start overlapped another start or a *)
(* cancel and the system did not itself choose an id that was made up: the *)
(* set of used ids is kept so that the search for the next id avoids them. *)
NoSharedId == ~disturbed => NeverShared

(* Then a timer that has an id is found under it as soon as it is started, *)
(* and under no other, whatever is cancelled, set again or dropped, for    *)
(* whatever window.  Id 0, of timers that could not be set, never fires.   *)
MapMirrorsIDs ==
    ~disturbed =>
        \A t \in Timers : (\A th \in Threads : on[th] = t => at[th] \notin Making) =>
            \A i \in IDs \ {0} : map[i] = t <=> timerID[t] = i

(* "Turns off the timer" (CmdTimer.h:57-58): after Cancel() no message     *)
(* still on its way, and none of a timer that the system kept, calls the   *)
(* timer until it is started again; however calls overlapped, unless it    *)
(* was itself cancelled in the middle of being started.                    *)
CancelledIsSilent ==
    [][at[Pump] = "lookup" /\ at'[Pump] = "command" /\ cancelled[on'[Pump]]
          => torn[on'[Pump]]]_vars
===============================================================================
