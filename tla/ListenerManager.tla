---------------------------- MODULE ListenerManager ----------------------------
(***************************************************************************)
(* src/src/EventManager/ListenerManager.{h,cpp}: a thread polls a joystick *)
(* every 50 ms, compares what it reads with what it read before, and calls *)
(* the listeners registered for what changed.  Other threads register and  *)
(* remove listeners meanwhile.                                             *)
(*                                                                         *)
(* A control has the number the enum Listenable gives it: 1..10 are        *)
(* buttons (the key of a press), 11..15 axes, and the key of a release of  *)
(* button b is b + 20.                                                     *)
(*                                                                         *)
(* addListener and the two remove functions lock _listenersMutex; run()    *)
(* reads _listeners without it.  `std::unique_lock<std::mutex>(_mutex);`   *)
(* declares a variable named _mutex and locks nothing, so nothing guards   *)
(* _buttonValues and _joystickValues either.                               *)
(***************************************************************************)
EXTENDS Naturals

CONSTANTS
    Buttons,     \* the buttons in use
    Axes,        \* the axes in use
    AxisValues,  \* what an axis may read; 0 is its rest position
    Listeners,   \* the listeners (shared_ptrs, compared by address)
    Bindings     \* the <<key, listener>> pairs clients may register

ASSUME ControlAssumption == /\ Buttons \subseteq 1..10
                            /\ Axes \subseteq 11..15
                            /\ AxisValues \subseteq Nat
                            /\ 0 \in AxisValues

Up(b)    == b + 20
Controls == Buttons \cup Axes
Key      == Controls \cup {Up(b) : b \in Buttons}

ASSUME BindingAssumption == Bindings \subseteq Key \X Listeners

Reading(c) == IF c \in Buttons THEN {0, 1} ELSE AxisValues
PadState   == {p \in [Controls -> {0, 1} \cup AxisValues] :
                  \A c \in Controls : p[c] \in Reading(c)}

VARIABLES
    pad,          \* the joystick itself
    values,       \* _buttonValues and _joystickValues
    listeners,    \* _listeners; a listener registered twice counts once
    locked,       \* _listenersMutex is held
    edited,       \* what _listeners will be when it is released
    pc,           \* where the polling thread is in run()
    todo,         \* the controls or keys its current loop has yet to visit
    newValues,    \* local of run()
    toInvoke,     \* listenersToInvoke, less those already called
    interrupted,  \* _waiter was interrupted
    owner,        \* how far the thread that destroys the object is
    invoked,      \* history: listeners called in this cycle
    known,        \* history: listeners registered at some time since the comparison
    due,          \* history: registered for a change when it was detected
    quiet         \* history: no client edited _listeners during the scan

vars == <<pad, values, listeners, locked, edited, pc, todo, newValues,
          toInvoke, interrupted, owner, invoked, known, due, quiet>>

client  == <<listeners, locked, edited>>
history == <<invoked, known, due, quiet>>

(* The listeners registered in a map, and those registered for a key.      *)
Registered(map)  == {binding[2] : binding \in map}
ListenersOf(map, k) == {l \in Listeners : <<k, l>> \in map}

(* The first of a set of controls or keys in the order of the loops: by    *)
(* control, and a press before a release.                                  *)
Rank(k)    == IF k > 20 THEN 2 * (k - 20) + 1 ELSE 2 * k
First(set) == CHOOSE k \in set : \A j \in set : Rank(k) <= Rank(j)

Init ==
    /\ pad \in PadState
    /\ values = [c \in Controls |-> 0]
    /\ listeners = {}
    /\ locked = FALSE
    /\ edited = {}
    /\ pc = "poll"
    /\ todo = Controls
    /\ newValues = values
    /\ toInvoke = {}
    /\ interrupted = FALSE
    /\ owner = "alive"
    /\ invoked = {}
    /\ known = {}
    /\ due = {}
    /\ quiet = TRUE

-------------------------------------------------------------------------------
(* The driver presses, releases or moves something.                        *)
Move ==
    /\ \E c \in Controls : \E v \in Reading(c) : pad' = [pad EXCEPT ![c] = v]
    /\ UNCHANGED <<values, client, pc, todo, newValues, toInvoke, interrupted,
                   owner, history>>

(* A client locks _listenersMutex to make the map `result`, ...            *)
Edit(result) ==
    /\ owner = "alive"
    /\ pc # "crashed"
    /\ ~locked
    /\ locked' = TRUE
    /\ edited' = result
    /\ known' = known \cup Registered(result)
    /\ quiet' = (quiet /\ pc # "scan")
    /\ UNCHANGED <<pad, values, listeners, pc, todo, newValues, toInvoke,
                   interrupted, owner, invoked, due>>

AddListener == \E binding \in Bindings : Edit(listeners \cup {binding})

RemoveAllListenersForControl ==
    \E k \in Key : Edit({binding \in listeners : binding[1] # k})

RemoveAllListeners == Edit({})

(* ... and is done with it.                                                *)
EditDone ==
    /\ locked
    /\ pc # "crashed"
    /\ listeners' = edited
    /\ locked' = FALSE
    /\ edited' = {}
    /\ UNCHANGED <<pad, values, pc, todo, newValues, toInvoke, interrupted,
                   owner, history>>

(* getRawBool and getRawDouble: the key of a release reads its button; the *)
(* wrong kind of key throws.                                               *)
GetRawBool(k) ==
    IF k \in Buttons THEN values[k]
    ELSE IF k - 20 \in Buttons THEN values[k - 20] ELSE "throws"
GetRawDouble(k) == IF k \in Axes THEN values[k] ELSE "throws"

-------------------------------------------------------------------------------
(* pollControls(): one control after the other, while the driver moves.    *)
Poll ==
    /\ pc = "poll"
    /\ LET c == First(todo) IN
         /\ newValues' = [newValues EXCEPT ![c] = pad[c]]
         /\ todo' = todo \ {c}
    /\ pc' = IF todo' = {} THEN "compare" ELSE "poll"
    /\ UNCHANGED <<pad, values, client, toInvoke, interrupted, owner, history>>

Pressed == {b \in Buttons : values[b] = 0 /\ newValues[b] = 1}
Moved   == {a \in Axes : values[a] # newValues[a]}

(* The keys whose listeners are looked up.  The condition for the keys of  *)
(* a release (line 173) is the one for a press (line 157).                 *)
ChangedKeys == Pressed \cup {Up(b) : b \in Pressed} \cup Moved

Compare_MissesAxes ==
    /\ pc = "compare"
    /\ IF \A c \in Buttons : newValues[c] = values[c]
       THEN pc' = "wait" /\ todo' = {}
       ELSE pc' = "scan" /\ todo' = ChangedKeys
    /\ toInvoke' = {}
    /\ due' = UNION {ListenersOf(listeners, k) : k \in Pressed \cup Moved}
    /\ quiet' = ~locked
    /\ invoked' = {}
    /\ known' = Registered(listeners) \cup Registered(edited)
    /\ UNCHANGED <<pad, values, client, newValues, interrupted, owner>>

Compare_KeepsOld ==
    /\ pc = "compare"
    /\ IF newValues = values THEN pc' = "wait" /\ todo' = {}
                             ELSE pc' = "scan" /\ todo' = ChangedKeys
    /\ toInvoke' = invoked
    /\ due' = UNION {ListenersOf(listeners, k) : k \in Pressed \cup Moved}
    /\ quiet' = ~locked
    /\ invoked' = {}
    /\ known' = Registered(listeners) \cup Registered(edited)
    /\ UNCHANGED <<pad, values, client, newValues, interrupted, owner>>

Compare ==
    /\ pc = "compare"
    /\ IF newValues = values THEN pc' = "wait" /\ todo' = {}
                             ELSE pc' = "scan" /\ todo' = ChangedKeys
    /\ toInvoke' = {}
    /\ due' = UNION {ListenersOf(listeners, k) : k \in Pressed \cup Moved}
    /\ quiet' = ~locked
    /\ invoked' = {}
    /\ known' = Registered(listeners) \cup Registered(edited)
    /\ UNCHANGED <<pad, values, client, newValues, interrupted, owner>>

(* What equal_range() may return for a key: what is registered, unless a   *)
(* client is inside the map: then anything that was or will be there.      *)
Found(k) ==
    IF locked
    THEN SUBSET (ListenersOf(listeners, k) \cup ListenersOf(edited, k))
    ELSE {ListenersOf(listeners, k)}

Lookup ==
    /\ pc = "scan"
    /\ todo # {}
    /\ \E found \in Found(First(todo)) : toInvoke' = toInvoke \cup found
    /\ todo' = todo \ {First(todo)}
    /\ UNCHANGED <<pad, values, client, pc, newValues, interrupted, owner,
                   history>>

(* A lookup in a map that is being rehashed or erased from may also follow *)
(* a dangling pointer.                                                     *)
LookupCrashes ==
    /\ pc = "scan"
    /\ todo # {}
    /\ locked
    /\ pc' = "crashed"
    /\ UNCHANGED <<pad, values, client, todo, newValues, toInvoke, interrupted,
                   owner, history>>

ScanDone ==
    /\ pc = "scan"
    /\ todo = {}
    /\ pc' = "update"
    /\ todo' = Controls
    /\ UNCHANGED <<pad, values, client, newValues, toInvoke, interrupted,
                   owner, history>>

Update_SkipsAxes ==
    /\ pc = "update"
    /\ LET c == First(todo) IN
         /\ values' = [values EXCEPT ![c] = IF c \in Axes THEN @ ELSE newValues[c]]
         /\ todo' = todo \ {c}
    /\ pc' = IF todo' = {} THEN "invoke" ELSE "update"
    /\ UNCHANGED <<pad, client, newValues, toInvoke, interrupted, owner,
                   history>>

(* The vectors are overwritten, element by element.                        *)
Update ==
    /\ pc = "update"
    /\ LET c == First(todo) IN
         /\ values' = [values EXCEPT ![c] = newValues[c]]
         /\ todo' = todo \ {c}
    /\ pc' = IF todo' = {} THEN "invoke" ELSE "update"
    /\ UNCHANGED <<pad, client, newValues, toInvoke, interrupted, owner,
                   history>>

(* A listener is called; whatever it throws is caught and logged.          *)
Invoke ==
    /\ pc = "invoke"
    /\ \E l \in toInvoke : /\ toInvoke' = toInvoke \ {l}
                           /\ invoked' = invoked \cup {l}
    /\ UNCHANGED <<pad, values, client, pc, todo, newValues, interrupted,
                   owner, known, due, quiet>>

InvokeDone ==
    /\ pc = "invoke"
    /\ toInvoke = {}
    /\ pc' = "wait"
    /\ UNCHANGED <<pad, values, client, todo, newValues, toInvoke, interrupted,
                   owner, history>>

(* 50 ms have passed: a new cycle.                                         *)
Wake ==
    /\ pc = "wait"
    /\ ~interrupted
    /\ pc' = "poll"
    /\ todo' = Controls
    /\ due' = {}
    /\ quiet' = TRUE
    /\ UNCHANGED <<pad, values, client, newValues, toInvoke, interrupted,
                   owner, invoked, known>>

WaitThrows ==
    /\ pc = "wait"
    /\ interrupted
    /\ pc' = "exited"
    /\ UNCHANGED <<pad, values, client, todo, newValues, toInvoke, interrupted,
                   owner, history>>

-------------------------------------------------------------------------------
(* ~ListenerManager(), called when no other client uses the object any     *)
(* more: interrupt() makes the wait in progress, or else the next one,     *)
(* throw.                                                                  *)
Interrupt_Missed ==
    /\ owner = "alive"
    /\ pc # "crashed"
    /\ ~locked
    /\ interrupted' = (pc = "wait")
    /\ owner' = "joining"
    /\ UNCHANGED <<pad, values, client, pc, todo, newValues, toInvoke, history>>

Interrupt ==
    /\ owner = "alive"
    /\ pc # "crashed"
    /\ ~locked
    /\ interrupted' = TRUE
    /\ owner' = "joining"
    /\ UNCHANGED <<pad, values, client, pc, todo, newValues, toInvoke, history>>

Join ==
    /\ owner = "joining"
    /\ pc = "exited"
    /\ owner' = "destroyed"
    /\ UNCHANGED <<pad, values, client, pc, todo, newValues, toInvoke,
                   interrupted, history>>

Thread == \/ Poll \/ Compare \/ Lookup \/ LookupCrashes \/ ScanDone \/ Update
          \/ Invoke \/ InvokeDone \/ Wake \/ WaitThrows

Client == AddListener \/ RemoveAllListenersForControl \/ RemoveAllListeners

Next == Move \/ Client \/ EditDone \/ Thread \/ Interrupt \/ Join

(* The polling thread runs, edits end, a destructor goes on; the driver    *)
(* and the clients do as they please.                                      *)
Fairness == WF_vars(Thread) /\ WF_vars(EditDone) /\ WF_vars(Join)

Spec == Init /\ [][Next]_vars /\ Fairness

-------------------------------------------------------------------------------
TypeOK ==
    /\ pad \in PadState
    /\ values \in PadState
    /\ listeners \subseteq Bindings
    /\ locked \in BOOLEAN
    /\ edited \subseteq Bindings
    /\ pc \in {"poll", "compare", "scan", "update", "invoke", "wait",
               "exited", "crashed"}
    /\ todo \subseteq Key
    /\ newValues \in PadState
    /\ toInvoke \subseteq Listeners
    /\ interrupted \in BOOLEAN
    /\ owner \in {"alive", "joining", "destroyed"}
    /\ invoked \subseteq Listeners
    /\ known \subseteq Listeners
    /\ due \subseteq Listeners
    /\ quiet \in BOOLEAN

(* A listener that asks for the value of a control is told the one whose   *)
(* change it is called for, not the one before.                            *)
HandlersSeeTheChange ==
    pc = "invoke" => /\ \A b \in Buttons : /\ GetRawBool(b) = newValues[b]
                                           /\ GetRawBool(Up(b)) = newValues[b]
                     /\ \A a \in Axes : GetRawDouble(a) = newValues[a]

(* Whoever was registered for a press or a movement when the cycle found   *)
(* it has been called by the end of the cycle, provided that no client was *)
(* editing the listeners in between.                                       *)
QuietCycleDelivers == pc = "wait" /\ quiet => due \subseteq invoked

(* A listener that was removed is called at most in the cycle that was in  *)
(* progress: nobody is called who was not registered at some time during   *)
(* the present cycle, counted from its comparison.                         *)
RemovedIsForgotten == toInvoke \cup invoked \subseteq known

(* The destructor returns, whatever the thread was doing.                  *)
DestructorReturns == owner = "joining" ~> owner = "destroyed" \/ pc = "crashed"

(* Once the driver holds still, the polled values become what the joystick *)
(* shows and the listeners fall silent: a button that is held down does    *)
(* not fire again and again.                                               *)
Settles ==
    (\E p \in PadState : <>[](pad = p))
        => \/ <>[](values = pad /\ toInvoke = {})
           \/ <>(pc \in {"exited", "crashed"})

-------------------------------------------------------------------------------
(* What comments and tests say, and the code does not do.                  *)

(* "has this button just stopped being pressed?" (ListenerManager.cpp:172; *)
(* ListenerManagerTest.cpp:67-92): listeners registered for releases only  *)
(* are collected when a button was released.                               *)
UpMeansReleased ==
    [][ \A l \in toInvoke' \ toInvoke :
          (\A binding \in listeners \cup edited :
               binding[2] = l => binding[1] > 20)
            => \E b \in Buttons : values[b] = 1 /\ newValues[b] = 0 ]_vars

===============================================================================
