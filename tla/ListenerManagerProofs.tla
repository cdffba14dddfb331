------------------------ MODULE ListenerManagerProofs ------------------------
(***************************************************************************)
(* Safety of the polling of a joystick, for any controls, listeners and    *)
(* bindings, and whatever clients register or remove meanwhile.            *)
(*                                                                         *)
(* The proofs never use in which order the loops visit the controls.       *)
(***************************************************************************)
EXTENDS ListenerManager, TLAPS

(* While the vectors are overwritten, what was not visited yet is what is  *)
(* left to do.                                                             *)
SeenInv ==
    /\ pc = "update" => \A c \in Controls \ todo : values[c] = newValues[c]
    /\ pc = "invoke" => \A c \in Controls : values[c] = newValues[c]

(* All who may be found, were found or were called.                        *)
KnownInv ==
    /\ Registered(listeners) \cup Registered(edited) \subseteq known
    /\ RemovedIsForgotten

(* Where those who are due are: a cycle in which no client came between    *)
(* has yet to look them up, has yet to call them, or called them.          *)
QuietInv ==
    quiet =>
        /\ pc = "scan" =>
              /\ ~locked
              /\ due \subseteq toInvoke \cup UNION {ListenersOf(listeners, k) : k \in todo}
        /\ pc \in {"update", "invoke"} => due \subseteq toInvoke \cup invoked
        /\ pc = "wait" => due \subseteq invoked

IInv == TypeOK /\ SeenInv /\ KnownInv /\ QuietInv

-------------------------------------------------------------------------------
(* Readings stay readings when one control is copied or moved.             *)
LEMMA PadCopied ==
    ASSUME NEW p \in PadState, NEW q \in PadState, NEW c
    PROVE  [p EXCEPT ![c] = q[c]] \in PadState
  BY DEF PadState

LEMMA PadMoved ==
    ASSUME NEW p \in PadState, NEW c \in Controls, NEW v \in Reading(c)
    PROVE  [p EXCEPT ![c] = v] \in PadState
<1>1. v \in {0, 1} \cup AxisValues
  BY DEF Reading
<1> QED
  BY <1>1 DEF PadState

LEMMA KeysOfControls ==
    /\ Controls \subseteq Key
    /\ ChangedKeys \subseteq Key
    /\ Pressed \cup Moved \subseteq ChangedKeys
  BY DEF ChangedKeys, Pressed, Moved, Key, Controls

(* What a lookup may find is registered, or about to be.                   *)
LEMMA FoundIsRegistered ==
    ASSUME NEW k, NEW found \in Found(k)
    PROVE  /\ found \subseteq Listeners
           /\ found \subseteq Registered(listeners) \cup Registered(edited)
<1>1. found \subseteq ListenersOf(listeners, k) \cup ListenersOf(edited, k)
  BY DEF Found
<1>2. \A map : ListenersOf(map, k) \subseteq Listeners
  BY DEF ListenersOf
<1>3. ASSUME NEW map, NEW l \in ListenersOf(map, k)
      PROVE  l \in Registered(map)
  <2>1. <<k, l>> \in map /\ <<k, l>>[2] = l
    BY <1>3 DEF ListenersOf
  <2> QED
    BY <2>1 DEF Registered
<1> QED
  BY <1>1, <1>2, <1>3

LEMMA RegisteredListeners ==
    ASSUME NEW map, map \subseteq Bindings
    PROVE  Registered(map) \subseteq Listeners
  BY BindingAssumption DEF Registered, BindingAssumption

(* What clients may make of the listeners.                                 *)
LEMMA ClientEdits ==
    ASSUME TypeOK, Client
    PROVE  \E result \in SUBSET Bindings : Edit(result)
  BY DEF TypeOK, Client, AddListener, RemoveAllListenersForControl, RemoveAllListeners

-------------------------------------------------------------------------------
LEMMA TypeStep ==
    ASSUME TypeOK, [Next]_vars
    PROVE  TypeOK'
<1> USE DEF TypeOK, client, history
<1>1. CASE Move
  <2>1. pad' \in PadState
    BY <1>1, PadMoved DEF Move
  <2> QED
    BY <1>1, <2>1 DEF Move
<1>2. CASE Client
  <2>1. PICK result \in SUBSET Bindings : Edit(result)
    BY <1>2, ClientEdits
  <2> QED
    BY <2>1, RegisteredListeners DEF Edit
<1>3. CASE EditDone
  BY <1>3 DEF EditDone
<1>4. CASE Poll
  <2>1. newValues' \in PadState
    BY <1>4, PadCopied DEF Poll
  <2> QED
    BY <1>4, <2>1 DEF Poll
<1>5. CASE Compare
  <2>1. todo' \subseteq Key
    BY <1>5, KeysOfControls DEF Compare
  <2>2. due' \subseteq Listeners
    BY <1>5 DEF Compare, ListenersOf
  <2>3. known' \subseteq Listeners
    BY <1>5, RegisteredListeners DEF Compare
  <2> QED
    BY <1>5, <2>1, <2>2, <2>3 DEF Compare
<1>6. CASE Lookup
  <2>1. toInvoke' \subseteq Listeners
    BY <1>6, FoundIsRegistered DEF Lookup
  <2> QED
    BY <1>6, <2>1 DEF Lookup
<1>7. CASE LookupCrashes \/ ScanDone
  BY <1>7, KeysOfControls DEF LookupCrashes, ScanDone
<1>8. CASE Update
  <2>1. values' \in PadState
    BY <1>8, PadCopied DEF Update
  <2> QED
    BY <1>8, <2>1 DEF Update
<1>9. CASE Invoke \/ InvokeDone
  BY <1>9 DEF Invoke, InvokeDone
<1>10. CASE Wake \/ WaitThrows
  BY <1>10, KeysOfControls DEF Wake, WaitThrows
<1>11. CASE Interrupt \/ Join
  BY <1>11 DEF Interrupt, Join
<1>12. CASE UNCHANGED vars
  BY <1>12 DEF vars
<1> QED
  BY <1>1, <1>2, <1>3, <1>4, <1>5, <1>6, <1>7, <1>8, <1>9, <1>10, <1>11, <1>12
     DEF Next, Thread

-------------------------------------------------------------------------------
(* Clients, the driver and the owner leave the thread's own variables      *)
(* alone.                                                                  *)
LEMMA OthersLeaveThread ==
    ASSUME TypeOK, Move \/ Client \/ EditDone \/ Interrupt \/ Join \/ UNCHANGED vars
    PROVE  UNCHANGED <<values, pc, todo, newValues, toInvoke, invoked, due>>
<1>1. CASE Client
  BY <1>1, ClientEdits DEF Edit
<1> QED
  BY <1>1 DEF Move, EditDone, Interrupt, Join, history, vars

LEMMA SeenStep ==
    ASSUME TypeOK, SeenInv, [Next]_vars
    PROVE  SeenInv'
<1> USE DEF SeenInv, client, history
<1>1. CASE Move \/ Client \/ EditDone \/ Interrupt \/ Join \/ UNCHANGED vars
  BY <1>1, OthersLeaveThread
<1>2. CASE Update
  <2> DEFINE c == First(todo)
  <2>1. /\ values' = [values EXCEPT ![c] = newValues[c]]
        /\ todo' = todo \ {c}
        /\ newValues' = newValues
        /\ pc = "update"
        /\ pc' = IF todo' = {} THEN "invoke" ELSE "update"
    BY <1>2 DEF Update
  <2> HIDE DEF c
  <2>2. ASSUME NEW d \in Controls \ todo'
        PROVE  values'[d] = newValues'[d]
    <3>1. DOMAIN values = Controls
      BY DEF TypeOK, PadState
    <3>2. CASE d = c
      BY <2>1, <3>1, <3>2
    <3>3. CASE d # c
      BY <2>1, <2>2, <3>1, <3>3
    <3> QED
      BY <3>2, <3>3
  <2> QED
    BY <2>1, <2>2
<1>3. CASE ScanDone
  BY <1>3 DEF ScanDone
<1>4. CASE Invoke
  BY <1>4 DEF Invoke
<1>5. CASE Poll \/ Compare \/ Lookup \/ LookupCrashes \/ InvokeDone \/ Wake \/ WaitThrows
  BY <1>5 DEF Poll, Compare, Lookup, LookupCrashes, InvokeDone, Wake, WaitThrows
<1> QED
  BY <1>1, <1>2, <1>3, <1>4, <1>5 DEF Next, Thread

-------------------------------------------------------------------------------
LEMMA KnownStep ==
    ASSUME TypeOK, KnownInv, [Next]_vars
    PROVE  KnownInv'
<1> USE DEF KnownInv, RemovedIsForgotten, client, history
<1>1. CASE Client
  <2>1. PICK result \in SUBSET Bindings : Edit(result)
    BY <1>1, ClientEdits
  <2> QED
    BY <2>1 DEF Edit
<1>2. CASE EditDone
  <2>1. Registered({}) = {}
    BY DEF Registered
  <2> QED
    BY <1>2, <2>1 DEF EditDone
<1>3. CASE Compare
  BY <1>3 DEF Compare
<1>4. CASE Lookup
  <2>1. toInvoke' \subseteq toInvoke \cup Registered(listeners) \cup Registered(edited)
    BY <1>4, FoundIsRegistered DEF Lookup
  <2> QED
    BY <1>4, <2>1 DEF Lookup
<1>5. CASE Invoke
  BY <1>5 DEF Invoke
<1>6. CASE Poll \/ LookupCrashes \/ ScanDone \/ Update \/ InvokeDone \/ Wake \/ WaitThrows
  BY <1>6 DEF Poll, LookupCrashes, ScanDone, Update, InvokeDone, Wake, WaitThrows
<1>7. CASE Move \/ Interrupt \/ Join \/ UNCHANGED vars
  BY <1>7 DEF Move, Interrupt, Join, vars
<1> QED
  BY <1>1, <1>2, <1>3, <1>4, <1>5, <1>6, <1>7 DEF Next, Thread

-------------------------------------------------------------------------------
(* Without a change nobody is due.                                         *)
LEMMA NothingDue ==
    ASSUME TypeOK, newValues = values
    PROVE  Pressed \cup Moved = {}
  BY DEF Pressed, Moved

LEMMA QuietStep ==
    ASSUME TypeOK, QuietInv, [Next]_vars
    PROVE  QuietInv'
<1> SUFFICES ASSUME quiet'
             PROVE  QuietInv'
  BY DEF QuietInv
<1> USE DEF QuietInv, client, history
<1>1. CASE Client
  <2>1. PICK result \in SUBSET Bindings : Edit(result)
    BY <1>1, ClientEdits
  <2>2. quiet /\ pc # "scan" /\ UNCHANGED <<pc, toInvoke, invoked, due>>
    BY <2>1 DEF Edit
  <2> QED
    BY <2>2
<1>2. CASE EditDone
  <2>1. quiet /\ pc # "scan" /\ UNCHANGED <<pc, toInvoke, invoked, due>>
    BY <1>2 DEF EditDone
  <2> QED
    BY <2>1
<1>3. CASE Compare
  <2>1. /\ due' = UNION {ListenersOf(listeners, k) : k \in Pressed \cup Moved}
        /\ ~locked' /\ listeners' = listeners
    BY <1>3 DEF Compare
  <2>2. CASE newValues = values
    <3>1. pc' = "wait" /\ due' = {}
      BY <1>3, <2>1, <2>2, NothingDue DEF Compare
    <3> QED
      BY <3>1
  <2>3. CASE newValues # values
    <3>1. pc' = "scan" /\ todo' = ChangedKeys
      BY <1>3, <2>3 DEF Compare
    <3>2. due' \subseteq UNION {ListenersOf(listeners', k) : k \in todo'}
      BY <2>1, <3>1, KeysOfControls
    <3> QED
      BY <2>1, <3>1, <3>2
  <2> QED
    BY <2>2, <2>3
<1>4. CASE Lookup
  <2> DEFINE k == First(todo)
  <2>1. /\ quiet /\ pc = "scan" /\ pc' = "scan" /\ ~locked'
        /\ UNCHANGED <<listeners, due>>
        /\ todo' = todo \ {k}
        /\ toInvoke' = toInvoke \cup ListenersOf(listeners, k)
    BY <1>4 DEF Lookup, Found
  <2> HIDE DEF k
  <2>2. ASSUME NEW l \in due
        PROVE  l \in toInvoke' \cup UNION {ListenersOf(listeners', j) : j \in todo'}
    <3>1. l \in toInvoke \/ \E j \in todo : l \in ListenersOf(listeners, j)
      BY <2>1, <2>2
    <3>2. CASE \E j \in todo : l \in ListenersOf(listeners, j)
      <4>1. PICK j \in todo : l \in ListenersOf(listeners, j)
        BY <3>2
      <4>2. CASE j = k
        BY <2>1, <4>1, <4>2
      <4>3. CASE j # k
        BY <2>1, <4>1, <4>3
      <4> QED
        BY <4>2, <4>3
    <3> QED
      BY <2>1, <3>1, <3>2
  <2> QED
    BY <2>1, <2>2
<1>5. CASE ScanDone
  <2>1. due \subseteq toInvoke /\ pc' = "update" /\ UNCHANGED <<due, toInvoke>>
    BY <1>5 DEF ScanDone
  <2> QED
    BY <2>1
<1>6. CASE Update
  BY <1>6 DEF Update
<1>7. CASE Invoke \/ InvokeDone
  BY <1>7 DEF Invoke, InvokeDone
<1>8. CASE Poll \/ LookupCrashes \/ Wake \/ WaitThrows
  BY <1>8 DEF Poll, LookupCrashes, Wake, WaitThrows
<1>9. CASE Move \/ Interrupt \/ Join \/ UNCHANGED vars
  BY <1>9 DEF Move, Interrupt, Join, vars
<1> QED
  BY <1>1, <1>2, <1>3, <1>4, <1>5, <1>6, <1>7, <1>8, <1>9 DEF Next, Thread

-------------------------------------------------------------------------------
LEMMA Initially ==
    ASSUME Init
    PROVE  IInv
<1> USE DEF Init
<1>1. values \in PadState
  BY ControlAssumption DEF PadState, Reading, ControlAssumption
<1>2. TypeOK
  <2>1. pad \in PadState /\ newValues \in PadState
    BY <1>1
  <2>2. todo \subseteq Key
    BY KeysOfControls
  <2> QED
    BY <1>1, <2>1, <2>2 DEF TypeOK
<1>3. SeenInv /\ KnownInv /\ QuietInv
  BY DEF SeenInv, KnownInv, RemovedIsForgotten, Registered, QuietInv
<1> QED
  BY <1>2, <1>3 DEF IInv

(* The inductive invariant, over all steps of ListenerManager.cpp.         *)
THEOREM Invariance == Spec => []IInv
<1>1. Init => IInv
  BY Initially
<1>2. IInv /\ [Next]_vars => IInv'
  BY TypeStep, SeenStep, KnownStep, QuietStep DEF IInv
<1> QED
  BY <1>1, <1>2, PTL DEF Spec

(* Every variable keeps its type; above all, no reading is out of range    *)
(* and no key is looked up that no control has.                            *)
THEOREM TypeCorrect == Spec => []TypeOK
<1>1. IInv => TypeOK
  BY DEF IInv
<1> QED
  BY <1>1, Invariance, PTL

(* A listener that asks getRawBool or getRawDouble for any control reads   *)
(* what this cycle polled, also by the key of a release: run() overwrites  *)
(* the vectors before it calls anybody.                                    *)
THEOREM HandlersSeeTheChangeAlways == Spec => []HandlersSeeTheChange
<1>1. ASSUME IInv, pc = "invoke", NEW b \in Buttons
      PROVE  GetRawBool(b) = newValues[b] /\ GetRawBool(Up(b)) = newValues[b]
  <2>1. values[b] = newValues[b]
    BY <1>1 DEF IInv, SeenInv, Controls
  <2>2. b \in 1..10 /\ Up(b) \notin Buttons /\ Up(b) - 20 = b
    BY ControlAssumption DEF ControlAssumption, Up
  <2> QED
    BY <2>1, <2>2 DEF GetRawBool
<1>2. ASSUME IInv, pc = "invoke", NEW a \in Axes
      PROVE  GetRawDouble(a) = newValues[a]
  BY <1>2 DEF IInv, SeenInv, Controls, GetRawDouble
<1>3. IInv => HandlersSeeTheChange
  BY <1>1, <1>2 DEF HandlersSeeTheChange
<1> QED
  BY <1>3, Invariance, PTL

(* Whoever was registered for a press or a movement when a cycle found it  *)
(* is called in that cycle, if no client came between.                     *)
THEOREM QuietCycleDeliversAlways == Spec => []QuietCycleDelivers
<1>1. IInv => QuietCycleDelivers
  BY DEF IInv, QuietInv, QuietCycleDelivers
<1> QED
  BY <1>1, Invariance, PTL

(* Nobody is called who was not registered at some time since the cycle    *)
(* compared the readings, even if clients are inside the map.              *)
THEOREM RemovedIsForgottenAlways == Spec => []RemovedIsForgotten
<1>1. IInv => RemovedIsForgotten
  BY DEF IInv, KnownInv
<1> QED
  BY <1>1, Invariance, PTL

===============================================================================
