-------------------------- MODULE CmdTimerWin32Proofs --------------------------
(***************************************************************************)
(* What holds of the timers for every number of threads, timers and ids,   *)
(* whatever windows they are set with and whatever ids the system chooses, *)
(* although TimerSetTime locks nothing.                                    *)
(*                                                                         *)
(* A lookup finds no cancelled timer (CurrentInv, KeyInv, SilentInv): this *)
(* needs no assumption on how calls overlap, except that the timer itself  *)
(* was not cancelled in the middle of a start.  Until calls overlap, at    *)
(* most one thread makes a timer, the next id is none of the ids in use    *)
(* and those are in the set of used ids (QuietInv): so the id that a timer *)
(* gets is nobody's, and insert() never finds it taken.                    *)
(***************************************************************************)
EXTENDS CmdTimerWin32, WellFoundedInduction, TLAPS

Ids == IDs \ {MaxID + 1}

(* A thread in the middle of a call has a timer, and no message has id 0.  *)
ThreadInv ==
    /\ \A th \in Threads : at[th] \notin {"idle", "lookup"} => on[th] \in Timers
    /\ at[Pump] = "lookup" => event # 0

(* What is in the map, or about to be, has that id.                        *)
CurrentInv ==
    \A i \in IDs \ {0} : map[i] # None /\ ~torn[map[i]] => timerID[map[i]] = i

KeyInv ==
    \A th \in Threads :
        at[th] = "insert" /\ ~torn[on[th]] => key[th] \in {0, timerID[on[th]]}

(* A cancelled timer has no id.                                            *)
SilentInv == \A t \in Timers : cancelled[t] => timerID[t] = 0

(* As long as nothing overlapped: one thread at most makes a timer, ...    *)
OneMaker ==
    \A a, b \in Threads : at[a] \in Making /\ at[b] \in Making => a = b

(* ... an id is marked as used, or about to be, ...                        *)
UsedInv ==
    \A t \in Timers : timerID[t] # 0 =>
        timerID[t] \in usedIDs \/ \E th \in Threads : on[th] = t /\ at[th] = "used"

(* ... the next id is not, unless it is just being changed, ...            *)
FreeInv == nextID \in usedIDs => \E th \in Threads : at[th] = "bump"

(* ... and a timer that has an id is in the map, or about to be.           *)
FoundInv ==
    /\ \A th \in Threads : at[th] = "insert" => key[th] = timerID[on[th]]
    /\ \A t \in Timers : timerID[t] # 0 =>
          map[timerID[t]] = t \/ \E th \in Threads : on[th] = t /\ at[th] \in Making

QuietInv ==
    /\ OneMaker
    /\ \A t \in Timers : ~torn[t]
    /\ UsedInv
    /\ FreeInv
    /\ FoundInv
    /\ NeverShared

IInv ==
    /\ TypeOK
    /\ ThreadInv
    /\ CurrentInv
    /\ KeyInv
    /\ SilentInv
    /\ ~disturbed => QuietInv

-------------------------------------------------------------------------------
(* The least element of a set of natural numbers.                          *)
LEMMA MinFacts ==
    ASSUME NEW S \in SUBSET Nat, S # {}
    PROVE  Min(S) \in S /\ \A n \in S : Min(S) <= n
<1> DEFINE R == OpToRel(<, Nat)
<1>1. IsWellFoundedOn(R, Nat)
  BY NatLessThanWellFounded
<1>2. \A m, n \in Nat : m < n => <<m, n>> \in R
  BY DEF OpToRel
<1> HIDE DEF R
<1>3. PICK m \in S : \A n \in S : ~(<<n, m>> \in R)
  BY <1>1, WFMin
<1>4. ASSUME NEW n \in S
      PROVE  m <= n
  <2>1. m \in Nat /\ n \in Nat /\ ~(n < m)
    BY <1>2, <1>3
  <2> QED
    BY <2>1
<1> QED
  BY <1>4 DEF Min

(* The ids: those made up, those the system chooses, and 0.                *)
LEMMA IdFacts ==
    /\ 0 \in Ids /\ Ids \subseteq IDs
    /\ SystemIDs \subseteq Ids \ {0}
    /\ \A i \in 1..(MaxID + 1) : i <= MaxID => i \in Ids \ {0}
    /\ 1..(MaxID + 1) \subseteq IDs
    /\ MaxID + 1 \in 1..(MaxID + 1) /\ 1 \in 1..(MaxID + 1)
  BY TimerAssumption, SMT DEF Ids, IDs

(* Where threads go, and who they are.                                     *)
LEMMA GotoFacts ==
    ASSUME TypeOK, NEW th \in Threads, NEW step, NEW t, Goto(th, step, t)
    PROVE  /\ \A other \in Threads : at'[other] = IF other = th THEN step ELSE at[other]
           /\ \A other \in Threads : on'[other] = IF other = th THEN t ELSE on[other]
  BY DEF Goto, TypeOK

LEMMA ThreadFacts == Pump \in Threads /\ Callers \subseteq Threads /\ Pump \notin Callers
  BY TimerAssumption DEF Threads

(* SetTimer returns an id, and the system's timers have a window or a      *)
(* thread, and an id that is not 0.                                        *)
LEMMA SetTimerType ==
    ASSUME TypeOK, NEW th \in Threads, NEW id \in Ids \ {0}, NEW new, SetTimer(th, id, new)
    PROVE  /\ new \in Ids
           /\ os' \subseteq (Threads \cup {"own"}) \X (IDs \ {0})
<1>1. new \in Ids
  BY IdFacts DEF SetTimer
<1>2. \A owner \in Threads \cup {"own"}, i \in Ids \ {0} :
          os \cup {<<owner, i>>} \subseteq (Threads \cup {"own"}) \X (IDs \ {0})
  BY IdFacts DEF TypeOK
<1>3. \/ os' = os
      \/ \E owner \in Threads \cup {"own"}, i \in Ids \ {0} : os' = os \cup {<<owner, i>>}
  BY IdFacts DEF SetTimer
<1> QED
  BY <1>1, <1>2, <1>3 DEF TypeOK

-------------------------------------------------------------------------------
(* A thread that is not making a timer goes on to a step that is not       *)
(* either, or none moves.                                                  *)
Moves(th, step, t) ==
    /\ at[th] \notin Making
    /\ step \in {"idle", "kill", "erase", "lookup", "command"}
    /\ t \in Timers \cup {None}
    /\ step \notin {"idle", "lookup"} => t \in Timers
    /\ step = "lookup" => event' # 0
    /\ Goto(th, step, t)

(* That keeps the types of what it changes, ...                            *)
LEMMA MoveType ==
    ASSUME TypeOK, NEW th \in Threads, NEW step, NEW t, Moves(th, step, t)
    PROVE  /\ at' \in [Threads -> Making \cup {"idle", "kill", "erase", "lookup", "command"}]
           /\ on' \in [Threads -> Timers \cup {None}]
  BY DEF TypeOK, Moves, Goto

(* ... and it keeps everything that depends on who makes a timer.          *)
LEMMA MoveKeeps ==
    ASSUME IInv, NEW th \in Threads, NEW step, NEW t, Moves(th, step, t),
           UNCHANGED <<ids, key, torn, disturbed>>, th # Pump => event' = event
    PROVE  ThreadInv' /\ CurrentInv' /\ KeyInv' /\ (~disturbed' => QuietInv')
<1>1. /\ \A other \in Threads : at'[other] = IF other = th THEN step ELSE at[other]
      /\ \A other \in Threads : on'[other] = IF other = th THEN t ELSE on[other]
  BY GotoFacts DEF Moves, IInv
<1>2. \A other \in Threads :
          /\ at'[other] \in Making <=> at[other] \in Making
          /\ at[other] \in Making => at'[other] = at[other] /\ on'[other] = on[other]
  BY <1>1 DEF Moves, Making
<1>3. ThreadInv'
  BY <1>1, ThreadFacts DEF IInv, ThreadInv, Moves
<1>4. CurrentInv'
  BY DEF IInv, CurrentInv, ids
<1>5. KeyInv'
  BY <1>2 DEF IInv, KeyInv, Making, ids
<1>6. ASSUME ~disturbed
      PROVE  QuietInv'
  <2>1. QuietInv
    BY <1>6 DEF IInv
  <2>2. OneMaker'
    BY <1>2, <2>1 DEF QuietInv, OneMaker
  <2>3. UsedInv'
    <3>1. \A x \in Threads : at[x] = "used" => at'[x] = "used" /\ on'[x] = on[x]
      BY <1>2 DEF Making
    <3> QED
      BY <2>1, <3>1 DEF QuietInv, UsedInv, ids
  <2>4. FreeInv'
    <3>1. \A x \in Threads : at[x] = "bump" => at'[x] = "bump"
      BY <1>2 DEF Making
    <3> QED
      BY <2>1, <3>1 DEF QuietInv, FreeInv, ids
  <2>5. FoundInv'
    <3>1. \A x \in Threads : at'[x] = "insert" => at[x] = "insert" /\ on'[x] = on[x]
      BY <1>2 DEF Making
    <3>2. \A x \in Threads : at[x] \in Making => at'[x] \in Making /\ on'[x] = on[x]
      BY <1>2
    <3> QED
      BY <2>1, <3>1, <3>2 DEF QuietInv, FoundInv, ids
  <2>6. NeverShared' /\ \A x \in Timers : ~torn'[x]
    BY <2>1 DEF QuietInv, NeverShared, ids
  <2> QED
    BY <2>2, <2>3, <2>4, <2>5, <2>6 DEF QuietInv
<1> QED
  BY <1>3, <1>4, <1>5, <1>6

(* So such a step keeps the invariant.                                     *)
LEMMA MoveStep ==
    ASSUME IInv, TypeOK', NEW th \in Threads, NEW step, NEW t, Moves(th, step, t),
           UNCHANGED <<ids, key, history>>, th # Pump => event' = event
    PROVE  IInv'
<1>1. ThreadInv' /\ CurrentInv' /\ KeyInv' /\ (~disturbed' => QuietInv')
  BY MoveKeeps DEF history
<1>2. SilentInv'
  BY DEF IInv, SilentInv, ids, history
<1> QED
  BY <1>1, <1>2 DEF IInv

(* So does a step in which no thread moves.                                *)
LEMMA RestStep ==
    ASSUME IInv, TypeOK', UNCHANGED <<ids, threads, history>>
    PROVE  IInv'
<1>1. ThreadInv' /\ CurrentInv' /\ KeyInv' /\ SilentInv'
  BY DEF IInv, ThreadInv, CurrentInv, KeyInv, SilentInv, ids, threads, history
<1>2. QuietInv => QuietInv'
  BY DEF QuietInv, OneMaker, UsedInv, FreeInv, FoundInv, NeverShared, ids, threads, history
<1> QED
  BY <1>1, <1>2 DEF IInv, history

(* A caller begins to cancel a timer.                                      *)
LEMMA CancelStep ==
    ASSUME IInv, NEW th \in Callers, NEW t \in Timers, Cancel(th, t)
    PROVE  IInv'
<1>1. Moves(th, "kill", t) /\ th \in Threads
  BY ThreadFacts DEF Cancel, At, Moves, Making
<1>2. TypeOK'
  BY <1>1, MoveType DEF Cancel, IInv, TypeOK, ids, history
<1> QED
  BY <1>1, <1>2, MoveStep, Zenon DEF Cancel

(* KillTimer finds a timer, and ends the process, or does not.             *)
LEMMA KillStep ==
    ASSUME IInv, NEW th \in Threads, Kill(th)
    PROVE  IInv'
<1>1. on[th] \in Timers
  BY DEF Kill, At, IInv, ThreadInv
<1>2. Moves(th, "erase", on[th])
  BY <1>1 DEF Kill, At, Moves, Making
<1>3. process' \in {"runs", "exited", "crashed"} /\ os' \subseteq os
  BY DEF Kill, IInv, TypeOK
<1>4. TypeOK'
  BY <1>2, <1>3, MoveType DEF Kill, IInv, TypeOK, ids, history
<1> QED
  BY <1>2, <1>4, MoveStep, Zenon DEF Kill

(* The last user drops a timer, which may cancel it.                       *)
LEMMA DropStep ==
    ASSUME IInv, NEW th \in Callers, NEW t \in Timers, Drop(th, t)
    PROVE  IInv'
<1>1. held' \in [Timers -> BOOLEAN]
  BY DEF Drop, IInv, TypeOK
<1>2. CASE Goto(th, "kill", t)
  <2>1. Moves(th, "kill", t) /\ th \in Threads
    BY <1>2, ThreadFacts DEF Drop, At, Moves, Making
  <2>2. TypeOK'
    BY <1>1, <2>1, MoveType DEF Drop, IInv, TypeOK, ids, history
  <2> QED
    BY <2>1, <2>2, MoveStep, Zenon DEF Drop
<1>3. CASE UNCHANGED <<at, on>>
  <2>1. TypeOK'
    BY <1>1, <1>3 DEF Drop, IInv, TypeOK, ids, history
  <2> QED
    BY <1>3, <2>1, RestStep DEF Drop, threads
<1> QED
  BY <1>2, <1>3 DEF Drop

(* A message arrives.                                                      *)
LEMMA DispatchStep ==
    ASSUME IInv, NEW i \in IDs, Dispatch(i)
    PROVE  IInv'
<1>1. i # 0
  BY DEF Dispatch, IInv, TypeOK
<1>2. Moves(Pump, "lookup", None) /\ Pump \in Threads
  BY <1>1, ThreadFacts DEF Dispatch, At, Moves, Making
<1>3. TypeOK'
  BY <1>2, MoveType DEF Dispatch, IInv, TypeOK, ids, history
<1> QED
  BY <1>2, <1>3, MoveStep, Zenon DEF Dispatch

(* The timer is looked up.                                                 *)
LEMMA LookupStep ==
    ASSUME IInv, Lookup
    PROVE  IInv'
<1> DEFINE step == IF map[event] = None THEN "idle" ELSE "command"
<1>1. map[event] \in Timers \cup {None} /\ 0 \in IDs
  BY IdFacts DEF IInv, TypeOK
<1>2. Moves(Pump, step, map[event]) /\ Pump \in Threads
  BY <1>1, ThreadFacts DEF Lookup, At, Moves, Making
<1>3. TypeOK'
  BY <1>1, <1>2, MoveType DEF Lookup, IInv, TypeOK, ids, history
<1> QED
  BY <1>2, <1>3, MoveStep, Zenon DEF Lookup

(* The command is done, and TimerHandler drops what it kept.               *)
LEMMA CommandReturnsStep ==
    ASSUME IInv, CommandReturns
    PROVE  IInv'
<1>1. on[Pump] \in Timers /\ Pump \in Threads
  BY ThreadFacts DEF CommandReturns, At, IInv, ThreadInv
<1>2. ASSUME NEW step \in {"idle", "kill"}, NEW t, Moves(Pump, step, t)
      PROVE  IInv'
  <2>1. TypeOK'
    BY <1>1, <1>2, MoveType DEF CommandReturns, IInv, TypeOK, ids, history
  <2> QED
    BY <1>1, <1>2, <2>1, MoveStep, Zenon DEF CommandReturns
<1>3. Moves(Pump, "idle", None) \/ Moves(Pump, "kill", on[Pump])
  BY <1>1 DEF CommandReturns, Leave, At, Moves, Making
<1> QED
  BY <1>2, <1>3

-------------------------------------------------------------------------------
(* A timer without an id gets one.  If nothing overlapped, nobody else     *)
(* makes a timer, so every id is marked as used, and the next id is not:   *)
(* it is nobody's.                                                         *)
LEMMA CreateStep ==
    ASSUME IInv, NEW th \in Threads, NEW t \in Timers, process = "runs",
           at[th] \in {"idle", "command"}, Start(th, t), CreateTimer(th, t)
    PROVE  IInv'
<1>1. nextID \in Ids \ {0}
  BY IdFacts DEF CreateTimer, IInv, TypeOK
<1>2. PICK new \in IDs :
          /\ SetTimer(th, nextID, new)
          /\ timerID' = [timerID EXCEPT ![t] = new]
          /\ disturbed' = (disturbed \/ Overlaps(th) \/ ChosenInUse(new))
  BY DEF CreateTimer
<1>3. /\ new \in Ids
      /\ os' \subseteq (Threads \cup {"own"}) \X (IDs \ {0})
  BY <1>1, <1>2, SetTimerType DEF IInv
<1>4. timerID[t] = 0 /\ Goto(th, "used", t)
  BY DEF CreateTimer
<1>5. /\ UNCHANGED <<nextID, usedIDs, map, held, key, event, process, mutexStuck, torn>>
      /\ cancelled' = [cancelled EXCEPT ![t] = FALSE]
  BY DEF Start
<1>6. TypeOK'
  <2>1. timerID' \in [Timers -> Ids]
    BY <1>2, <1>3 DEF IInv, TypeOK, Ids
  <2>2. /\ at' \in [Threads -> Making \cup {"idle", "kill", "erase", "lookup", "command"}]
        /\ on' \in [Threads -> Timers \cup {None}]
    BY <1>4 DEF Goto, IInv, TypeOK, Making
  <2>3. disturbed' \in BOOLEAN
    BY <1>2
  <2>4. cancelled' \in [Timers -> BOOLEAN]
    BY <1>5 DEF IInv, TypeOK
  <2> QED
    BY <1>3, <1>5, <2>1, <2>2, <2>3, <2>4 DEF IInv, TypeOK, Ids
<1>7. /\ \A other \in Threads : at'[other] = IF other = th THEN "used" ELSE at[other]
      /\ \A other \in Threads : on'[other] = IF other = th THEN t ELSE on[other]
  BY <1>4, GotoFacts DEF IInv
<1>8. \A x \in Timers : timerID'[x] = IF x = t THEN new ELSE timerID[x]
  BY <1>2 DEF IInv, TypeOK
<1>9. ThreadInv'
  BY <1>5, <1>7, ThreadFacts DEF IInv, ThreadInv
<1>10. CurrentInv'
  <2>1. SUFFICES ASSUME NEW i \in IDs \ {0}, map[i] # None, ~torn[map[i]]
                 PROVE  timerID'[map[i]] = i
    BY <1>5 DEF CurrentInv
  <2>2. map[i] \in Timers /\ timerID[map[i]] = i
    BY <2>1 DEF IInv, TypeOK, CurrentInv
  <2> QED
    BY <1>4, <1>8, <2>1, <2>2
<1>11. KeyInv'
  <2>1. SUFFICES ASSUME NEW x \in Threads, at'[x] = "insert", ~torn[on'[x]]
                 PROVE  key[x] \in {0, timerID'[on'[x]]}
    BY <1>5 DEF KeyInv
  <2>2. x # th /\ at[x] = "insert" /\ on'[x] = on[x] /\ on[x] \in Timers
    BY <1>7, <2>1 DEF IInv, ThreadInv
  <2> QED
    BY <1>4, <1>8, <2>1, <2>2 DEF IInv, KeyInv
<1>12. SilentInv'
  BY <1>5, <1>8 DEF IInv, SilentInv, TypeOK
<1>13. ASSUME ~disturbed'
       PROVE  QuietInv'
  <2>1. QuietInv /\ ~Overlaps(th) /\ ~ChosenInUse(new)
    BY <1>2, <1>13 DEF IInv
  <2>2. \A x \in Threads : at[x] \notin Making
    BY <2>1 DEF Overlaps, Making
  <2>3. nextID \notin usedIDs /\ \A x \in Timers : timerID[x] # 0 => timerID[x] \in usedIDs
    BY <2>1, <2>2 DEF QuietInv, FreeInv, UsedInv, Making
  <2>4. \A x \in Timers : new # 0 => timerID[x] # new
    BY <1>1, <2>1, <2>3 DEF ChosenInUse
  <2>5. OneMaker' /\ \A x \in Timers : ~torn'[x]
    BY <1>5, <1>7, <2>1, <2>2 DEF QuietInv, OneMaker
  <2>6. UsedInv'
    BY <1>5, <1>7, <1>8, <2>3 DEF UsedInv
  <2>7. FreeInv'
    BY <1>5, <2>3 DEF FreeInv
  <2>8. FoundInv'
    <3>1. \A x \in Threads : at'[x] # "insert"
      BY <1>7, <2>2 DEF Making
    <3>2. \A x \in Timers : timerID[x] # 0 => map[timerID[x]] = x
      BY <2>1, <2>2 DEF QuietInv, FoundInv
    <3>3. on'[th] = t /\ at'[th] \in Making
      BY <1>7 DEF Making
    <3> QED
      BY <1>5, <1>8, <3>1, <3>2, <3>3 DEF FoundInv
  <2>9. NeverShared'
    BY <1>8, <2>1, <2>4 DEF QuietInv, NeverShared
  <2> QED
    BY <2>5, <2>6, <2>7, <2>8, <2>9 DEF QuietInv
<1> QED
  BY <1>6, <1>9, <1>10, <1>11, <1>12, <1>13 DEF IInv

(* A timer with an id is set again, which changes no id.                   *)
LEMMA ResetStep ==
    ASSUME IInv, NEW th \in Threads, NEW t \in Timers, process = "runs",
           at[th] \in {"idle", "command"}, Start(th, t), ResetTimer(th, t)
    PROVE  IInv'
<1>1. timerID[t] \in Ids \ {0}
  BY DEF ResetTimer, IInv, TypeOK, Ids
<1>2. os' \subseteq (Threads \cup {"own"}) \X (IDs \ {0})
  BY <1>1, SetTimerType DEF IInv, ResetTimer
<1>3. Moves(th, "idle", None)
  BY DEF ResetTimer, Moves, Making
<1>4. /\ UNCHANGED <<ids, held, key, event, process, mutexStuck, torn, disturbed>>
      /\ cancelled' = [cancelled EXCEPT ![t] = FALSE]
  BY DEF Start, ResetTimer, ids
<1>5. TypeOK'
  <2>1. cancelled' \in [Timers -> BOOLEAN]
    BY <1>4 DEF IInv, TypeOK
  <2> QED
    BY <1>2, <1>3, <1>4, <2>1, MoveType DEF IInv, TypeOK, ids
<1>6. SilentInv'
  BY <1>4 DEF IInv, SilentInv, TypeOK, ids
<1>7. ThreadInv' /\ CurrentInv' /\ KeyInv' /\ (~disturbed' => QuietInv')
  BY <1>3, <1>4, MoveKeeps
<1> QED
  BY <1>5, <1>6, <1>7 DEF IInv

(* A start does one or the other.                                          *)
LEMMA StartRelativeStep ==
    ASSUME IInv, NEW th \in Callers, NEW t \in Timers, StartRelative(th, t)
    PROVE  IInv'
<1>1. th \in Threads
  BY ThreadFacts
<1> QED
  BY <1>1, CreateStep, ResetStep DEF StartRelative, Start, At

LEMMA CommandRestartsStep ==
    ASSUME IInv, CommandRestarts
    PROVE  IInv'
<1>1. Pump \in Threads /\ on[Pump] \in Timers
  BY ThreadFacts DEF CommandRestarts, At, IInv, ThreadInv
<1> QED
  BY <1>1, CreateStep, ResetStep DEF CommandRestarts, Start, At

-------------------------------------------------------------------------------
(* A thread that makes a timer, and goes on to the next step of it.        *)
Makes(th, step, next) ==
    /\ at[th] = step /\ step \in Making
    /\ next \in Making
    /\ Goto(th, next, on[th])

LEMMA MakesFacts ==
    ASSUME IInv, NEW th \in Threads, NEW step, NEW next, Makes(th, step, next)
    PROVE  /\ at' \in [Threads -> Making \cup {"idle", "kill", "erase", "lookup", "command"}]
           /\ on' = on
           /\ \A other \in Threads : at'[other] = IF other = th THEN next ELSE at[other]
           /\ \A other \in Threads : at'[other] \in Making <=> at[other] \in Making
           /\ event' = event => ThreadInv'
           /\ on[th] \in Timers
<1>1. /\ \A other \in Threads : at'[other] = IF other = th THEN next ELSE at[other]
      /\ on' = on
  BY DEF Makes, Goto, IInv, TypeOK
<1>2. at' \in [Threads -> Making \cup {"idle", "kill", "erase", "lookup", "command"}]
  BY DEF Makes, Goto, IInv, TypeOK
<1>3. on[th] \in Timers
  BY DEF Makes, Making, IInv, ThreadInv
<1>4. event' = event => ThreadInv'
  BY <1>1, <1>3, ThreadFacts DEF Makes, Making, IInv, ThreadInv
<1> QED
  BY <1>1, <1>2, <1>3, <1>4 DEF Makes

(* If nothing overlapped, no other thread makes a timer.                   *)
LEMMA Alone ==
    ASSUME IInv, ~disturbed, NEW th \in Threads, at[th] \in Making
    PROVE  \A other \in Threads : other # th => at[other] \notin Making
  BY DEF IInv, QuietInv, OneMaker

(* The id of a new timer is marked as used.                                *)
LEMMA MarkUsedStep ==
    ASSUME IInv, NEW th \in Threads, MarkUsed(th)
    PROVE  IInv'
<1>1. Makes(th, "used", "bump")
  BY DEF MarkUsed, At, Makes, Making
<1>2. /\ UNCHANGED <<nextID, map, timerID, held, os, key, event, process, mutexStuck, history>>
      /\ usedIDs' = usedIDs \cup {timerID[on[th]]}
  BY DEF MarkUsed
<1>3. /\ on' = on
      /\ \A other \in Threads : at'[other] = IF other = th THEN "bump" ELSE at[other]
      /\ \A other \in Threads : at'[other] \in Making <=> at[other] \in Making
      /\ ThreadInv'
      /\ on[th] \in Timers
  BY <1>1, <1>2, MakesFacts
<1>4. TypeOK'
  <2>1. timerID[on[th]] \in IDs \ {MaxID + 1}
    BY <1>3 DEF IInv, TypeOK
  <2> QED
    BY <1>1, <1>2, <1>3, <2>1, MakesFacts DEF IInv, TypeOK, history
<1>5. CurrentInv' /\ KeyInv' /\ SilentInv'
  BY <1>2, <1>3 DEF IInv, CurrentInv, KeyInv, SilentInv, history
<1>6. ASSUME ~disturbed
      PROVE  QuietInv'
  <2>1. QuietInv
    BY <1>6 DEF IInv
  <2>2. OneMaker' /\ (\A x \in Timers : ~torn'[x]) /\ NeverShared'
    BY <1>2, <1>3, <2>1 DEF QuietInv, OneMaker, NeverShared, history
  <2>3. UsedInv'
    <3>1. \A x \in Threads : at[x] = "used" => x = th \/ at'[x] = "used"
      BY <1>3
    <3> QED
      BY <1>2, <1>3, <2>1, <3>1 DEF QuietInv, UsedInv
  <2>4. FreeInv'
    BY <1>3 DEF FreeInv
  <2>5. FoundInv'
    BY <1>2, <1>3, <2>1 DEF QuietInv, FoundInv
  <2> QED
    BY <2>2, <2>3, <2>4, <2>5 DEF QuietInv
<1> QED
  BY <1>2, <1>3, <1>4, <1>5, <1>6 DEF IInv, history

(* The next id becomes one that is not marked.                             *)
LEMMA BumpStep ==
    ASSUME IInv, NEW th \in Threads, Bump(th)
    PROVE  IInv'
<1>1. Makes(th, "bump", "register")
  BY DEF Bump, At, Makes, Making
<1>2. UNCHANGED <<usedIDs, map, timerID, held, os, key, event, process, mutexStuck, history>>
  BY DEF Bump
<1>3. /\ on' = on
      /\ \A other \in Threads : at'[other] = IF other = th THEN "register" ELSE at[other]
      /\ \A other \in Threads : at'[other] \in Making <=> at[other] \in Making
      /\ ThreadInv'
  BY <1>1, <1>2, MakesFacts
<1>4. nextID' \in 1..(MaxID + 1) /\ nextID' \notin usedIDs
  <2> DEFINE S == {i \in nextID..(MaxID + 1) : i \notin usedIDs}
  <2>1. nextID \in 1..(MaxID + 1) /\ MaxID \in Nat
    BY TimerAssumption DEF IInv, TypeOK
  <2>2. S \in SUBSET Nat /\ S \subseteq 1..(MaxID + 1)
    BY <2>1
  <2>3. MaxID + 1 \in S
    BY <2>1 DEF IInv, TypeOK
  <2>4. Min(S) \in S
    BY <2>2, <2>3, MinFacts
  <2> QED
    BY <2>2, <2>4 DEF Bump
<1>5. TypeOK'
  BY <1>1, <1>2, <1>3, <1>4, MakesFacts DEF IInv, TypeOK, history
<1>6. CurrentInv' /\ KeyInv' /\ SilentInv'
  BY <1>2, <1>3 DEF IInv, CurrentInv, KeyInv, SilentInv, history
<1>7. ASSUME ~disturbed
      PROVE  QuietInv'
  <2>1. QuietInv
    BY <1>7 DEF IInv
  <2>2. OneMaker' /\ (\A x \in Timers : ~torn'[x]) /\ NeverShared'
    BY <1>2, <1>3, <2>1 DEF QuietInv, OneMaker, NeverShared, history
  <2>3. UsedInv'
    <3>1. \A x \in Threads : at[x] = "used" => at'[x] = "used"
      BY <1>1, <1>3 DEF Makes
    <3> QED
      BY <1>2, <1>3, <2>1, <3>1 DEF QuietInv, UsedInv
  <2>4. FreeInv'
    BY <1>2, <1>4 DEF FreeInv
  <2>5. FoundInv'
    BY <1>2, <1>3, <2>1 DEF QuietInv, FoundInv
  <2> QED
    BY <2>2, <2>3, <2>4, <2>5 DEF QuietInv
<1> QED
  BY <1>2, <1>3, <1>5, <1>6, <1>7 DEF IInv, history

(* The id is read for the pair.                                            *)
LEMMA RegisterStep ==
    ASSUME IInv, NEW th \in Threads, Register(th)
    PROVE  IInv'
<1>1. Makes(th, "register", "insert")
  BY DEF Register, At, Makes, Making
<1>2. /\ UNCHANGED <<ids, held, os, event, process, mutexStuck, history>>
      /\ key' = [key EXCEPT ![th] = timerID[on[th]]]
  BY DEF Register
<1>3. /\ on' = on
      /\ \A other \in Threads : at'[other] = IF other = th THEN "insert" ELSE at[other]
      /\ \A other \in Threads : at'[other] \in Making <=> at[other] \in Making
      /\ ThreadInv'
      /\ on[th] \in Timers
  BY <1>1, <1>2, MakesFacts
<1>4. \A other \in Threads : key'[other] = IF other = th THEN timerID[on[th]] ELSE key[other]
  BY <1>2 DEF IInv, TypeOK
<1>5. TypeOK'
  <2>1. timerID[on[th]] \in IDs
    BY <1>3 DEF IInv, TypeOK
  <2> QED
    BY <1>1, <1>2, <1>3, <2>1, MakesFacts DEF IInv, TypeOK, ids, history
<1>6. CurrentInv' /\ KeyInv' /\ SilentInv'
  BY <1>2, <1>3, <1>4 DEF IInv, CurrentInv, KeyInv, SilentInv, ids, history
<1>7. ASSUME ~disturbed
      PROVE  QuietInv'
  <2>1. QuietInv
    BY <1>7 DEF IInv
  <2>2. OneMaker' /\ (\A x \in Timers : ~torn'[x]) /\ NeverShared'
    BY <1>2, <1>3, <2>1 DEF QuietInv, OneMaker, NeverShared, ids, history
  <2>3. UsedInv'
    <3>1. \A x \in Threads : at[x] = "used" => at'[x] = "used"
      BY <1>1, <1>3 DEF Makes
    <3> QED
      BY <1>2, <1>3, <2>1, <3>1 DEF QuietInv, UsedInv, ids
  <2>4. FreeInv'
    <3>1. \A x \in Threads : at[x] = "bump" => at'[x] = "bump"
      BY <1>1, <1>3 DEF Makes
    <3> QED
      BY <1>2, <2>1, <3>1 DEF QuietInv, FreeInv, ids
  <2>5. FoundInv'
    BY <1>2, <1>3, <1>4, <2>1 DEF QuietInv, FoundInv, ids
  <2> QED
    BY <2>2, <2>3, <2>4, <2>5 DEF QuietInv
<1> QED
  BY <1>2, <1>3, <1>5, <1>6, <1>7 DEF IInv, history

(* The pair is inserted, unless the id is taken: if nothing overlapped, it *)
(* is not.                                                                 *)
LEMMA InsertStep ==
    ASSUME IInv, NEW th \in Threads, Insert(th)
    PROVE  IInv'
<1> DEFINE t == on[th]
           id == key[th]
<1>1. at[th] = "insert" /\ t \in Timers /\ id \in IDs
  BY DEF Insert, At, IInv, ThreadInv, TypeOK
<1>2. /\ UNCHANGED <<nextID, usedIDs, timerID, held, os, event, process, mutexStuck, history>>
      /\ key' = [key EXCEPT ![th] = 0]
      /\ map' = [map EXCEPT ![id] = IF map[id] = None THEN t ELSE map[id]]
  BY DEF Insert
<1> HIDE DEF t, id
<1>3. \A i \in IDs : map'[i] = IF i = id /\ map[i] = None THEN t ELSE map[i]
  BY <1>1, <1>2 DEF IInv, TypeOK
<1>4. PICK step \in {"idle", "kill"}, x \in Timers \cup {None} :
          Goto(th, step, x) /\ (step = "kill" => x \in Timers)
  BY <1>1 DEF Insert, Leave, t
<1>5. /\ \A other \in Threads : at'[other] = IF other = th THEN step ELSE at[other]
      /\ \A other \in Threads : on'[other] = IF other = th THEN x ELSE on[other]
  BY <1>4, GotoFacts DEF IInv
<1>6. TypeOK'
  <2>1. /\ at' \in [Threads -> Making \cup {"idle", "kill", "erase", "lookup", "command"}]
        /\ on' \in [Threads -> Timers \cup {None}]
    BY <1>4 DEF Goto, IInv, TypeOK
  <2>2. map' \in [IDs -> Timers \cup {None}] /\ key' \in [Threads -> IDs]
    BY <1>1, <1>2, IdFacts DEF IInv, TypeOK
  <2> QED
    BY <1>2, <2>1, <2>2 DEF IInv, TypeOK, history
<1>7. ThreadInv'
  BY <1>2, <1>4, <1>5, ThreadFacts DEF IInv, ThreadInv
<1>8. CurrentInv'
  <2>1. SUFFICES ASSUME NEW i \in IDs \ {0}, map'[i] # None, ~torn[map'[i]]
                 PROVE  timerID[map'[i]] = i
    BY <1>2 DEF CurrentInv, history
  <2>2. CASE i = id /\ map[i] = None
    <3>1. map'[i] = t
      BY <1>3, <2>2
    <3>2. id \in {0, timerID[t]}
      BY <1>1, <2>1, <3>1 DEF IInv, KeyInv, t, id
    <3> QED
      BY <2>2, <3>1, <3>2
  <2>3. CASE ~(i = id /\ map[i] = None)
    BY <1>3, <2>1, <2>3 DEF IInv, CurrentInv
  <2> QED
    BY <2>2, <2>3
<1>9. KeyInv'
  <2>1. SUFFICES ASSUME NEW y \in Threads, at'[y] = "insert", ~torn[on'[y]]
                 PROVE  key'[y] \in {0, timerID[on'[y]]}
    BY <1>2 DEF KeyInv, history
  <2>2. y # th /\ at[y] = "insert" /\ on'[y] = on[y] /\ key'[y] = key[y]
    BY <1>2, <1>5, <2>1 DEF IInv, TypeOK
  <2> QED
    BY <2>1, <2>2 DEF IInv, KeyInv
<1>10. SilentInv'
  BY <1>2 DEF IInv, SilentInv, history
<1>11. ASSUME ~disturbed
       PROVE  QuietInv'
  <2>1. QuietInv
    BY <1>11 DEF IInv
  <2>2. /\ \A y \in Threads : y # th => at[y] \notin Making
        /\ \A y \in Threads : at'[y] \notin Making
    BY <1>1, <1>5, <1>11, Alone DEF Making
  <2>3. OneMaker' /\ (\A y \in Timers : ~torn'[y]) /\ NeverShared'
    BY <1>2, <2>1, <2>2 DEF QuietInv, OneMaker, NeverShared, history
  <2>4. UsedInv'
    <3>1. \A y \in Threads : at[y] # "used"
      BY <1>1, <2>2 DEF Making
    <3> QED
      BY <1>2, <2>1, <3>1 DEF QuietInv, UsedInv
  <2>5. FreeInv'
    <3>1. \A y \in Threads : at[y] # "bump"
      BY <1>1, <2>2 DEF Making
    <3> QED
      BY <1>2, <2>1, <3>1 DEF QuietInv, FreeInv
  <2>6. ASSUME NEW y \in Timers, timerID[y] # 0
        PROVE  map'[timerID[y]] = y
    <3>1. timerID[y] \in IDs \ {0}
      BY <2>6 DEF IInv, TypeOK
    <3>2. CASE y = t
      <4>1. timerID[y] = id
        BY <1>1, <2>1, <3>2 DEF QuietInv, FoundInv, t, id
      <4>2. ASSUME map[id] # None
            PROVE  map[id] = y
        <5>1. map[id] \in Timers /\ timerID[map[id]] = id
          BY <2>1, <3>1, <4>1, <4>2 DEF IInv, TypeOK, CurrentInv, QuietInv
        <5> QED
          BY <2>1, <2>6, <4>1, <5>1 DEF QuietInv, NeverShared
      <4> QED
        BY <1>3, <3>1, <3>2, <4>1, <4>2
    <3>3. CASE y # t
      <4>1. map[timerID[y]] = y
        <5>1. \A z \in Threads : on[z] = y => at[z] \notin Making
          BY <2>2, <3>3 DEF t
        <5> QED
          BY <2>1, <2>6, <5>1 DEF QuietInv, FoundInv
      <4>2. y # None
        BY TimerAssumption
      <4> QED
        BY <1>3, <3>1, <4>1, <4>2
    <3> QED
      BY <3>2, <3>3
  <2>7. FoundInv'
    BY <1>2, <2>2, <2>6 DEF FoundInv, Making
  <2> QED
    BY <2>3, <2>4, <2>5, <2>7 DEF QuietInv
<1> QED
  BY <1>2, <1>6, <1>7, <1>8, <1>9, <1>10, <1>11 DEF IInv, history

-------------------------------------------------------------------------------
(* What Cancel erases under the mutex: the id, and what the map has under  *)
(* it.  If nothing overlapped, that is this timer and no other.            *)
LEMMA ErasedStep ==
    ASSUME IInv, NEW th \in Threads, NEW t \in Timers, at[th] = "erase",
           Erased(th, t), map' = [map EXCEPT ![timerID[t]] = None],
           UNCHANGED <<nextID, held, os, key, event, process, mutexStuck>>
    PROVE  IInv'
<1>1. timerID[t] \in IDs /\ timerID[t] # MaxID + 1
  BY DEF IInv, TypeOK
<1>2. /\ \A i \in IDs : map'[i] = IF i = timerID[t] THEN None ELSE map[i]
      /\ \A x \in Timers : timerID'[x] = IF x = t THEN 0 ELSE timerID[x]
      /\ usedIDs' = usedIDs \ {timerID[t]}
      /\ \A x \in Timers : cancelled'[x] = IF x = t THEN TRUE ELSE cancelled[x]
  BY DEF Erased, IInv, TypeOK
<1>3. /\ \A x \in Timers : torn[x] => torn'[x]
      /\ \A x \in Timers : x # t => torn'[x] = torn[x]
      /\ (\E other \in Threads \ {th} : on[other] = t /\ at[other] \in Making) => torn'[t]
  BY DEF Erased, IInv, TypeOK
<1>4. Moves(th, "idle", None)
  BY DEF Erased, Moves, Making
<1>5. /\ \A other \in Threads : at'[other] = IF other = th THEN "idle" ELSE at[other]
      /\ \A other \in Threads : on'[other] = IF other = th THEN None ELSE on[other]
  BY <1>4, GotoFacts DEF Moves, IInv
<1>6. TypeOK'
  <2>1. map' \in [IDs -> Timers \cup {None}] /\ usedIDs' \subseteq IDs \ {MaxID + 1}
    BY <1>1, <1>2 DEF IInv, TypeOK
  <2>2. timerID' \in [Timers -> IDs \ {MaxID + 1}]
    BY IdFacts DEF Erased, IInv, TypeOK, Ids
  <2>3. cancelled' \in [Timers -> BOOLEAN] /\ torn' \in [Timers -> BOOLEAN]
    BY DEF Erased, IInv, TypeOK
  <2>4. disturbed' \in BOOLEAN
    BY DEF Erased
  <2> QED
    BY <1>4, <2>1, <2>2, <2>3, <2>4, MoveType DEF IInv, TypeOK
<1>7. ThreadInv'
  BY <1>5, ThreadFacts DEF IInv, ThreadInv
<1>8. CurrentInv'
  <2>1. SUFFICES ASSUME NEW i \in IDs \ {0}, map'[i] # None, ~torn'[map'[i]]
                 PROVE  timerID'[map'[i]] = i
    BY DEF CurrentInv
  <2>2. i # timerID[t] /\ map'[i] = map[i] /\ map[i] \in Timers
    BY <1>2, <2>1 DEF IInv, TypeOK
  <2>3. timerID[map[i]] = i
    BY <1>3, <2>1, <2>2 DEF IInv, CurrentInv
  <2> QED
    BY <1>2, <2>2, <2>3
<1>9. KeyInv'
  <2>1. SUFFICES ASSUME NEW x \in Threads, at'[x] = "insert", ~torn'[on'[x]]
                 PROVE  key[x] \in {0, timerID'[on'[x]]}
    BY DEF KeyInv
  <2>2. x # th /\ at[x] = "insert" /\ on'[x] = on[x] /\ on[x] \in Timers
    BY <1>5, <2>1 DEF IInv, ThreadInv
  <2>3. on[x] # t
    BY <1>3, <2>1, <2>2 DEF Making
  <2> QED
    BY <1>2, <1>3, <2>1, <2>2, <2>3 DEF IInv, KeyInv
<1>10. SilentInv'
  BY <1>2 DEF IInv, SilentInv
<1>11. ASSUME ~disturbed'
       PROVE  QuietInv'
  <2>1. QuietInv /\ ~Overlaps(th)
    BY <1>11 DEF Erased, IInv
  <2>2. \A x \in Threads : at[x] \notin Making /\ at'[x] \notin Making
    BY <1>5, <2>1 DEF Overlaps, Making
  <2>3. \A x \in Timers : ~torn'[x]
    BY <2>1, <2>2 DEF QuietInv, Erased, IInv, TypeOK
  <2>4. OneMaker'
    BY <2>2 DEF OneMaker
  <2>5. \A x \in Timers : timerID'[x] # 0 =>
            /\ timerID'[x] = timerID[x] /\ timerID[x] # timerID[t]
            /\ timerID[x] \in IDs
    BY <1>2, <2>1 DEF QuietInv, NeverShared, IInv, TypeOK
  <2>6. NeverShared'
    BY <1>2, <2>1 DEF QuietInv, NeverShared
  <2>7. UsedInv'
    <3>1. \A x \in Timers : timerID[x] # 0 => timerID[x] \in usedIDs
      BY <2>1, <2>2 DEF QuietInv, UsedInv, Making
    <3> QED
      BY <1>2, <2>5, <3>1 DEF UsedInv
  <2>8. FreeInv'
    <3>1. nextID \notin usedIDs
      BY <2>1, <2>2 DEF QuietInv, FreeInv, Making
    <3> QED
      BY <1>2, <3>1 DEF FreeInv
  <2>9. FoundInv'
    <3>1. \A x \in Timers : timerID[x] # 0 => map[timerID[x]] = x
      BY <2>1, <2>2 DEF QuietInv, FoundInv
    <3>2. \A x \in Timers : timerID'[x] # 0 => map'[timerID'[x]] = x
      BY <1>2, <2>5, <3>1
    <3> QED
      BY <2>2, <3>2 DEF FoundInv, Making
  <2> QED
    BY <2>3, <2>4, <2>6, <2>7, <2>8, <2>9 DEF QuietInv
<1> QED
  BY <1>6, <1>7, <1>8, <1>9, <1>10, <1>11 DEF IInv

LEMMA EraseStep ==
    ASSUME IInv, NEW th \in Threads, Erase(th)
    PROVE  IInv'
<1>1. at[th] = "erase" /\ on[th] \in Timers
  BY DEF Erase, At, IInv, ThreadInv
<1>2. CASE LastReference(timerID[on[th]])
  <2>1. TypeOK' /\ UNCHANGED <<ids, threads, history>>
    BY <1>2 DEF Erase, IInv, TypeOK, ids, threads, history
  <2> QED
    BY <2>1, RestStep
<1>3. CASE ~LastReference(timerID[on[th]])
  BY <1>1, <1>3, ErasedStep DEF Erase
<1> QED
  BY <1>2, <1>3

(* A process that crashed does nothing more.                               *)
LEMMA CorruptStep ==
    ASSUME IInv, Corrupt
    PROVE  IInv'
<1>1. TypeOK'
  BY DEF Corrupt, IInv, TypeOK, ids, threads, history
<1> QED
  BY <1>1, RestStep DEF Corrupt

(* Initially no timer has an id.                                           *)
LEMMA InitInv == ASSUME Init PROVE IInv
<1>1. TypeOK
  BY IdFacts DEF Init, TypeOK, Ids
<1>2. ThreadInv /\ KeyInv /\ CurrentInv /\ SilentInv
  BY ThreadFacts DEF Init, ThreadInv, KeyInv, CurrentInv, SilentInv
<1>3. QuietInv
  BY DEF Init, QuietInv, OneMaker, UsedInv, FreeInv, FoundInv, NeverShared, Making
<1> QED
  BY <1>1, <1>2, <1>3 DEF IInv

(* Every step keeps the invariants.                                        *)
LEMMA StepInv == ASSUME IInv, [Next]_vars PROVE IInv'
<1>1. ASSUME NEW th \in Callers, NEW t \in Timers,
             StartRelative(th, t) \/ Cancel(th, t) \/ Drop(th, t)
      PROVE  IInv'
  BY <1>1, StartRelativeStep, CancelStep, DropStep
<1>2. ASSUME NEW th \in Threads, Working(th)
      PROVE  IInv'
  BY <1>2, MarkUsedStep, BumpStep, RegisterStep, InsertStep, KillStep, EraseStep DEF Working
<1>3. ASSUME NEW i \in IDs, Dispatch(i)
      PROVE  IInv'
  BY <1>3, DispatchStep
<1>4. CASE Lookup \/ CommandRestarts \/ CommandReturns
  BY <1>4, LookupStep, CommandRestartsStep, CommandReturnsStep
<1>5. CASE Corrupt
  BY <1>5, CorruptStep
<1>6. CASE UNCHANGED vars
  <2>1. TypeOK'
    BY <1>6 DEF vars, ids, threads, history, IInv, TypeOK
  <2> QED
    BY <1>6, <2>1, RestStep DEF vars
<1> QED
  BY <1>1, <1>2, <1>3, <1>4, <1>5, <1>6 DEF Next

(* The invariants hold, whatever overlaps.                                 *)
THEOREM Invariance == Spec => []IInv
<1>1. Init => IInv
  BY InitInv
<1>2. IInv /\ [Next]_vars => IInv'
  BY StepInv
<1> QED
  BY <1>1, <1>2, PTL DEF Spec

(* Every variable keeps its type.                                          *)
THEOREM TypeCorrect == Spec => []TypeOK
<1>1. IInv => TypeOK
  BY DEF IInv
<1> QED
  BY <1>1, Invariance, PTL

(* Until calls overlap no two timers have the same id                      *)
(* (CmdTimerWin32.h:30-33), whoever makes them up and whatever windows     *)
(* they are set with.                                                      *)
THEOREM NoSharedIdAlways == Spec => []NoSharedId
<1>1. IInv => NoSharedId
  BY DEF IInv, QuietInv, NoSharedId
<1> QED
  BY <1>1, Invariance, PTL

(* Until calls overlap a timer that no thread is making is in the map      *)
(* exactly under its id.                                                   *)
THEOREM MapMirrorsIDsAlways == Spec => []MapMirrorsIDs
<1>1. IInv => MapMirrorsIDs
  <2> SUFFICES ASSUME IInv, ~disturbed, NEW t \in Timers,
                      \A th \in Threads : on[th] = t => at[th] \notin Making,
                      NEW i \in IDs \ {0}
               PROVE  map[i] = t <=> timerID[t] = i
    BY DEF MapMirrorsIDs
  <2>1. QuietInv
    BY DEF IInv
  <2>2. ASSUME map[i] = t
        PROVE  timerID[t] = i
    <3>1. t # None
      BY TimerAssumption
    <3> QED
      BY <2>1, <2>2, <3>1 DEF IInv, QuietInv, CurrentInv
  <2>3. ASSUME timerID[t] = i
        PROVE  map[i] = t
    BY <2>1, <2>3 DEF QuietInv, FoundInv
  <2> QED
    BY <2>2, <2>3
<1> QED
  BY <1>1, Invariance, PTL

(* A cancelled timer is not called, however calls overlapped, unless it    *)
(* was cancelled in the middle of being started.                           *)
THEOREM CancelledIsSilentAlways == Spec => CancelledIsSilent
<1> DEFINE A == at[Pump] = "lookup" /\ at'[Pump] = "command" /\ cancelled[on'[Pump]]
                    => torn[on'[Pump]]
<1>1. ASSUME IInv, Lookup
      PROVE  A
  <2>1. event \in IDs \ {0} /\ map[event] \in Timers \cup {None}
    BY <1>1 DEF Lookup, At, IInv, ThreadInv, TypeOK
  <2>2. /\ at'[Pump] = IF map[event] = None THEN "idle" ELSE "command"
        /\ on'[Pump] = map[event]
    BY <1>1, ThreadFacts, GotoFacts DEF Lookup, IInv
  <2>3. SUFFICES ASSUME map[event] # None, ~torn[map[event]]
                 PROVE  ~cancelled[map[event]]
    BY <2>2
  <2>4. timerID[map[event]] = event
    BY <1>1, <2>1, <2>3 DEF IInv, CurrentInv
  <2> QED
    BY <1>1, <2>1, <2>3, <2>4 DEF IInv, SilentInv
<1>2. ASSUME IInv, [Next]_vars, at[Pump] = "lookup", at'[Pump] = "command"
      PROVE  Lookup
  <2>1. \A th \in Threads : \A step, t : Goto(th, step, t) /\ th # Pump => at'[Pump] = at[Pump]
    BY <1>2, ThreadFacts, GotoFacts DEF IInv
  <2>2. ASSUME NEW th \in Callers, NEW t \in Timers,
               StartRelative(th, t) \/ Cancel(th, t) \/ Drop(th, t)
        PROVE  FALSE
    <3>1. th \in Threads /\ th # Pump
      BY ThreadFacts
    <3>2. UNCHANGED <<at, on>> \/ \E step, x : Goto(th, step, x)
      BY <2>2 DEF StartRelative, Start, CreateTimer, ResetTimer, Cancel, Drop
    <3> QED
      BY <1>2, <2>1, <3>1, <3>2
  <2>3. ASSUME NEW th \in Threads, Working(th)
        PROVE  FALSE
    <3>1. th # Pump
      BY <1>2, <2>3 DEF Working, MarkUsed, Bump, Register, Insert, Kill, Erase, At
    <3>2. UNCHANGED <<at, on>> \/ \E step, x : Goto(th, step, x)
      BY <2>3 DEF Working, MarkUsed, Bump, Register, Insert, Leave, Kill, Erase, Erased
    <3> QED
      BY <1>2, <2>1, <3>1, <3>2
  <2>4. ASSUME \/ \E i \in IDs : Dispatch(i)
               \/ CommandRestarts \/ CommandReturns
        PROVE  FALSE
    BY <1>2, <2>4 DEF Dispatch, CommandRestarts, CommandReturns, At
  <2>5. ASSUME Corrupt \/ UNCHANGED vars
        PROVE  FALSE
    BY <1>2, <2>5 DEF Corrupt, vars, threads
  <2> QED
    BY <1>2, <2>2, <2>3, <2>4, <2>5 DEF Next
<1>3. IInv /\ [Next]_vars => [A]_vars
  BY <1>1, <1>2
<1> QED
  BY <1>3, Invariance, PTL DEF Spec, CancelledIsSilent
===============================================================================
