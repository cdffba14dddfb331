-------------------------- MODULE CmdTimerMultiplexProofs --------------------------
(***************************************************************************)
(* No timer ever calls a multiplex that is gone, for every number of       *)
(* timers.  The reason is that a timer, once started, stays in the static  *)
(* map of CmdTimerWin32, and what is there holds the multiplex.            *)
(***************************************************************************)
EXTENDS CmdTimerMultiplex, TLAPS

(* startTimer has come as far as the sets say.                             *)
Progress ==
    /\ impls = {t \in Timers : start[t] # "new"}
    /\ registered = {t \in Timers : start[t] \in {"registered", "inserted"}}

(* The message loop only calls timers it found in the static map.          *)
CallsRegistered == firing # None => firing.timer \in registered

(* Nothing holds a multiplex that was destroyed.                           *)
GoneForGood == destroyed => ~held /\ impls = {}

IInv == TypeOK /\ Progress /\ CallsRegistered /\ GoneForGood

-------------------------------------------------------------------------------
(* What firing may be.                                                     *)
LEMMA FiringType ==
    /\ None \in Firing
    /\ \A t \in Timers, a \in {"run", "erase"} : [at |-> a, timer |-> t] \in Firing
    /\ \A f \in Firing : f.at \in {"run", "erase"} => f.timer \in Timers /\ f # None
  BY DEF Firing, None

LEMMA InitHolds == Init => IInv
  BY FiringType DEF Init, IInv, TypeOK, Progress, CallsRegistered, GoneForGood, None

LEMMA StepHolds == IInv /\ [Next]_vars => IInv'
<1> SUFFICES ASSUME IInv, [Next]_vars
             PROVE  IInv'
  OBVIOUS
<1> USE DEF IInv, TypeOK, Progress, CallsRegistered, GoneForGood
<1>1. ASSUME NEW t \in Timers, MakeTimer(t)
      PROVE  IInv'
  BY <1>1 DEF MakeTimer
<1>2. ASSUME NEW t \in Timers, SetTimer(t)
      PROVE  IInv'
  BY <1>2 DEF SetTimer
<1>3. ASSUME NEW t \in Timers, Register(t)
      PROVE  IInv'
  BY <1>3 DEF Register
<1>4. ASSUME NEW t \in Timers, Insert(t)
      PROVE  IInv'
  BY <1>4 DEF Insert
<1>5. ASSUME NEW t \in Timers, Fire(t)
      PROVE  IInv'
  BY <1>5, FiringType DEF Fire
<1>6. CASE RunCommand
  <2>1. firing \in [at : {"run", "erase"}, timer : Timers]
    BY <1>6 DEF RunCommand, Firing, None
  <2>2. /\ firing' = [at |-> "erase", timer |-> firing.timer]
        /\ firing.timer \in registered
    BY <1>6, <2>1, FiringType DEF RunCommand
  <2>3. firing' \in Firing /\ firing'.timer = firing.timer
    BY <2>1, <2>2 DEF Firing
  <2> QED
    BY <1>6, <2>2, <2>3 DEF RunCommand
<1>7. CASE Erase
  <2>1. impls' = impls
    BY <1>7 DEF Erase
  <2>2. firing.timer \in registered /\ ~destroyed /\ impls # {}
    BY <1>7, FiringType DEF Erase
  <2>3. ~destroyed' /\ inMap' \subseteq Timers /\ firing' \in Firing
    BY <1>7, <2>1, <2>2, FiringType DEF Erase, Holders
  <2> QED
    BY <1>7, <2>1, <2>3 DEF Erase
<1>8. CASE Reset
  BY <1>8 DEF Reset, Holders
<1>9. CASE UNCHANGED vars
  BY <1>9 DEF vars
<1> QED
  BY <1>1, <1>2, <1>3, <1>4, <1>5, <1>6, <1>7, <1>8, <1>9
  DEF Next, StartTimer, Called

(* The invariant holds for any set of timers.                              *)
THEOREM Invariance == Spec => []IInv
  BY InitHolds, StepHolds, PTL DEF Spec

(* No timer calls, or may yet call, a multiplex that is gone.              *)
THEOREM AlwaysAlive == Spec => []AliveWhenCalled
<1>1. IInv => AliveWhenCalled
  BY DEF IInv, Progress, CallsRegistered, GoneForGood, AliveWhenCalled
<1> QED
  BY <1>1, Invariance, PTL
===============================================================================
