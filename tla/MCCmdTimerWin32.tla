---------------------------- MODULE MCCmdTimerWin32 ----------------------------
(* Model values for CmdTimerWin32.                                         *)
EXTENDS CmdTimerWin32, TLC

CONSTANTS t1, t2, c1, c2, pump, none

(* One id that the class makes up too, and one that it does not.           *)
MCSystemIDs  == {2, 7}
MCAllWindows == {"own", "none", "foreign"}
MCOwnWindow  == {"own"}

(* Timers and callers are interchangeable, and only safety is checked.     *)
MCSymmetry   == Permutations(Timers) \cup Permutations(Callers)
===============================================================================
