-------------------------- MODULE MCCmdTimerMultiplex --------------------------
(* Model values for CmdTimerMultiplex.                                     *)
EXTENDS CmdTimerMultiplex

CONSTANTS t1, t2, t3
===============================================================================
