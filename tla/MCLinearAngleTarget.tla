-------------------------- MODULE MCLinearAngleTarget --------------------------
(* The controllers of the robot (Global.cpp:23-28), and two targets more.  *)
EXTENDS LinearAngleTarget

MCTargets == {90, 200, 180}
MCOffset  == -60

(* A motor that comes to rest and one that overshoots.                     *)
MCFullTurns == {8, 22}
===============================================================================
