------------------------------ MODULE MCMotorLink ------------------------------
(* Model values for MotorLink.                                             *)
EXTENDS MotorLink

CONSTANTS c1, c2, t1, t2

MCSpeeds        == {3}
MCControlSpeeds == {5}
MCOneScalar     == {1}
===============================================================================
