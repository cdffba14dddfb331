-------------------------------- MODULE MCRobot --------------------------------
(* Matches for TLC.                                                        *)
EXTENDS Robot

Match(armEnabled, alliance, periodic, controls, autos) ==
    [armEnabled |-> armEnabled, alliance |-> alliance, periodic |-> periodic,
     controls |-> controls, autos |-> autos]

(* As built: two autonomous threads; the driver steers beside one of them. *)
(* With the loop of the arm: the driver starts, cancels and stops it, or   *)
(* stops it beside an autonomous thread.  And the other controls.          *)
MCMatches == {Match(TRUE, "BLUE", TRUE, {}, 2),
              Match(TRUE, "BLUE", TRUE, {"JOY1X"}, 1),
              Match(FALSE, "RED", FALSE, {"A", "BACK", "START"}, 0),
              Match(FALSE, "RED", TRUE, {"BACK", "START"}, 1),
              Match(FALSE, "RED", TRUE, {"X", "LB", "RB", "JOY1Y"}, 0)}

(* The robot as it is built, and a driver who only uses the shooter.       *)
MCShipped == {Match(TRUE, "BLUE", TRUE, {"A"}, 0)}
===============================================================================
