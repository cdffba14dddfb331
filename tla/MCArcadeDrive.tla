----------------------------- MODULE MCArcadeDrive -----------------------------
(* Model values for ArcadeDrive: either axis at rest or far out.  Two      *)
(* commands fit into each queue, so that one may overtake the other.       *)
EXTENDS ArcadeDrive

MCValues == [x |-> {0, 10}, y |-> {0, 10}]
===============================================================================
