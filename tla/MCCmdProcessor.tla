---------------------------- MODULE MCCmdProcessor ----------------------------
(* Model values and bounds for CmdProcessor.                               *)
EXTENDS CmdProcessor

CONSTANTS c1, c2

MCClients  == {c1, c2}
MCOutcomes == {"returns", "exception", "interrupted", "foreign"}

===============================================================================
