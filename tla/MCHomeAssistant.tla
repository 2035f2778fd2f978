--------------------------- MODULE MCHomeAssistant ---------------------------
(* Model-checking instance of HomeAssistant.                               *)
EXTENDS HomeAssistant, TLC

CONSTANTS t1, t2, p1, p2, none
=============================================================================
