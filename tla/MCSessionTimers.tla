--------------------------- MODULE MCSessionTimers ---------------------------
(* Small instances: timeouts of two ticks, and a timer for each of a connect, *)
(* its success and three activities.                                          *)
EXTENDS SessionTimers
==============================================================================
