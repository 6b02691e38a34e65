------------------------------- MODULE MCProxy -------------------------------
(* Small instances of the process: a limit of two sessions, three connections. *)
EXTENDS Proxy
==============================================================================
