------------------------------ MODULE MCSendPath ------------------------------
(* Small instances of one direction: 64K of buffer in units of 16K bytes (stream) *)
(* or 8K bytes (order, loss).                                                     *)
EXTENDS SendPath
==============================================================================
