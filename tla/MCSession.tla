------------------------------ MODULE MCSession ------------------------------
(* Small instances of a session: how many packets each direction may carry. *)
EXTENDS SessionProperties

NoPackets  == [d \in {"c2s", "s2c"} |-> 0]
OneWayOne  == [d \in {"c2s", "s2c"} |-> IF d = "c2s" THEN 1 ELSE 0]
OneWayTwo  == [d \in {"c2s", "s2c"} |-> IF d = "c2s" THEN 2 ELSE 0]
==============================================================================
