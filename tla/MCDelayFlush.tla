----------------------------- MODULE MCDelayFlush -----------------------------
(* Small instances of the delay queues: three packets at once. *)
EXTENDS DelayFlush, TLC

Jitter     == [d \in {"c2s", "s2c"} |-> 1..3]
\* the two latencies of README.md's example, one twice the other
Asymmetric == [d \in {"c2s", "s2c"} |-> IF d = "c2s" THEN {2} ELSE {1}]

PacketIds  == Permutations(Ids)
==============================================================================
