------------------------------- MODULE MCFaults -------------------------------
(* Small instances of the control plane and the anomaly engine: four knobs, two *)
(* of them with a convenience key; bodies at, below and above the limits, below *)
(* zero, beyond a word and with a rate that is no number.                       *)
EXTENDS Faults, TLC

Symmetric == Permutations(Session)

Limits == [latency |-> 2, jitter |-> 1, drop |-> 2, stall |-> 2]

Keys4(latency, jitter, drop, stall) ==
  [latency |-> latency, jitter |-> jitter, drop |-> drop, stall |-> stall]

Posted(c2s, s2c, both) ==
  [key \in Dir \cup {"both"} |-> IF key = "c2s" THEN c2s ELSE IF key = "s2c" THEN s2c ELSE both]

None == Keys4(0, 0, 0, 0)
SomeBodies ==
  {Posted(Keys4(1, 0, 0, 1), Keys4(-1, 9, 0, 3), None),
   Posted(Keys4(16, 1, 1, 0), Keys4(1, 0, -1, 0), Keys4(17, 0, 0, 0)),
   Posted(None, Keys4(0, 0, 0, NaN), Keys4(0, 0, 2, 0))}
==============================================================================
