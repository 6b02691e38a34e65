----------------------------- MODULE MCTelemetry -----------------------------
(* Small instances: a queue of three and a ring of two entries; a histogram of *)
(* two buckets, values in both and in the second only.                        *)
EXTENDS Telemetry

TwoBounds == <<1, 2>>
==============================================================================
