------------------------------ MODULE Telemetry ------------------------------
(***************************************************************************)
(* What the process tells about itself: handlers on the event loop's thread *)
(* log an event and then count it; other threads log too, and the control   *)
(* server's renders the metrics, all at the same time.                      *)
(***************************************************************************)
EXTENDS Logger, Metrics

allVars == <<vars, metricsVars>>

TelemetryInit == Init /\ MetricsInit

\* onConnectComplete, onConnectTimeout: a WARN, then the counter
InfoOfFailure == Log("Info") /\ Failing /\ UNCHANGED <<cellVars, renderVars>>   \* mutant
WarnOfFailure == Log("Warn") /\ Failing /\ UNCHANGED <<cellVars, renderVars>>

\* processClientData, processServerData: a DEBUG entry, then counter and histogram
DebugOfDelay ==
  /\ Log("Debug") /\ \E ms \in Latencies : Delaying(ms)
  /\ UNCHANGED <<cellVars, renderVars>>

\* An entry of any thread that comes with none of these counts.
OtherEntry == (\E level \in Level : Log(level)) /\ UNCHANGED metricsVars

TelemetryNext ==
  \/ WarnOfFailure \/ DebugOfDelay \/ OtherEntry
  \/ (Cells \/ Render) /\ UNCHANGED vars

TelemetrySpec == TelemetryInit /\ [][TelemetryNext]_allVars

\* Types, and the sizes of the queues.
TelemetryTypeOK == TypeOK /\ MetricsTypeOK

IsWarn(e) == e.level = "Warn"

\* A failed connect that a page counts can be read about in the live queue: its WARN
\* was written before, and no pressure has pruned it, unless the queue was full of
\* WARN and ERROR entries by then (Session.cpp:98-100, Logger.cpp:38-43).
FailuresAreWarned ==
  \/ page.failures <= Cardinality({e \in ToSet(live) : IsWarn(e)})
  \/ Len(live) = LiveMax /\ \A e \in ToSet(live) : IsSevere(e)
==============================================================================
