------------------------------- MODULE Metrics -------------------------------
(***************************************************************************)
(* The metrics two threads share without a lock (MetricsRegistry.cpp).  The *)
(* handlers on the event loop's thread count and observe, one atomic cell   *)
(* after another; the control server's thread renders a page for            *)
(* GET /metrics, loading the cells in an order of its own.  Of the counters *)
(* that are a single cell two are here, delayed packets and failed          *)
(* connects; of the histograms, which are alike, the injected latency.      *)
(***************************************************************************)
EXTENDS Naturals

CONSTANTS
  BucketCount,   \* the histogram's buckets
  Bound,         \* and their upper bounds
  Latencies,     \* what observe() is called with
  MaxDelays      \* bound: delayed packets

Bucket == 1 .. BucketCount

ASSUME MetricsAssumption ==
  /\ BucketCount \in Nat \ {0} /\ Bound \in [Bucket -> Nat]
  /\ \A i, j \in Bucket : i < j => Bound[i] < Bound[j]
  /\ Latencies \subseteq Nat /\ MaxDelays \in Nat

VARIABLES
  failures, delayed,      \* connectFailures_, packetsDelayed_
  sum, count, bucket,     \* the cells of latencyHist_
  stage, value, toFill,   \* the loop's thread: what it does next, observe()'s
                          \* argument, and the bucket it is at
  rendering, toRender,    \* the control thread: what it loads next, and the bucket
  page,                   \* what it has rendered
  counted                 \* history: the sum of the values that count_ counts

cellVars   == <<failures, delayed, sum, count, bucket, counted>>
loopVars   == <<stage, value, toFill>>
renderVars == <<rendering, toRender, page>>
metricsVars == <<cellVars, loopVars, renderVars>>

Page == [failures : Nat, delayed : Nat, bucket : [Bucket -> Nat],
         inf : Nat, sum : Nat, count : Nat, counted : Nat]

EmptyPage == [failures |-> 0, delayed |-> 0, bucket |-> [i \in Bucket |-> 0],
              inf |-> 0, sum |-> 0, count |-> 0, counted |-> 0]

MetricsInit ==
  /\ failures = 0 /\ delayed = 0 /\ sum = 0 /\ count = 0 /\ counted = 0
  /\ bucket = [i \in Bucket |-> 0]
  /\ stage = "idle" /\ value = 0 /\ toFill = 1
  /\ rendering = "idle" /\ toRender = 1 /\ page = EmptyPage

-----------------------------------------------------------------------------
(* The event loop's thread. *)

\* A handler has logged what it goes on to count.
Failing == stage = "idle" /\ stage' = "failure" /\ UNCHANGED <<value, toFill>>

Delaying(ms) ==
  /\ stage = "idle" /\ delayed < MaxDelays
  /\ stage' = "delay" /\ value' = ms /\ UNCHANGED toFill

BucketsFirst == [delay |-> "buckets", buckets |-> "sum", sum |-> "count", count |-> "idle"]   \* mutant
\* processClientData, processServerData, then observe(), cell after cell
After == [delay |-> "sum", sum |-> "count", count |-> "buckets", buckets |-> "idle"]

IncrementConnectFailures ==
  /\ stage = "failure" /\ stage' = "idle"
  /\ failures' = failures + 1
  /\ UNCHANGED <<delayed, sum, count, bucket, counted, value, toFill, renderVars>>

IncrementPacketsDelayed ==
  /\ stage = "delay" /\ stage' = After["delay"]
  /\ delayed' = delayed + 1
  /\ UNCHANGED <<failures, sum, count, bucket, counted, value, toFill, renderVars>>

ObserveSum ==
  /\ stage = "sum" /\ stage' = After["sum"]
  /\ sum' = sum + value
  /\ UNCHANGED <<failures, delayed, count, bucket, counted, value, toFill, renderVars>>

ObserveCount ==
  /\ stage = "count" /\ stage' = After["count"]
  /\ count' = count + 1 /\ counted' = counted + value
  /\ UNCHANGED <<failures, delayed, sum, bucket, value, toFill, renderVars>>

FirstHolds(i) == value <= Bound[i] /\ \A j \in Bucket : j < i => value > Bound[j]   \* mutant
Holds(i) == value <= Bound[i]

ObserveBucket ==
  /\ stage = "buckets"
  /\ bucket' = [bucket EXCEPT ![toFill] = IF Holds(toFill) THEN @ + 1 ELSE @]
  /\ IF toFill < BucketCount
       THEN toFill' = toFill + 1 /\ UNCHANGED stage
       ELSE toFill' = 1 /\ stage' = After["buckets"]
  /\ UNCHANGED <<failures, delayed, sum, count, counted, value, renderVars>>

-----------------------------------------------------------------------------
(* The control server's thread. *)

RenderDelayed ==
  /\ rendering = "idle" /\ rendering' = "failures"
  /\ page' = [page EXCEPT !.delayed = delayed]
  /\ UNCHANGED <<toRender, cellVars, loopVars>>

RenderFailures ==
  /\ rendering = "failures" /\ rendering' = "buckets"
  /\ page' = [page EXCEPT !.failures = failures]
  /\ UNCHANGED <<toRender, cellVars, loopVars>>

RenderBucket ==
  /\ rendering = "buckets"
  /\ page' = [page EXCEPT !.bucket[toRender] = bucket[toRender]]
  /\ IF toRender < BucketCount
       THEN toRender' = toRender + 1 /\ UNCHANGED rendering
       ELSE toRender' = 1 /\ rendering' = "inf"
  /\ UNCHANGED <<cellVars, loopVars>>

RenderInf ==
  /\ rendering = "inf" /\ rendering' = "sum"
  /\ page' = [page EXCEPT !.inf = count, !.counted = counted]
  /\ UNCHANGED <<toRender, cellVars, loopVars>>

RenderSum ==
  /\ rendering = "sum" /\ rendering' = "count"
  /\ page' = [page EXCEPT !.sum = sum]
  /\ UNCHANGED <<toRender, cellVars, loopVars>>

RenderCount ==
  /\ rendering = "count" /\ rendering' = "idle"
  /\ page' = [page EXCEPT !.count = count]
  /\ UNCHANGED <<toRender, cellVars, loopVars>>

Render ==
  RenderDelayed \/ RenderFailures \/ RenderBucket \/ RenderInf \/ RenderSum \/ RenderCount

Cells ==
  \/ IncrementConnectFailures \/ IncrementPacketsDelayed
  \/ ObserveSum \/ ObserveCount \/ ObserveBucket

-----------------------------------------------------------------------------

Counting ==
  /\ Failing \/ \E ms \in Latencies : Delaying(ms)
  /\ UNCHANGED <<cellVars, renderVars>>

MetricsSpec == MetricsInit /\ [][Counting \/ Cells \/ Render]_metricsVars

-----------------------------------------------------------------------------
(* Properties of a page, once it is complete. *)

\* Types; a cell of the latency histogram lags behind the cells before it by the
\* observation in progress and no more.
MetricsTypeOK ==
  /\ failures \in Nat /\ delayed \in 0 .. MaxDelays
  /\ sum \in Nat /\ count \in Nat /\ counted \in Nat /\ bucket \in [Bucket -> Nat]
  /\ stage \in {"idle", "failure", "delay", "sum", "count", "buckets"}
  /\ value \in Latencies \cup {0} /\ toFill \in Bucket
  /\ rendering \in {"idle", "failures", "buckets", "inf", "sum", "count"}
  /\ toRender \in Bucket /\ page \in Page
  /\ count <= delayed /\ delayed <= count + 1

Complete == rendering = "idle"

\* No line of a histogram is above the +Inf line, nor that above _count
\* (MetricsRegistry.cpp:27-34), although the loads are apart and observe() goes on;
\* and as sum_ is added to before count_, _sum covers whatever the +Inf line counts.
InfIsLargest == page.inf <= page.count /\ \A i \in Bucket : page.bucket[i] <= page.inf
SumCoversInf == page.sum >= page.counted
LinesInOrder == Complete => InfIsLargest /\ SumCoversInf

\* What a page shows is of different moments.  A bucket is ahead of the next, which
\* should hold all it holds, by one observation at most.  The counter of delayed
\* packets is loaded first: it is ahead of _count by one at most, the observation in
\* progress, while _count can be ahead of it by all the packets delayed during the
\* rendering, and by no more.
NearlyCumulative == \A i, j \in Bucket : i < j => page.bucket[i] <= page.bucket[j] + 1
DelaysCovered == page.delayed <= page.count + 1 /\ page.count <= delayed
OfItsRendering == Complete => NearlyCumulative /\ DelaysCovered
==============================================================================
