---------------------------- MODULE TelemetryProofs ----------------------------
(***************************************************************************)
(* Proofs about a page of metrics, for any buckets and any latencies: how   *)
(* far loads and additions that interleave can put its lines at odds; about *)
(* the logger, for queues and rings of any size: what pruning drops and     *)
(* what the black box keeps; and about both: a failure that is counted can  *)
(* be read about.                                                           *)
(***************************************************************************)
EXTENDS Telemetry, Sums, SequenceTheorems, TLAPS

Done(i) == stage = "buckets" /\ i < toFill

\* The cells: each is behind those before it by the observation in progress.
CellInv ==
  /\ delayed = count + (IF stage \in {"sum", "count"} THEN 1 ELSE 0)
  /\ stage = "delay" => delayed < MaxDelays
  /\ sum >= counted + (IF stage = "count" THEN value ELSE 0)
  /\ stage # "buckets" => toFill = 1
  /\ \A i \in Bucket :
       bucket[i] + (IF stage = "buckets" /\ ~Done(i) THEN 1 ELSE 0) <= count
  /\ \A i, j \in Bucket :
       i < j => bucket[i] <= bucket[j] + (IF Done(i) /\ ~Done(j) /\ Holds(i) THEN 1 ELSE 0)

\* A line of the page is no more than its cell, which only grows, and
PageBehind ==
  /\ page.delayed <= delayed /\ page.inf <= count /\ page.counted <= counted
  /\ page.count <= count
  /\ \A i \in Bucket : page.bucket[i] <= bucket[i]

\* the lines of the page in progress are in the order of their loads.
BucketLoaded(i) == rendering \notin {"failures", "buckets"} \/ (rendering = "buckets" /\ i < toRender)

PageInv ==
  /\ PageBehind
  /\ rendering # "buckets" => toRender = 1
  /\ \A i, j \in Bucket :
       i < j /\ BucketLoaded(j) /\ BucketLoaded(i) => page.bucket[i] <= page.bucket[j] + 1
  /\ rendering \in {"sum", "count", "idle"} => \A i \in Bucket : page.bucket[i] <= page.inf
  /\ rendering \in {"count", "idle"} => page.sum >= page.counted
  /\ rendering = "idle" => page.inf <= page.count /\ page.delayed <= page.count + 1

MetricsInv == MetricsTypeOK /\ CellInv /\ PageInv

-----------------------------------------------------------------------------

LEMMA MetricsInitInv == MetricsInit => MetricsInv
<1> SUFFICES ASSUME MetricsInit PROVE MetricsInv
  OBVIOUS
<1>1. 0 \in 0 .. MaxDelays /\ 1 \in Bucket /\ 0 \in Nat
  BY MetricsAssumption DEF Bucket
<1>2. page \in Page
  BY DEF MetricsInit, EmptyPage, Page
<1>3. MetricsTypeOK
  BY <1>1, <1>2 DEF MetricsInit, MetricsTypeOK
<1>4. CellInv
  BY DEF MetricsInit, CellInv
<1>5. PageInv
  BY DEF MetricsInit, PageInv, PageBehind, EmptyPage
<1>. QED BY <1>3, <1>4, <1>5 DEF MetricsInv

-----------------------------------------------------------------------------
(* The event loop's thread. *)

\* Nothing the event loop's thread does can spoil what was rendered: cells only grow.
LEMMA PageKept ==
  ASSUME PageInv, UNCHANGED renderVars, page \in Page,
         delayed \in Nat, count \in Nat, counted \in Nat, bucket \in [Bucket -> Nat],
         delayed' \in Nat, count' \in Nat, counted' \in Nat, bucket' \in [Bucket -> Nat],
         delayed <= delayed', count <= count', counted <= counted',
         \A i \in Bucket : bucket[i] <= bucket'[i]
  PROVE  PageInv'
<1>1. /\ UNCHANGED <<rendering, toRender, page>>
      /\ page.delayed \in Nat /\ page.inf \in Nat /\ page.counted \in Nat
      /\ page.count \in Nat /\ page.bucket \in [Bucket -> Nat]
  BY DEF renderVars, Page
<1>2. PageBehind'
  BY <1>1 DEF PageInv, PageBehind
<1>. QED BY <1>1, <1>2 DEF PageInv, BucketLoaded

LEMMA CountingStep == MetricsInv /\ Counting => MetricsInv'
<1> SUFFICES ASSUME MetricsInv, Counting PROVE MetricsInv'
  OBVIOUS
<1>1. /\ UNCHANGED <<failures, delayed, sum, count, bucket, counted, rendering, toRender, page>>
      /\ UNCHANGED toFill /\ stage = "idle" /\ stage' \in {"failure", "delay"}
      /\ value' \in Latencies \cup {0}
  BY DEF Counting, Failing, Delaying, cellVars, renderVars, MetricsInv, MetricsTypeOK
<1>2. MetricsTypeOK'
  BY <1>1 DEF MetricsInv, MetricsTypeOK
<1>3. CellInv'
  <2>1. stage' = "delay" => delayed' < MaxDelays
    BY <1>1 DEF Counting, Failing, Delaying
  <2>. QED BY <1>1, <2>1 DEF MetricsInv, CellInv, Done
<1>4. PageInv'
  BY <1>1 DEF MetricsInv, PageInv, PageBehind, BucketLoaded
<1>. QED BY <1>2, <1>3, <1>4 DEF MetricsInv

LEMMA CellsStep == MetricsInv /\ Cells => MetricsInv'
<1> SUFFICES ASSUME MetricsInv, Cells PROVE MetricsInv'
  OBVIOUS
<1>1. /\ failures \in Nat /\ delayed \in Nat /\ sum \in Nat /\ count \in Nat /\ counted \in Nat
      /\ bucket \in [Bucket -> Nat] /\ value \in Nat /\ toFill \in Bucket /\ page \in Page
      /\ BucketCount \in Nat \ {0} /\ Bound \in [Bucket -> Nat] /\ MaxDelays \in Nat
  BY MetricsAssumption DEF MetricsInv, MetricsTypeOK
<1>2. CASE IncrementConnectFailures
  <2>1. /\ stage = "failure" /\ stage' = "idle" /\ failures' = failures + 1
        /\ UNCHANGED <<delayed, sum, count, bucket, counted, value, toFill, renderVars>>
    BY <1>2 DEF IncrementConnectFailures
  <2>2. MetricsTypeOK'
    BY <1>1, <2>1 DEF MetricsInv, MetricsTypeOK, renderVars
  <2>3. CellInv'
    BY <1>1, <2>1 DEF MetricsInv, CellInv, Done
  <2>4. PageInv'
    BY <1>1, <2>1, PageKept DEF MetricsInv
  <2>. QED BY <2>2, <2>3, <2>4 DEF MetricsInv
<1>3. CASE IncrementPacketsDelayed
  <2>1. /\ stage = "delay" /\ stage' = "sum" /\ delayed' = delayed + 1
        /\ UNCHANGED <<failures, sum, count, bucket, counted, value, toFill, renderVars>>
    BY <1>3 DEF IncrementPacketsDelayed, After
  <2>2. delayed + 1 \in 0 .. MaxDelays
    BY <1>1, <2>1 DEF MetricsInv, CellInv
  <2>3. MetricsTypeOK'
    BY <1>1, <2>1, <2>2 DEF MetricsInv, MetricsTypeOK, CellInv, renderVars
  <2>4. CellInv'
    BY <1>1, <2>1 DEF MetricsInv, CellInv, Done
  <2>5. PageInv'
    BY <1>1, <2>1, PageKept DEF MetricsInv
  <2>. QED BY <2>3, <2>4, <2>5 DEF MetricsInv
<1>4. CASE ObserveSum
  <2>1. /\ stage = "sum" /\ stage' = "count" /\ sum' = sum + value
        /\ UNCHANGED <<failures, delayed, count, bucket, counted, value, toFill, renderVars>>
    BY <1>4 DEF ObserveSum, After
  <2>2. MetricsTypeOK'
    BY <1>1, <2>1 DEF MetricsInv, MetricsTypeOK, renderVars
  <2>3. CellInv'
    BY <1>1, <2>1 DEF MetricsInv, CellInv, Done
  <2>4. PageInv'
    BY <1>1, <2>1, PageKept DEF MetricsInv
  <2>. QED BY <2>2, <2>3, <2>4 DEF MetricsInv
<1>5. CASE ObserveCount
  <2>1. /\ stage = "count" /\ stage' = "buckets"
        /\ count' = count + 1 /\ counted' = counted + value
        /\ UNCHANGED <<failures, delayed, sum, bucket, value, toFill, renderVars>>
    BY <1>5 DEF ObserveCount, After
  <2>2. MetricsTypeOK'
    BY <1>1, <2>1 DEF MetricsInv, MetricsTypeOK, CellInv, renderVars
  <2>3. CellInv'
    <3>1. \A i \in Bucket : ~Done(i)'
      BY <2>1 DEF MetricsInv, CellInv, Done, Bucket
    <3>. QED BY <1>1, <2>1, <3>1 DEF MetricsInv, CellInv, Done
  <2>4. PageInv'
    BY <1>1, <2>1, PageKept DEF MetricsInv
  <2>. QED BY <2>2, <2>3, <2>4 DEF MetricsInv
<1>6. CASE ObserveBucket
  <2>1. /\ stage = "buckets" /\ toFill \in 1 .. BucketCount
        /\ UNCHANGED <<failures, delayed, sum, count, counted, value, renderVars>>
        /\ bucket' = [bucket EXCEPT ![toFill] = IF Holds(toFill) THEN @ + 1 ELSE @]
    BY <1>1, <1>6 DEF ObserveBucket, Bucket
  <2>2. \/ toFill < BucketCount /\ toFill' = toFill + 1 /\ stage' = "buckets"
        \/ toFill = BucketCount /\ toFill' = 1 /\ stage' = "idle"
    BY <1>1, <1>6, <2>1 DEF ObserveBucket, After
  <2>3. /\ bucket' \in [Bucket -> Nat]
        /\ bucket'[toFill] = IF Holds(toFill) THEN bucket[toFill] + 1 ELSE bucket[toFill]
        /\ \A i \in Bucket \ {toFill} : bucket'[i] = bucket[i]
    BY <1>1, <2>1
  <2>4. MetricsTypeOK'
    <3>1. toFill' \in Bucket /\ stage' \in {"buckets", "idle"}
      BY <1>1, <2>1, <2>2 DEF Bucket
    <3>. QED BY <1>1, <2>1, <2>3, <3>1 DEF MetricsInv, MetricsTypeOK, renderVars
  <2>5. \A i \in Bucket :
          /\ i \in Nat /\ bucket[i] \in Nat
          /\ bucket[i] + (IF i < toFill THEN 0 ELSE 1) <= count
    BY <1>1, <2>1 DEF MetricsInv, CellInv, Done, Bucket
  <2>6. \A i \in Bucket : (stage' = "buckets" /\ ~Done(i)') => ~(i <= toFill)
    BY <2>1, <2>2, <2>5 DEF Done
  <2>7. \A i \in Bucket :
          bucket'[i] + (IF stage' = "buckets" /\ ~Done(i)' THEN 1 ELSE 0) <= count
    <3>1. TAKE i \in Bucket
    <3>2. CASE i = toFill
      BY <1>1, <2>3, <2>5, <2>6, <3>2
    <3>3. CASE i # toFill
      <4>1. bucket'[i] = bucket[i] /\ ((stage' = "buckets" /\ ~Done(i)') => ~(i < toFill))
        BY <1>1, <2>3, <2>5, <2>6, <3>3 DEF Bucket
      <4>. QED BY <1>1, <2>5, <4>1
    <3>. QED BY <3>2, <3>3
  <2>8. ASSUME NEW i \in Bucket, NEW j \in Bucket, i < j
        PROVE  bucket'[i] <= bucket'[j] + (IF Done(i)' /\ ~Done(j)' /\ Holds(i)' THEN 1 ELSE 0)
    <3>1. bucket[i] <= bucket[j] + (IF i < toFill /\ ~(j < toFill) /\ Holds(i) THEN 1 ELSE 0)
      BY <2>1, <2>8 DEF MetricsInv, CellInv, Done
    <3>2. /\ bucket[i] \in Nat /\ bucket[j] \in Nat /\ i \in Nat /\ j \in Nat
          /\ toFill \in Nat /\ j <= BucketCount
      BY <1>1, <2>1 DEF Bucket
    <3>3. Holds(i) => Holds(j)
      <4>1. Bound[i] \in Nat /\ Bound[j] \in Nat /\ Bound[i] < Bound[j]
        BY <2>8, MetricsAssumption
      <4>. QED BY <1>1, <4>1 DEF Holds
    <3>4. Holds(i)' <=> Holds(i)
      BY <2>1 DEF Holds
    <3>5. /\ Done(i)' => i <= toFill
          /\ i <= toFill /\ stage' = "buckets" => Done(i)'
          /\ stage' = "buckets" /\ ~(j <= toFill) => ~Done(j)'
          /\ stage' = "idle" => j <= toFill
      BY <2>2, <3>2 DEF Done
    <3>6. CASE j = toFill
      <4>1. /\ bucket'[i] = bucket[i]
            /\ bucket'[j] = IF Holds(j) THEN bucket[j] + 1 ELSE bucket[j]
            /\ bucket[i] <= bucket[j] + (IF Holds(i) THEN 1 ELSE 0)
        BY <2>3, <2>8, <3>1, <3>2, <3>6
      <4>2. bucket'[i] <= bucket'[j]
        BY <4>1, <3>2, <3>3
      <4>. QED BY <4>1, <4>2, <3>2
    <3>7. CASE i = toFill
      <4>1. /\ bucket'[j] = bucket[j] /\ bucket[i] <= bucket[j]
            /\ bucket'[i] = IF Holds(i) THEN bucket[i] + 1 ELSE bucket[i]
        BY <2>3, <2>8, <3>1, <3>2, <3>7
      <4>2. Done(i)' /\ ~Done(j)'
        BY <2>2, <2>8, <3>2, <3>5, <3>7
      <4>. QED BY <4>1, <4>2, <3>2, <3>4
    <3>8. CASE i # toFill /\ j # toFill
      <4>1. bucket'[i] = bucket[i] /\ bucket'[j] = bucket[j]
        BY <2>3, <3>8
      <4>2. i < toFill /\ ~(j < toFill) => Done(i)' /\ ~Done(j)'
        BY <2>2, <3>2, <3>5, <3>8
      <4>. QED BY <4>1, <4>2, <3>1, <3>2, <3>4
    <3>. QED BY <3>6, <3>7, <3>8
  <2>9. CellInv'
    <3>1. delayed = count /\ sum >= counted
      BY <1>1, <2>1 DEF MetricsInv, CellInv
    <3>2. stage' # "buckets" => toFill' = 1
      BY <2>2
    <3>. QED BY <1>1, <2>1, <2>2, <2>7, <2>8, <3>1, <3>2 DEF CellInv
  <2>10. PageInv'
    <3>1. \A i \in Bucket : bucket[i] <= bucket'[i]
      BY <1>1, <2>3
    <3>. QED BY <1>1, <2>1, <2>3, <3>1, PageKept DEF MetricsInv
  <2>. QED BY <2>4, <2>9, <2>10 DEF MetricsInv
<1>. QED BY <1>2, <1>3, <1>4, <1>5, <1>6 DEF Cells

-----------------------------------------------------------------------------
(* The control server's thread. *)

LEMMA RenderStep == MetricsInv /\ Render => MetricsInv'
<1> SUFFICES ASSUME MetricsInv, Render PROVE MetricsInv'
  OBVIOUS
<1>1. UNCHANGED <<cellVars, loopVars>>
  BY DEF Render, RenderDelayed, RenderFailures, RenderBucket, RenderInf, RenderSum, RenderCount
<1>2. UNCHANGED <<failures, delayed, sum, count, bucket, counted, stage, value, toFill>>
  BY <1>1 DEF cellVars, loopVars
<1>3. CellInv'
  BY <1>2 DEF MetricsInv, CellInv, Done, Holds
<1>4. /\ failures \in Nat /\ delayed \in Nat /\ sum \in Nat /\ count \in Nat /\ counted \in Nat
      /\ bucket \in [Bucket -> Nat] /\ page \in Page /\ toRender \in 1 .. BucketCount
      /\ BucketCount \in Nat \ {0} /\ 1 \in Bucket
  BY MetricsAssumption DEF MetricsInv, MetricsTypeOK, Bucket
<1>5. SUFFICES /\ PageInv' /\ page' \in Page /\ toRender' \in Bucket
               /\ rendering' \in {"idle", "failures", "buckets", "inf", "sum", "count"}
  BY <1>2, <1>3, <1>5 DEF MetricsInv, MetricsTypeOK
<1>6. /\ PageBehind /\ (rendering # "buckets" => toRender = 1)
      /\ page.delayed \in Nat /\ page.inf \in Nat /\ page.counted \in Nat
      /\ page.sum \in Nat /\ page.count \in Nat /\ page.bucket \in [Bucket -> Nat]
  BY <1>4 DEF MetricsInv, PageInv, Page
<1>7. delayed <= count + 1 /\ counted <= sum /\ \A i \in Bucket : bucket[i] <= count
  <2>1. counted <= sum
    <3>1. sum >= counted + value \/ sum >= counted + 0
      BY DEF MetricsInv, CellInv
    <3>2. value \in Nat
      BY MetricsAssumption DEF MetricsInv, MetricsTypeOK
    <3>. QED BY <1>4, <3>1, <3>2
  <2>. QED BY <1>4, <2>1 DEF MetricsInv, CellInv, MetricsTypeOK
<1>8. CASE RenderDelayed
  <2>1. /\ rendering' = "failures" /\ toRender' = 1 /\ page' = [page EXCEPT !.delayed = delayed]
    BY <1>6, <1>8 DEF RenderDelayed
  <2>2. page' \in Page
    BY <1>4, <2>1 DEF Page
  <2>3. PageInv'
    BY <1>2, <1>4, <1>6, <2>1 DEF PageInv, PageBehind, BucketLoaded, Page
  <2>. QED BY <1>4, <2>1, <2>2, <2>3
<1>9. CASE RenderFailures
  <2>1. /\ rendering' = "buckets" /\ toRender' = 1 /\ page' = [page EXCEPT !.failures = failures]
    BY <1>6, <1>9 DEF RenderFailures
  <2>2. page' \in Page
    BY <1>4, <2>1 DEF Page
  <2>3. \A i \in Bucket : ~BucketLoaded(i)'
    BY <1>4, <2>1 DEF BucketLoaded, Bucket
  <2>4. PageInv'
    BY <1>2, <1>4, <1>6, <2>1, <2>3 DEF PageInv, PageBehind, Page
  <2>. QED BY <1>4, <2>1, <2>2, <2>4
<1>10. CASE RenderBucket
  <2>1. /\ rendering = "buckets"
        /\ page' = [page EXCEPT !.bucket[toRender] = bucket[toRender]]
        /\ \/ toRender < BucketCount /\ toRender' = toRender + 1 /\ rendering' = "buckets"
           \/ toRender = BucketCount /\ toRender' = 1 /\ rendering' = "inf"
    BY <1>4, <1>10 DEF RenderBucket
  <2>2. /\ page'.delayed = page.delayed /\ page'.inf = page.inf /\ page'.counted = page.counted
        /\ page'.count = page.count /\ page'.bucket[toRender] = bucket[toRender]
        /\ \A i \in Bucket \ {toRender} : page'.bucket[i] = page.bucket[i]
        /\ page' \in Page
    BY <1>4, <2>1 DEF Page, Bucket
  <2>3. PageBehind'
    <3>1. \A i \in Bucket : page'.bucket[i] <= bucket[i]
      <4>1. TAKE i \in Bucket
      <4>2. CASE i = toRender
        BY <1>4, <2>2, <4>2
      <4>3. CASE i # toRender
        BY <1>6, <2>2, <4>3 DEF PageBehind
      <4>. QED BY <4>2, <4>3
    <3>. QED BY <1>2, <1>6, <2>2, <3>1 DEF PageBehind
  <2>4. \A i \in Bucket : BucketLoaded(i)' => i <= toRender
    BY <1>4, <2>1 DEF BucketLoaded, Bucket
  <2>5. ASSUME NEW i \in Bucket, NEW j \in Bucket, i < j, j <= toRender
        PROVE  page'.bucket[i] <= page'.bucket[j] + 1
    <3>1. i \in Nat /\ j \in Nat /\ i < toRender /\ i # toRender
      BY <1>4, <2>5 DEF Bucket
    <3>2. CASE j = toRender
      <4>1. /\ page'.bucket[i] = page.bucket[i] /\ page'.bucket[j] = bucket[j]
            /\ page.bucket[i] <= bucket[i]
        BY <1>6, <2>2, <3>1, <3>2 DEF PageBehind
      <4>2. bucket[i] <= bucket[j] + 1
        BY <1>4, <2>5 DEF MetricsInv, CellInv
      <4>. QED BY <1>4, <1>6, <4>1, <4>2
    <3>3. CASE j # toRender
      <4>1. page'.bucket[i] = page.bucket[i] /\ page'.bucket[j] = page.bucket[j]
        BY <2>2, <3>1, <3>3
      <4>2. BucketLoaded(i) /\ BucketLoaded(j)
        BY <1>4, <2>1, <2>5, <3>1, <3>3 DEF BucketLoaded
      <4>. QED BY <2>5, <4>1, <4>2 DEF MetricsInv, PageInv
    <3>. QED BY <3>2, <3>3
  <2>6. PageInv'
    BY <2>1, <2>3, <2>4, <2>5 DEF PageInv
  <2>7. toRender' \in Bucket
    BY <1>4, <2>1 DEF Bucket
  <2>. QED BY <2>1, <2>2, <2>6, <2>7
<1>11. CASE RenderInf
  <2>1. /\ rendering = "inf" /\ rendering' = "sum" /\ toRender' = 1
        /\ page' = [page EXCEPT !.inf = count, !.counted = counted]
    BY <1>6, <1>11 DEF RenderInf
  <2>2. page' \in Page
    BY <1>4, <2>1 DEF Page
  <2>3. /\ page'.delayed = page.delayed /\ page'.inf = count /\ page'.counted = counted
        /\ page'.bucket = page.bucket /\ page'.count = page.count
    BY <1>4, <2>1 DEF Page
  <2>4. PageBehind'
    BY <1>2, <1>4, <1>6, <2>3 DEF PageBehind
  <2>5. \A i \in Bucket : page.bucket[i] <= count
    BY <1>4, <1>6, <1>7 DEF PageBehind
  <2>6. \A i, j \in Bucket : i < j => page.bucket[i] <= page.bucket[j] + 1
    BY <2>1 DEF MetricsInv, PageInv, BucketLoaded
  <2>7. PageInv'
    BY <2>1, <2>3, <2>4, <2>5, <2>6 DEF PageInv
  <2>. QED BY <1>4, <2>1, <2>2, <2>7
<1>12. CASE RenderSum
  <2>1. /\ rendering = "sum" /\ rendering' = "count" /\ toRender' = 1
        /\ page' = [page EXCEPT !.sum = sum]
    BY <1>6, <1>12 DEF RenderSum
  <2>2. page' \in Page
    BY <1>4, <2>1 DEF Page
  <2>3. /\ page'.delayed = page.delayed /\ page'.inf = page.inf /\ page'.counted = page.counted
        /\ page'.bucket = page.bucket /\ page'.sum = sum /\ page'.count = page.count
    BY <1>4, <2>1 DEF Page
  <2>4. PageBehind'
    BY <1>2, <1>6, <2>3 DEF PageBehind
  <2>5. page'.sum >= page'.counted
    BY <1>4, <1>6, <1>7, <2>3 DEF PageBehind
  <2>6. PageInv'
    BY <2>1, <2>3, <2>4, <2>5 DEF MetricsInv, PageInv, BucketLoaded
  <2>. QED BY <1>4, <2>1, <2>2, <2>6
<1>13. CASE RenderCount
  <2>1. /\ rendering = "count" /\ rendering' = "idle" /\ toRender' = 1
        /\ page' = [page EXCEPT !.count = count]
    BY <1>6, <1>13 DEF RenderCount
  <2>2. page' \in Page
    BY <1>4, <2>1 DEF Page
  <2>3. /\ page'.delayed = page.delayed /\ page'.inf = page.inf /\ page'.counted = page.counted
        /\ page'.bucket = page.bucket /\ page'.sum = page.sum /\ page'.count = count
    BY <1>4, <2>1 DEF Page
  <2>4. PageBehind'
    BY <1>2, <1>4, <1>6, <2>3 DEF PageBehind
  <2>5. page'.inf <= page'.count /\ page'.delayed <= page'.count + 1
    BY <1>4, <1>6, <1>7, <2>3 DEF PageBehind
  <2>6. PageInv'
    BY <2>1, <2>3, <2>4, <2>5 DEF MetricsInv, PageInv, BucketLoaded
  <2>. QED BY <1>4, <2>1, <2>2, <2>6
<1>. QED BY <1>8, <1>9, <1>10, <1>11, <1>12, <1>13 DEF Render

-----------------------------------------------------------------------------
(* The logger. *)

\* Numbers tell entries apart, and a severe entry that was written is in the queue.
WrittenInv ==
  /\ \A e \in ToSet(live) : e.no <= calls
  /\ IsFiniteSet(severe) /\ (\A e \in severe : IsSevere(e)) /\ SevereStays

LoggerInv == TypeOK /\ WrittenInv /\ BlackBoxIsLatest

\* The queue from which nothing can go.
Stuck(queue) == \A e \in ToSet(queue) : IsSevere(e)

Full == Len(live) = LiveMax /\ Stuck(live)

\* How pruning leaves a queue.
Shortened(queue, pruned) ==
  /\ pruned \in Seq(Entry) /\ Len(pruned) = Len(queue) - 1
  /\ ToSet(pruned) \subseteq ToSet(queue)
  /\ \A e \in ToSet(queue) : IsSevere(e) => e \in ToSet(pruned)

LEMMA LeastIndex ==
  ASSUME NEW I \in SUBSET Nat, I # {}
  PROVE  Min(I) \in I
BY LeastNatural DEF Min

LEMMA ElementsOf ==
  ASSUME NEW s \in Seq(Entry)
  PROVE  /\ Len(s) \in Nat /\ ToSet(s) = {s[i] : i \in 1 .. Len(s)}
         /\ \A i \in 1 .. Len(s) : s[i] \in Entry /\ s[i] \in ToSet(s)
BY DEF ToSet

LEMMA ElementsFinite ==
  ASSUME NEW s \in Seq(Entry)
  PROVE  IsFiniteSet(ToSet(s))
<1>1. IsFiniteSet(1 .. Len(s))
  <2>1. 1 \in Int /\ Len(s) \in Int
    BY ElementsOf
  <2>. QED BY <2>1, FS_Interval
<1>2. s \in Surjection(1 .. Len(s), ToSet(s))
  BY ElementsOf DEF Surjection
<1>. QED BY <1>1, <1>2, FS_Surjection

\* RemoveAt at an index keeps every other element.
LEMMA RemoveAtEffect ==
  ASSUME NEW s \in Seq(Entry), NEW i \in 1 .. Len(s)
  PROVE  /\ RemoveAt(s, i) \in Seq(Entry) /\ Len(RemoveAt(s, i)) = Len(s) - 1
         /\ ToSet(RemoveAt(s, i)) \subseteq ToSet(s)
         /\ \A j \in 1 .. Len(s) : j # i => s[j] \in ToSet(RemoveAt(s, i))
<1>. DEFINE left == SubSeq(s, 1, i - 1)
            right == SubSeq(s, i + 1, Len(s))
            r == RemoveAt(s, i)
<1>0. Len(s) \in Nat /\ i \in Nat /\ 1 <= i /\ i <= Len(s)
  OBVIOUS
<1>1. /\ left \in Seq(Entry) /\ Len(left) = i - 1
      /\ \A j \in 1 .. i - 1 : left[j] = s[j]
  <2>1. \A j \in 1 .. i - 1 : s[j] \in Entry
    BY <1>0
  <2>. QED BY <1>0, <2>1, SubSeqProperties
<1>2. /\ right \in Seq(Entry) /\ Len(right) = Len(s) - i
      /\ \A j \in 1 .. Len(s) - i : right[j] = s[j + i]
  <2>1. \A j \in i + 1 .. Len(s) : s[j] \in Entry
    BY <1>0
  <2>2. /\ right \in Seq(Entry)
        /\ Len(right) = IF i + 1 <= Len(s) THEN Len(s) - (i + 1) + 1 ELSE 0
        /\ \A j \in 1 .. Len(s) - (i + 1) + 1 : right[j] = s[i + 1 + j - 1]
    BY <1>0, <2>1, SubSeqProperties
  <2>. QED BY <1>0, <2>2
<1>3. r = left \o right
  BY DEF RemoveAt
<1>. HIDE DEF left, right, r
<1>4. /\ r \in Seq(Entry) /\ Len(r) = Len(s) - 1
      /\ \A j \in 1 .. Len(s) - 1 : r[j] = IF j < i THEN s[j] ELSE s[j + 1]
  <2>1. /\ r \in Seq(Entry) /\ Len(r) = Len(left) + Len(right)
        /\ \A j \in 1 .. Len(left) + Len(right) :
             r[j] = IF j <= Len(left) THEN left[j] ELSE right[j - Len(left)]
    BY <1>1, <1>2, <1>3, ConcatProperties
  <2>2. Len(r) = Len(s) - 1
    BY <1>0, <1>1, <1>2, <2>1
  <2>3. ASSUME NEW j \in 1 .. Len(s) - 1 PROVE r[j] = IF j < i THEN s[j] ELSE s[j + 1]
    <3>1. CASE j < i
      <4>1. j \in 1 .. Len(left) + Len(right) /\ j <= Len(left) /\ j \in 1 .. i - 1
        BY <1>0, <1>1, <1>2, <3>1
      <4>2. r[j] = left[j] /\ left[j] = s[j]
        BY <1>1, <2>1, <4>1
      <4>. QED BY <3>1, <4>2
    <3>2. CASE ~(j < i)
      <4>0. /\ j \in 1 .. Len(left) + Len(right) /\ ~(j <= Len(left))
            /\ j - (i - 1) \in 1 .. Len(s) - i
        BY <1>0, <1>1, <1>2, <3>2
      <4>1. r[j] = right[j - (i - 1)] /\ j - (i - 1) \in 1 .. Len(s) - i
        BY <1>1, <2>1, <4>0
      <4>2. right[j - (i - 1)] = s[j - (i - 1) + i] /\ j - (i - 1) + i = j + 1
        BY <1>0, <1>2, <4>1
      <4>. QED BY <3>2, <4>1, <4>2
    <3>. QED BY <3>1, <3>2
  <2>. QED BY <2>1, <2>2, <2>3
<1>5. ToSet(r) \subseteq ToSet(s)
  <2>1. \A j \in 1 .. Len(r) : r[j] \in ToSet(s)
    BY <1>0, <1>4, ElementsOf
  <2>. QED BY <1>4, <2>1, ElementsOf
<1>6. ASSUME NEW j \in 1 .. Len(s), j # i PROVE s[j] \in ToSet(r)
  <2>1. \E k \in 1 .. Len(r) : r[k] = s[j]
    <3>1. CASE j < i
      BY <1>0, <1>4, <1>6, <3>1
    <3>2. CASE ~(j < i)
      <4>1. j - 1 \in 1 .. Len(r) /\ ~(j - 1 < i) /\ j - 1 + 1 = j
        BY <1>0, <1>4, <1>6, <3>2
      <4>. QED BY <1>4, <4>1
    <3>. QED BY <3>1, <3>2
  <2>. QED BY <1>4, <2>1, ElementsOf
<1>. QED BY <1>4, <1>5, <1>6 DEF r

\* pruneQueue() takes one DEBUG or INFO entry, if there is one.
LEMMA PruneEffect ==
  ASSUME NEW s \in Seq(Entry)
  PROVE  \/ PruneQueue(s) = s /\ Stuck(s)
         \/ Shortened(s, PruneQueue(s))
<1>1. ASSUME NEW i \in 1 .. Len(s), ~IsSevere(s[i]) PROVE Shortened(s, RemoveAt(s, i))
  <2>1. ASSUME NEW e \in ToSet(s), IsSevere(e) PROVE e \in ToSet(RemoveAt(s, i))
    <3>1. PICK j \in 1 .. Len(s) : e = s[j]
      BY ElementsOf
    <3>. QED BY <1>1, <2>1, <3>1, RemoveAtEffect
  <2>. QED BY <1>1, <2>1, RemoveAtEffect DEF Shortened
<1>2. CASE \E i \in 1 .. Len(s) : IsDebug(s[i])
  <2>. DEFINE I == {i \in 1 .. Len(s) : IsDebug(s[i])}
  <2>1. Min(I) \in I
    <3>1. I \in SUBSET Nat /\ I # {}
      BY <1>2
    <3>. QED BY <3>1, LeastIndex
  <2>2. RemoveFirstMatch(s, IsDebug) = RemoveAt(s, Min(I))
    BY <1>2 DEF RemoveFirstMatch, SelectInSeq
  <2>3. Shortened(s, RemoveFirstMatch(s, IsDebug))
    BY <1>1, <2>1, <2>2 DEF IsSevere
  <2>4. RemoveFirstMatch(s, IsDebug) # s
    BY <2>3, ElementsOf DEF Shortened
  <2>. QED BY <2>3, <2>4 DEF PruneQueue
<1>3. CASE ~(\E i \in 1 .. Len(s) : IsDebug(s[i]))
  <2>1. PruneQueue(s) = RemoveFirstMatch(s, IsInfo)
    BY <1>3 DEF PruneQueue, RemoveFirstMatch
  <2>2. CASE \E i \in 1 .. Len(s) : IsInfo(s[i])
    <3>. DEFINE I == {i \in 1 .. Len(s) : IsInfo(s[i])}
    <3>1. Min(I) \in I
      <4>1. I \in SUBSET Nat /\ I # {}
        BY <2>2
      <4>. QED BY <4>1, LeastIndex
    <3>2. RemoveFirstMatch(s, IsInfo) = RemoveAt(s, Min(I))
      BY <2>2 DEF RemoveFirstMatch, SelectInSeq
    <3>. QED BY <1>1, <2>1, <3>1, <3>2 DEF IsSevere
  <2>3. CASE ~(\E i \in 1 .. Len(s) : IsInfo(s[i]))
    <3>1. PruneQueue(s) = s
      BY <2>1, <2>3 DEF RemoveFirstMatch
    <3>2. Stuck(s)
      BY <1>3, <2>3, ElementsOf DEF Stuck, IsSevere
    <3>. QED BY <3>1, <3>2
  <2>. QED BY <2>2, <2>3
<1>. QED BY <1>2, <1>3

\* and takes nothing from the queue from which nothing can go.
LEMMA StuckStays ==
  ASSUME NEW s \in Seq(Entry), Stuck(s)
  PROVE  PruneQueue(s) = s
<1>1. \A i \in 1 .. Len(s) : ~IsDebug(s[i]) /\ ~IsInfo(s[i])
  BY ElementsOf DEF Stuck, IsSevere
<1>2. RemoveFirstMatch(s, IsDebug) = s /\ RemoveFirstMatch(s, IsInfo) = s
  BY <1>1 DEF RemoveFirstMatch
<1>. QED BY <1>2 DEF PruneQueue

LEMMA PrunedEffect ==
  ASSUME TypeOK
  PROVE  /\ Pruned \in Seq(Entry) /\ Len(Pruned) <= LiveMax /\ ToSet(Pruned) \subseteq ToSet(live)
         /\ \A e \in ToSet(live) : IsSevere(e) => e \in ToSet(Pruned)
         /\ ~HasRoom(Pruned) => Pruned = live /\ Full
         /\ Full => ~HasRoom(Pruned)
<1>1. live \in Seq(Entry) /\ Len(live) \in Nat /\ Len(live) <= LiveMax /\ LiveMax \in Nat
  BY LoggerAssumption DEF TypeOK
<1>2. CASE HasRoom(live)
  BY <1>1, <1>2 DEF Pruned, Full, HasRoom
<1>3. CASE ~HasRoom(live)
  <2>1. Pruned = PruneQueue(live) /\ Len(live) = LiveMax
    BY <1>1, <1>3 DEF Pruned, HasRoom
  <2>2. CASE PruneQueue(live) = live /\ Stuck(live)
    BY <1>1, <1>3, <2>1, <2>2 DEF Full
  <2>3. CASE Shortened(live, PruneQueue(live))
    <3>1. PruneQueue(live) # live
      BY <1>1, <2>3 DEF Shortened
    <3>2. ~Full
      BY <1>1, <3>1, StuckStays DEF Full
    <3>. QED BY <1>1, <2>1, <2>3, <3>2 DEF Shortened, HasRoom
  <2>. QED BY <1>1, <2>2, <2>3, PruneEffect
<1>. QED BY <1>2, <1>3

\* The latest entries of a sequence, as many as the black box has room for.
Least(n, m) == IF n < m THEN n ELSE m
Latest(s) == SubSeq(s, Len(s) - Least(Len(s), BlackBoxSize) + 1, Len(s))

LEMMA LatestAre ==
  ASSUME NEW s \in Seq(Entry)
  PROVE  /\ Latest(s) \in Seq(Entry) /\ Len(Latest(s)) = Least(Len(s), BlackBoxSize)
         /\ Len(Latest(s)) <= BlackBoxSize
         /\ \A i \in 1 .. Least(Len(s), BlackBoxSize) :
              Latest(s)[i] = s[Len(s) - Least(Len(s), BlackBoxSize) + i]
<1>. DEFINE n == Len(s)
            k == Least(n, BlackBoxSize)
<1>1. n \in Nat /\ k \in Nat /\ k <= n /\ k <= BlackBoxSize
  BY LoggerAssumption DEF Least
<1>2. \A i \in n - k + 1 .. n : s[i] \in Entry
  BY <1>1
<1>3. Latest(s) = SubSeq(s, n - k + 1, n)
  BY DEF Latest
<1>. HIDE DEF k, n
<1>4. /\ Latest(s) \in Seq(Entry)
      /\ Len(Latest(s)) = IF n - k + 1 <= n THEN n - (n - k + 1) + 1 ELSE 0
      /\ \A i \in 1 .. n - (n - k + 1) + 1 : Latest(s)[i] = s[(n - k + 1) + i - 1]
  BY <1>1, <1>2, <1>3, SubSeqProperties
<1>5. Len(Latest(s)) = k /\ \A i \in 1 .. k : Latest(s)[i] = s[n - k + i]
  <2>1. n - (n - k + 1) + 1 = k /\ \A i \in 1 .. k : (n - k + 1) + i - 1 = n - k + i
    BY <1>1
  <2>. QED BY <1>1, <1>4, <2>1
<1>. QED BY <1>1, <1>4, <1>5 DEF k, n

\* Appending to the ring is appending to what it shows the latest entries of.
LEMMA RingStep ==
  ASSUME NEW s \in Seq(Entry), NEW e \in Entry, NEW b, b = Latest(s)
  PROVE  Append(IF Len(b) >= BlackBoxSize THEN PopOldest(b) ELSE b, e) = Latest(Append(s, e))
<1>. DEFINE n == Len(s)
            t == Append(s, e)
            B == BlackBoxSize
            k == Least(n, B)
            kt == Least(n + 1, B)
            rest == IF Len(b) >= B THEN PopOldest(b) ELSE b
<1>1. n \in Nat /\ B \in Nat \ {0} /\ k \in Nat /\ k <= n /\ k <= B /\ kt \in Nat
  BY LoggerAssumption DEF Least
<1>2. /\ t \in Seq(Entry) /\ Len(t) = n + 1 /\ t[n + 1] = e
      /\ \A i \in 1 .. n : t[i] = s[i]
  BY AppendProperties
<1>3. b \in Seq(Entry) /\ Len(b) = k /\ \A i \in 1 .. k : b[i] = s[n - k + i]
  BY LatestAre
<1>4. Latest(t) \in Seq(Entry) /\ Len(Latest(t)) = kt
      /\ \A i \in 1 .. kt : Latest(t)[i] = t[n + 1 - kt + i]
  <2>. HIDE DEF t
  <2>1. /\ Latest(t) \in Seq(Entry) /\ Len(Latest(t)) = Least(Len(t), BlackBoxSize)
        /\ \A i \in 1 .. Least(Len(t), BlackBoxSize) :
             Latest(t)[i] = t[Len(t) - Least(Len(t), BlackBoxSize) + i]
    BY <1>2, LatestAre
  <2>. QED BY <1>2, <2>1
<1>5. /\ rest \in Seq(Entry) /\ Len(rest) = kt - 1 /\ kt >= 1 /\ kt <= n + 1
      /\ \A i \in 1 .. kt - 1 : rest[i] = s[n + 1 - kt + i]
  <2>1. CASE k = B
    <3>1. rest = Tail(b) /\ b # <<>> /\ kt = B
      BY <1>1, <1>3, <2>1, EmptySeq DEF PopOldest, Least
    <3>2. /\ Tail(b) \in Seq(Entry) /\ Len(Tail(b)) = k - 1
          /\ \A i \in 1 .. k - 1 : Tail(b)[i] = b[i + 1]
      BY <1>3, <3>1, HeadTailProperties
    <3>3. \A i \in 1 .. k - 1 : i + 1 \in 1 .. k /\ n - k + (i + 1) = n + 1 - k + i
      BY <1>1
    <3>. HIDE DEF rest, kt, k, n
    <3>. QED BY <1>1, <1>3, <2>1, <3>1, <3>2, <3>3
  <2>2. CASE k # B
    <3>1. rest = b /\ k = n /\ kt = n + 1
      BY <1>1, <1>3, <2>2 DEF Least
    <3>. HIDE DEF rest, kt, k
    <3>. QED BY <1>1, <1>3, <3>1
  <2>. QED BY <2>1, <2>2
<1>. DEFINE r == Append(rest, e)
<1>6. /\ r \in Seq(Entry) /\ Len(r) = kt /\ r[kt] = e
      /\ \A i \in 1 .. kt - 1 : r[i] = rest[i]
  <2>. HIDE DEF rest
  <2>1. /\ r \in Seq(Entry) /\ Len(r) = Len(rest) + 1 /\ r[Len(rest) + 1] = e
        /\ \A i \in 1 .. Len(rest) : r[i] = rest[i]
    BY <1>5, AppendProperties
  <2>2. Len(rest) + 1 = kt
    BY <1>1, <1>5
  <2>. QED BY <1>5, <2>1, <2>2
<1>. HIDE DEF r, rest, t, kt, k
<1>7. ASSUME NEW i \in 1 .. kt PROVE r[i] = Latest(t)[i]
  <2>1. CASE i = kt
    <3>1. n + 1 - kt + i = n + 1
      BY <1>1, <1>5, <2>1
    <3>. QED BY <1>2, <1>4, <1>6, <2>1, <3>1
  <2>2. CASE i # kt
    <3>1. i \in 1 .. kt - 1 /\ n + 1 - kt + i \in 1 .. n
      BY <1>1, <1>5, <2>2
    <3>. QED BY <1>2, <1>4, <1>5, <1>6, <3>1
  <2>. QED BY <2>1, <2>2
<1>8. r = Latest(t)
  BY <1>1, <1>4, <1>6, <1>7, SeqEqual
<1>. QED BY <1>8 DEF r, rest, t

LEMMA LoggerInitInv == Init => LoggerInv
<1> SUFFICES ASSUME Init PROVE LoggerInv
  OBVIOUS
<1>1. ToSet(live) = {}
  BY DEF Init, ToSet
<1>2. TypeOK
  BY LoggerAssumption DEF Init, TypeOK
<1>3. WrittenInv
  BY <1>1, FS_EmptySet DEF Init, WrittenInv, SevereStays
<1>4. BlackBoxIsLatest
  <2>1. debugs = <<>> /\ blackBox = <<>> /\ Len(debugs) = 0
    BY DEF Init
  <2>2. Latest(debugs) = <<>>
    <3>1. debugs \in Seq(Entry)
      BY <2>1
    <3>2. Latest(debugs) \in Seq(Entry) /\ Len(Latest(debugs)) = Least(Len(debugs), BlackBoxSize)
      BY <3>1, LatestAre
    <3>3. Least(Len(debugs), BlackBoxSize) = 0
      BY <2>1, LoggerAssumption DEF Least
    <3>. QED BY <3>2, <3>3, EmptySeq
  <2>. QED BY <2>1, <2>2 DEF BlackBoxIsLatest, Latest, Least
<1>. QED BY <1>2, <1>3, <1>4 DEF LoggerInv

\* What log() does to the queue with an entry e, and what it has written.
LEMMA LogEffect ==
  ASSUME LoggerInv, NEW level \in Level, Log(level), NEW e, e = [no |-> calls + 1, level |-> level]
  PROVE  /\ e \in Entry /\ e \notin ToSet(live) /\ e.no = calls' /\ e.level = level
         /\ \/ /\ live' \in Seq(Entry) /\ Len(live') <= LiveMax
               /\ ToSet(live') \subseteq ToSet(live) \cup {e} /\ e \in ToSet(live')
               /\ \A x \in ToSet(live) : IsSevere(x) => x \in ToSet(live')
               /\ severe' = IF IsSevere(e) THEN severe \cup {e} ELSE severe
               /\ ~Full
            \/ Full /\ live' = live /\ severe' = severe
<1>1. /\ calls \in Nat /\ calls < MaxEntries /\ calls' = calls + 1 /\ MaxEntries \in Nat
      /\ TypeOK
      /\ live' = IF HasRoom(Pruned) THEN Append(Pruned, e) ELSE Pruned
      /\ severe' = IF IsSevere(e) /\ HasRoom(Pruned) THEN severe \cup {e} ELSE severe
  BY LoggerAssumption DEF LoggerInv, TypeOK, Log
<1>2. e \in Entry /\ e.no = calls + 1 /\ e.level = level
  BY <1>1 DEF Entry
<1>3. e \notin ToSet(live)
  BY <1>1, <1>2 DEF LoggerInv, WrittenInv
<1>4. /\ Pruned \in Seq(Entry) /\ Len(Pruned) <= LiveMax /\ ToSet(Pruned) \subseteq ToSet(live)
      /\ \A x \in ToSet(live) : IsSevere(x) => x \in ToSet(Pruned)
      /\ ~HasRoom(Pruned) => Pruned = live /\ Full
      /\ Full => ~HasRoom(Pruned)
  BY <1>1, PrunedEffect
<1>5. CASE HasRoom(Pruned)
  <2>. DEFINE q == Append(Pruned, e)
  <2>1. /\ q \in Seq(Entry) /\ Len(q) = Len(Pruned) + 1 /\ q[Len(Pruned) + 1] = e
        /\ \A i \in 1 .. Len(Pruned) : q[i] = Pruned[i]
    BY <1>2, <1>4, AppendProperties
  <2>2. live' = q
    BY <1>1, <1>5
  <2>. HIDE DEF q
  <2>3. Len(Pruned) \in Nat /\ Len(q) <= LiveMax
    BY <1>4, <1>5, <2>1, LoggerAssumption DEF HasRoom
  <2>4. ToSet(q) = ToSet(Pruned) \cup {e}
    <3>1. ASSUME NEW x \in ToSet(q) PROVE x \in ToSet(Pruned) \cup {e}
      <4>1. PICK i \in 1 .. Len(q) : x = q[i]
        BY <2>1, ElementsOf
      <4>2. i \in 1 .. Len(Pruned) \/ i = Len(Pruned) + 1
        BY <2>1, <2>3
      <4>. QED BY <1>4, <2>1, <4>1, <4>2, ElementsOf
    <3>2. ASSUME NEW x \in ToSet(Pruned) PROVE x \in ToSet(q)
      <4>1. PICK i \in 1 .. Len(Pruned) : x = Pruned[i]
        BY <1>4, ElementsOf
      <4>2. i \in 1 .. Len(q) /\ q[i] = x
        BY <2>1, <2>3, <4>1
      <4>. QED BY <2>1, <4>2, ElementsOf
    <3>3. e \in ToSet(q)
      <4>1. Len(Pruned) + 1 \in 1 .. Len(q)
        BY <2>1, <2>3
      <4>. QED BY <2>1, <4>1, ElementsOf
    <3>. QED BY <3>1, <3>2, <3>3
  <2>5. severe' = IF IsSevere(e) THEN severe \cup {e} ELSE severe
    BY <1>1, <1>5
  <2>. QED BY <1>1, <1>2, <1>3, <1>4, <1>5, <2>1, <2>2, <2>3, <2>4, <2>5
<1>6. CASE ~HasRoom(Pruned)
  BY <1>1, <1>2, <1>3, <1>4, <1>6
<1>. QED BY <1>5, <1>6

LEMMA LogStep == ASSUME LoggerInv, NEW level \in Level, Log(level) PROVE LoggerInv'
<1>. DEFINE e == [no |-> calls + 1, level |-> level]
<1>1. /\ e \in Entry /\ e \notin ToSet(live) /\ e.no = calls' /\ e.level = level
      /\ \/ /\ live' \in Seq(Entry) /\ Len(live') <= LiveMax
            /\ ToSet(live') \subseteq ToSet(live) \cup {e} /\ e \in ToSet(live')
            /\ \A x \in ToSet(live) : IsSevere(x) => x \in ToSet(live')
            /\ severe' = IF IsSevere(e) THEN severe \cup {e} ELSE severe
         \/ live' = live /\ severe' = severe
  BY LogEffect
<1>2. /\ calls \in 0 .. MaxEntries /\ calls < MaxEntries /\ calls' = calls + 1 /\ MaxEntries \in Nat
      /\ AddToBlackBox(e) /\ debugs' = IF IsDebug(e) THEN Append(debugs, e) ELSE debugs
  BY LoggerAssumption DEF LoggerInv, TypeOK, Log
<1>3. /\ live \in Seq(Entry) /\ Len(live) <= LiveMax /\ blackBox \in Seq(Entry)
      /\ Len(blackBox) <= BlackBoxSize /\ debugs \in Seq(Entry) /\ severe \in SUBSET Entry
      /\ WrittenInv
  BY DEF LoggerInv, TypeOK
<1>4. blackBox = Latest(debugs)
  BY DEF LoggerInv, BlackBoxIsLatest, Latest, Least
<1>. HIDE DEF e
<1>5. debugs' \in Seq(Entry) /\ blackBox' = Latest(debugs')
  <2>1. CASE IsDebug(e)
    <3>1. debugs' = Append(debugs, e)
      BY <1>2, <2>1
    <3>2. blackBox' = Append(IF Len(blackBox) >= BlackBoxSize THEN PopOldest(blackBox) ELSE blackBox, e)
      BY <1>2, <2>1 DEF AddToBlackBox
    <3>. QED BY <1>1, <1>3, <1>4, <3>1, <3>2, RingStep, AppendProperties
  <2>2. CASE ~IsDebug(e)
    BY <1>2, <1>3, <1>4, <2>2 DEF AddToBlackBox
  <2>. QED BY <2>1, <2>2
<1>6. TypeOK'
  <2>1. blackBox' \in Seq(Entry) /\ Len(blackBox') <= BlackBoxSize
    BY <1>5, LatestAre
  <2>2. calls' \in 0 .. MaxEntries
    BY <1>2
  <2>. QED BY <1>1, <1>3, <1>5, <2>1, <2>2 DEF TypeOK
<1>7. WrittenInv'
  <2>1. \A x \in ToSet(live') : x.no <= calls'
    <3>1. \A x \in ToSet(live') : x \in ToSet(live) \/ x = e
      BY <1>1
    <3>2. \A x \in ToSet(live) : x.no <= calls /\ x.no \in Nat
      <4>1. \A x \in ToSet(live) : x \in Entry
        BY <1>3, ElementsOf
      <4>. QED BY <1>2, <1>3, <4>1 DEF WrittenInv, Entry
    <3>. QED BY <1>1, <1>2, <3>1, <3>2
  <2>2. IsFiniteSet(severe')
    <3>1. IsFiniteSet(severe \cup {e})
      BY <1>3, FS_AddElement DEF WrittenInv
    <3>. QED BY <1>1, <1>3, <3>1 DEF WrittenInv
  <2>3. \A x \in severe' : IsSevere(x)
    BY <1>1, <1>3 DEF WrittenInv
  <2>4. SevereStays'
    BY <1>1, <1>3 DEF WrittenInv, SevereStays
  <2>. QED BY <2>1, <2>2, <2>3, <2>4 DEF WrittenInv
<1>8. BlackBoxIsLatest'
  BY <1>5 DEF BlackBoxIsLatest, Latest, Least
<1>. QED BY <1>6, <1>7, <1>8 DEF LoggerInv

\* What has been counted, and what is about to be, was written as a WARN, as long as
\* the queue could take it.
Warned  == {e \in severe : IsWarn(e)}
Counted == failures + (IF stage = "failure" THEN 1 ELSE 0)

WarnedInv == page.failures <= failures /\ (Full \/ Counted <= Cardinality(Warned))

LEMMA WarnedIsFinite ==
  ASSUME LoggerInv
  PROVE  IsFiniteSet(Warned) /\ Cardinality(Warned) \in Nat
<1>1. Warned \in SUBSET severe
  BY DEF Warned
<1>. QED BY <1>1, FS_Subset, FS_CardinalityType DEF LoggerInv, WrittenInv

\* A call of log() keeps a full queue full, and what was written; a WARN is one more.
LEMMA LogWarned ==
  ASSUME LoggerInv, NEW level \in Level, Log(level)
  PROVE  /\ Full => Full'
         /\ Cardinality(Warned') \in Nat
         /\ Full' \/ Cardinality(Warned') >= Cardinality(Warned) + (IF level = "Warn" THEN 1 ELSE 0)
<1>. DEFINE e == [no |-> calls + 1, level |-> level]
<1>1. /\ e \notin ToSet(live) /\ e.level = level
      /\ \/ severe' = (IF IsSevere(e) THEN severe \cup {e} ELSE severe) /\ ~Full
         \/ Full /\ live' = live /\ severe' = severe
  BY LogEffect
<1>2. SevereStays /\ IsFiniteSet(Warned) /\ Cardinality(Warned) \in Nat
  BY WarnedIsFinite DEF LoggerInv, WrittenInv
<1>. HIDE DEF e
<1>3. Cardinality(Warned') \in Nat
  <2>1. LoggerInv'
    BY LogStep
  <2>2. IsFiniteSet(severe') /\ Warned' \in SUBSET severe'
    BY <2>1 DEF LoggerInv, WrittenInv, Warned
  <2>. QED BY <2>2, FS_Subset, FS_CardinalityType
<1>4. CASE ~Full /\ level = "Warn"
  <2>1. Warned' = Warned \cup {e} /\ e \notin Warned
    BY <1>1, <1>2, <1>4 DEF Warned, SevereStays, IsSevere, IsDebug, IsInfo, IsWarn
  <2>2. Cardinality(Warned \cup {e}) = Cardinality(Warned) + 1
    BY <1>2, <2>1, FS_AddElement
  <2>. QED BY <1>2, <1>4, <2>1, <2>2
<1>5. CASE ~Full /\ level # "Warn"
  <2>1. Warned' = Warned
    BY <1>1, <1>5 DEF Warned, IsWarn
  <2>. QED BY <1>2, <1>5, <2>1
<1>6. CASE Full /\ live' = live
  BY <1>3, <1>6 DEF Full
<1>. QED BY <1>1, <1>3, <1>4, <1>5, <1>6

LEMMA WarnedStep ==
  LoggerInv /\ MetricsTypeOK /\ MetricsTypeOK' /\ WarnedInv /\ [TelemetryNext]_allVars => WarnedInv'
<1> SUFFICES ASSUME LoggerInv, MetricsTypeOK, MetricsTypeOK', WarnedInv, [TelemetryNext]_allVars
             PROVE  WarnedInv'
  OBVIOUS
<1>1. /\ failures \in Nat /\ page \in Page /\ Cardinality(Warned) \in Nat
      /\ page.failures <= failures /\ (Full \/ Counted <= Cardinality(Warned))
  BY WarnedIsFinite DEF MetricsTypeOK, WarnedInv
<1>2. CASE WarnOfFailure
  <2>1. /\ Log("Warn") /\ "Warn" \in Level /\ stage = "idle" /\ stage' = "failure"
        /\ failures' = failures /\ page' = page
    BY <1>2 DEF WarnOfFailure, Failing, cellVars, renderVars, Level
  <2>2. /\ Full => Full'
        /\ Full' \/ Cardinality(Warned') >= Cardinality(Warned) + 1
        /\ Cardinality(Warned') \in Nat
    BY <2>1, LogWarned
  <2>3. Counted = failures /\ Counted' = failures + 1
    BY <1>1, <2>1 DEF Counted
  <2>. QED BY <1>1, <2>1, <2>2, <2>3 DEF WarnedInv
<1>3. ASSUME NEW level \in Level, Log(level), failures' = failures, page' = page,
             stage' = stage \/ (stage = "idle" /\ stage' = "delay")
      PROVE  WarnedInv'
  <2>1. /\ Full => Full'
        /\ Full' \/ Cardinality(Warned') >= Cardinality(Warned)
        /\ Cardinality(Warned') \in Nat
    <3>1. /\ Full => Full'
          /\ Cardinality(Warned') \in Nat
          /\ Full' \/ Cardinality(Warned')
                        >= Cardinality(Warned) + (IF level = "Warn" THEN 1 ELSE 0)
      BY <1>3, LogWarned
    <3>. QED BY <1>1, <3>1
  <2>2. Counted' = Counted /\ Counted \in Nat
    BY <1>1, <1>3 DEF Counted
  <2>. QED BY <1>1, <1>3, <2>1, <2>2 DEF WarnedInv
<1>4. CASE DebugOfDelay
  <2>1. /\ Log("Debug") /\ "Debug" \in Level /\ stage = "idle" /\ stage' = "delay"
        /\ failures' = failures /\ page' = page
    BY <1>4 DEF DebugOfDelay, Delaying, cellVars, renderVars, Level
  <2>. QED BY <1>3, <2>1
<1>5. CASE OtherEntry
  BY <1>3, <1>5 DEF OtherEntry, metricsVars, cellVars, loopVars, renderVars
<1>6. ASSUME UNCHANGED vars, Counted' = Counted, failures' >= failures,
             page'.failures = page.failures \/ page'.failures = failures'
      PROVE  WarnedInv'
  <2>1. (Full' <=> Full) /\ Warned' = Warned
    BY <1>6 DEF vars, Full, Warned
  <2>2. failures' \in Nat /\ page.failures \in Nat
    BY <1>1 DEF MetricsTypeOK, Page
  <2>. QED BY <1>1, <1>6, <2>1, <2>2 DEF WarnedInv
<1>7. CASE Cells /\ UNCHANGED vars
  <2>1. page' = page /\ Counted' = Counted /\ failures' >= failures
    <3>1. CASE IncrementConnectFailures
      BY <1>1, <3>1 DEF IncrementConnectFailures, Counted, renderVars
    <3>2. CASE IncrementPacketsDelayed
      BY <1>1, <3>2 DEF IncrementPacketsDelayed, Counted, renderVars, After
    <3>3. CASE ObserveSum
      BY <1>1, <3>3 DEF ObserveSum, Counted, renderVars, After
    <3>4. CASE ObserveCount
      BY <1>1, <3>4 DEF ObserveCount, Counted, renderVars, After
    <3>5. CASE ObserveBucket
      BY <1>1, <3>5 DEF ObserveBucket, Counted, renderVars, After
    <3>. QED BY <1>7, <3>1, <3>2, <3>3, <3>4, <3>5 DEF Cells
  <2>. QED BY <1>6, <1>7, <2>1
<1>8. CASE Render /\ UNCHANGED vars
  <2>1. failures' = failures /\ stage' = stage
    BY <1>8 DEF Render, RenderDelayed, RenderFailures, RenderBucket, RenderInf, RenderSum,
                RenderCount, cellVars, loopVars
  <2>2. page'.failures = page.failures \/ page'.failures = failures
    BY <1>1, <1>8 DEF Render, RenderDelayed, RenderFailures, RenderBucket, RenderInf, RenderSum,
                      RenderCount, Page
  <2>. QED BY <1>1, <1>6, <1>8, <2>1, <2>2 DEF Counted
<1>9. CASE UNCHANGED allVars
  BY <1>1, <1>6, <1>9 DEF allVars, metricsVars, cellVars, loopVars, renderVars, Counted
<1>. QED BY <1>2, <1>4, <1>5, <1>7, <1>8, <1>9 DEF TelemetryNext

-----------------------------------------------------------------------------
(* The theorems. *)

\* Whatever the process logs, to its metrics it does what Metrics says.
THEOREM MetricsAlone == TelemetrySpec => MetricsSpec
<1>1. TelemetryInit => MetricsInit
  BY DEF TelemetryInit
<1>2. [TelemetryNext]_allVars => [Counting \/ Cells \/ Render]_metricsVars
  BY DEF TelemetryNext, WarnOfFailure, DebugOfDelay, OtherEntry, allVars, Counting
<1>. QED BY <1>1, <1>2, PTL DEF TelemetrySpec, MetricsSpec

\* No interleaving of an observation with a page breaks what holds between cells and lines.
THEOREM Invariance == TelemetrySpec => []MetricsInv
<1>1. MetricsInv /\ UNCHANGED metricsVars => MetricsInv'
  <2> SUFFICES ASSUME MetricsInv, UNCHANGED metricsVars PROVE MetricsInv'
    OBVIOUS
  <2>1. UNCHANGED <<failures, delayed, sum, count, bucket, counted, stage, value, toFill,
                    rendering, toRender, page>>
    BY DEF metricsVars, cellVars, loopVars, renderVars
  <2>2. MetricsTypeOK'
    BY <2>1 DEF MetricsInv, MetricsTypeOK
  <2>3. CellInv'
    BY <2>1 DEF MetricsInv, CellInv, Done, Holds
  <2>4. PageInv'
    BY <2>1 DEF MetricsInv, PageInv, PageBehind, BucketLoaded
  <2>. QED BY <2>2, <2>3, <2>4 DEF MetricsInv
<1>. QED BY <1>1, MetricsInitInv, CountingStep, CellsStep, RenderStep, MetricsAlone, PTL
     DEF MetricsSpec

\* Every cell is a count, and the histogram is behind the counter of delayed packets by
\* one at most (MetricsRegistry.cpp:13-22).
THEOREM MetricsTyped == TelemetrySpec => []MetricsTypeOK
<1>1. MetricsInv => MetricsTypeOK
  BY DEF MetricsInv
<1>. QED BY <1>1, Invariance, PTL

\* A complete page: no bucket above +Inf, +Inf not above _count, and _sum with all
\* that +Inf counts (MetricsRegistry.cpp:24-37).
THEOREM LinesOrdered == TelemetrySpec => []LinesInOrder
<1>1. MetricsInv => LinesInOrder
  BY DEF MetricsInv, PageInv, LinesInOrder, InfIsLargest, SumCoversInf, Complete
<1>. QED BY <1>1, Invariance, PTL

\* Buckets are cumulative but for one observation, and _count lies between the delays
\* counted before the page was begun, less one, and those counted when it is complete,
\* however many buckets there are and however long the page takes
\* (MetricsRegistry.cpp:68-116, Session.cpp:235-239).
THEOREM PageOfItsRendering == TelemetrySpec => []OfItsRendering
<1>1. ASSUME MetricsInv PROVE page.count <= delayed
  <2>1. page.count \in Nat /\ page.count <= count /\ count \in Nat /\ delayed \in Nat
        /\ count <= delayed
    BY <1>1 DEF MetricsInv, PageInv, PageBehind, MetricsTypeOK, Page
  <2>. QED BY <2>1
<1>2. MetricsInv => OfItsRendering
  BY <1>1 DEF MetricsInv, PageInv, BucketLoaded, OfItsRendering, NearlyCumulative, DelaysCovered,
              Complete
<1>. QED BY <1>2, Invariance, PTL

\* To its log the process does what Logger says.
THEOREM LoggerAlone == TelemetrySpec => Spec
<1>1. TelemetryInit => Init
  BY DEF TelemetryInit
<1>2. [TelemetryNext]_allVars => [Next]_vars
  BY DEF TelemetryNext, WarnOfFailure, DebugOfDelay, OtherEntry, allVars, Next, Level
<1>. QED BY <1>1, <1>2, PTL DEF TelemetrySpec, Spec

\* Queue, file and ring agree with what was logged, whatever is logged, pruned or written.
THEOREM LoggerInvariance == Spec => []LoggerInv
<1>1. LoggerInv /\ UNCHANGED vars => LoggerInv'
  <2> SUFFICES ASSUME LoggerInv, UNCHANGED vars PROVE LoggerInv'
    OBVIOUS
  <2>1. UNCHANGED <<live, blackBox, calls, debugs, severe>>
    BY DEF vars
  <2>. QED BY <2>1 DEF LoggerInv, TypeOK, WrittenInv, SevereStays, BlackBoxIsLatest
<1>2. LoggerInv /\ [Next]_vars => LoggerInv'
  BY <1>1, LogStep DEF Next
<1>. QED BY <1>2, LoggerInitInv, PTL DEF Spec

\* Every cell is a count and every entry an entry, and neither queue outgrows its limit.
THEOREM TelemetryTyped == TelemetrySpec => []TelemetryTypeOK
<1>1. LoggerInv /\ MetricsTypeOK => TelemetryTypeOK
  BY DEF LoggerInv, TelemetryTypeOK
<1>. QED BY <1>1, LoggerAlone, LoggerInvariance, MetricsTyped, PTL

\* pruneQueue() makes room with DEBUG and INFO entries only, whoever logs what
\* (Logger.cpp:38-43, 62-93).
THEOREM SevereKept == TelemetrySpec => []SevereStays
<1>1. LoggerInv => SevereStays
  BY DEF LoggerInv, WrittenInv
<1>. QED BY <1>1, LoggerAlone, LoggerInvariance, PTL

\* The black box has the latest DEBUG entries in their order, for any size of the ring
\* and of the queue that lost them (Logger.cpp:25-35).
THEOREM BlackBoxKept == TelemetrySpec => []BlackBoxIsLatest
<1>1. LoggerInv => BlackBoxIsLatest
  BY DEF LoggerInv
<1>. QED BY <1>1, LoggerAlone, LoggerInvariance, PTL

\* An entry goes unwritten only if all that is queued is WARN or ERROR
\* (Logger.cpp:38-46).
THEOREM SilentStuck == TelemetrySpec => SilentOnlyWhenStuck
<1>1. ASSUME LoggerInv, NEW level \in Level, Log(level), \A e \in ToSet(live') : e.no # calls'
      PROVE  \A e \in ToSet(live') : IsSevere(e)
  <2>. DEFINE e == [no |-> calls + 1, level |-> level]
  <2>1. e.no = calls' /\ (e \in ToSet(live') \/ (Full /\ live' = live))
    BY <1>1, LogEffect
  <2>. QED BY <1>1, <2>1 DEF Full, Stuck
<1>2. LoggerInv /\ [Next]_vars =>
        [(\A e \in ToSet(live') : e.no # calls') => (\A e \in ToSet(live') : IsSevere(e))]_vars
  BY <1>1 DEF Next
<1>. QED BY <1>2, LoggerAlone, LoggerInvariance, PTL DEF Spec, SilentOnlyWhenStuck

\* A failed connect that a page counts can be read about, at whatever point of the two
\* lines the page was rendered and however much was logged since, unless the queue was
\* full of WARN and ERROR entries (Session.cpp:98-100, 559-562, Logger.cpp:38-43).
THEOREM WarnedOf == TelemetrySpec => []FailuresAreWarned
<1>1. TelemetryInit => WarnedInv
  <2> SUFFICES ASSUME TelemetryInit PROVE WarnedInv
    OBVIOUS
  <2>1. failures = 0 /\ stage = "idle" /\ page.failures = 0 /\ severe = {}
    BY DEF TelemetryInit, Init, MetricsInit, EmptyPage
  <2>2. Warned = {}
    BY <2>1 DEF Warned
  <2>. QED BY <2>1, <2>2, FS_EmptySet DEF WarnedInv, Counted
<1>2. TelemetrySpec => []WarnedInv
  BY <1>1, WarnedStep, LoggerAlone, LoggerInvariance, MetricsTyped, PTL DEF TelemetrySpec
<1>3. LoggerInv /\ MetricsTypeOK /\ WarnedInv => FailuresAreWarned
  <2> SUFFICES ASSUME LoggerInv, MetricsTypeOK, WarnedInv, ~Full PROVE FailuresAreWarned
    BY DEF Full, Stuck, FailuresAreWarned
  <2>. DEFINE queued == {e \in ToSet(live) : IsWarn(e)}
  <2>1. failures \in Nat /\ page.failures \in Nat /\ Cardinality(Warned) \in Nat
    BY WarnedIsFinite DEF MetricsTypeOK, Page
  <2>2. page.failures <= Cardinality(Warned)
    BY <2>1 DEF WarnedInv, Counted
  <2>3. IsFiniteSet(queued) /\ Warned \in SUBSET queued
    <3>1. IsFiniteSet(ToSet(live))
      BY ElementsFinite DEF LoggerInv, TypeOK
    <3>2. queued \in SUBSET ToSet(live)
      OBVIOUS
    <3>3. Warned \in SUBSET queued
      BY DEF Warned, LoggerInv, WrittenInv, SevereStays
    <3>. QED BY <3>1, <3>2, <3>3, FS_Subset
  <2>4. Cardinality(Warned) <= Cardinality(queued) /\ Cardinality(queued) \in Nat
    BY <2>3, FS_Subset, FS_CardinalityType
  <2>. QED BY <2>1, <2>2, <2>4 DEF FailuresAreWarned
<1>. QED BY <1>2, <1>3, LoggerAlone, LoggerInvariance, MetricsTyped, PTL
==============================================================================
