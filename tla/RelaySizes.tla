------------------------------ MODULE RelaySizes ------------------------------
(***************************************************************************)
(* One direction of a session by its sizes alone: how many bytes wait in    *)
(* the delay queue and in the write buffer, how many were handed to the     *)
(* write in progress, and whether the reader is paused.  A direction of     *)
(* Session.tla behaves like this, and so do the bytes of SendPath.tla.      *)
(***************************************************************************)
EXTENDS Naturals

CONSTANTS Capacity, HighWater, LowWater, ReadSizes

VARIABLES size, inflight, busy, paused, delayed, open

sizes == <<size, inflight, busy, paused, delayed, open>>

Init ==
  /\ size = 0 /\ inflight = 0 /\ busy = FALSE
  /\ paused = FALSE /\ delayed = 0 /\ open = TRUE

\* append() takes what fits.
Queue(n) == size' = IF size + n > Capacity THEN Capacity ELSE size + n

\* startClientWrite, startServerWrite: with no write in progress, the next begins.
StartWrite ==
  /\ busy' = (open /\ size' > 0)
  /\ inflight' = IF busy' THEN size' ELSE 0

StartIfIdle == IF busy THEN UNCHANGED <<busy, inflight>> ELSE StartWrite

\* A read while the reader is not paused: its packet is forwarded, delayed (older
\* ones may have to go), or neither, which may pause the reader for a stall.
Forward(n) ==
  /\ Queue(n) /\ StartIfIdle
  /\ paused' = (size' >= HighWater)
  /\ UNCHANGED <<delayed, open>>

Delay(n) ==
  /\ \E kept \in 0..delayed : delayed' = kept + n
  /\ paused' = (size >= HighWater)
  /\ UNCHANGED <<size, busy, inflight, open>>

Neither ==
  /\ paused' \in {size >= HighWater, TRUE}
  /\ open' \in {open, FALSE}
  /\ UNCHANGED <<size, busy, inflight, delayed>>

Read(n) == ~paused /\ (Forward(n) \/ Delay(n) \/ Neither)

\* The first n bytes of the delay queue are due; no watermark is looked at.
Flush(n) ==
  /\ delayed' = delayed - n
  /\ Queue(n) /\ StartIfIdle
  /\ UNCHANGED <<paused, open>>

\* A completed write consumes what it was handed and starts the next.
WriteDone ==
  /\ busy /\ size' = size - inflight
  /\ paused' = (paused /\ size' > LowWater)
  /\ StartWrite
  /\ open' = open \/ (open' = FALSE /\ size' = 0)
  /\ UNCHANGED delayed

\* A failed write, or one that is cancelled, closes its half.
WriteFails ==
  /\ busy /\ busy' = FALSE /\ inflight' = 0 /\ open' = FALSE
  /\ UNCHANGED <<size, paused, delayed>>

Close == open' = FALSE /\ UNCHANGED <<size, inflight, busy, paused, delayed>>

Next ==
  \/ \E n \in ReadSizes : Read(n)
  \/ \E n \in 0..delayed : Flush(n)
  \/ WriteDone \/ WriteFails \/ Close

Spec == Init /\ [][Next]_sizes
==============================================================================
