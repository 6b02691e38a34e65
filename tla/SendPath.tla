------------------------------- MODULE SendPath -------------------------------
(***************************************************************************)
(* The bytes of one direction, from the read that brings them to the peer   *)
(* that receives them: the delay queue, the write buffer and the            *)
(* asynchronous write, which sends from the buffer's own memory in parts    *)
(* while reads and delay flushes append to it (Session.cpp:147-461).        *)
(*                                                                          *)
(* A byte is its position in the stream, counted from 1 (a unit of 8K or    *)
(* 16K bytes in the runs).  Timing of the delay queue is in DelayFlush.tla, *)
(* the closing of the direction in Session.tla.                             *)
(***************************************************************************)
EXTENDS Buffer

CONSTANTS
  HighWater, LowWater,   \* the watermarks of the buffer
  ReadMax,               \* size of the read array
  ReadSizes,             \* how many bytes a read may bring
  Decisions,             \* what the profile may decide about a packet
  DelayCap,              \* DelayQueue::MAX_BYTES
  MaxBytes               \* bound: bytes read

ASSUME SendAssumption ==
  /\ HighWater \in Nat /\ LowWater \in Nat /\ ReadMax \in Nat /\ MaxBytes \in Nat
  /\ DelayCap \in Nat /\ ReadMax <= DelayCap
  /\ LowWater < HighWater /\ HighWater <= Capacity
  /\ ReadSizes \subseteq 1..ReadMax
  /\ Decisions \subseteq {"Forward", "Delay", "Drop", "HalfClose", "Stall"}

VARIABLES
  produced,   \* bytes read so far
  paused,     \* clientReadPaused_, serverReadPaused_
  delayed,    \* the bytes in the delay queue, in the order of their release
  b,          \* the write buffer
  busy,       \* the write-in-progress flag
  window,     \* the memory the write in progress (or the last, if it failed) sends from,
              \* and how much it has sent
  open,       \* clientWriteOpen, serverWriteOpen
  received,   \* the bytes the peer got
  lost,       \* how many bytes append() did not take
  discarded,  \* how many bytes a decision or the full delay queue gave up
  moved,      \* the buffer was compacted under a write in progress
  held        \* a packet has been delayed

vars == <<produced, paused, delayed, b, busy, window, open, received, lost, discarded,
          moved, held>>

NoWindow == [pos |-> 0, len |-> 0, sent |-> 0]

Init ==
  /\ produced = 0 /\ paused = FALSE /\ delayed = <<>>
  /\ b = EmptyBuffer /\ busy = FALSE /\ window = NoWindow /\ open = TRUE
  /\ received = <<>> /\ lost = 0 /\ discarded = 0 /\ moved = FALSE /\ held = FALSE

Bytes(first, n) == [i \in 1..n |-> first + i - 1]

\* dataToSend(): the queued bytes, by their place in the array
StartWriteOf(buffer) ==
  IF buffer.size > 0
    THEN busy' = TRUE /\ window' = [pos |-> buffer.readPos, len |-> buffer.size, sent |-> 0]
    ELSE busy' = FALSE /\ window' = NoWindow

\* startClientWrite, startServerWrite: nothing if a write is in progress or the half closed.
StartWriteAlways == StartWriteOf(b')   \* mutant: ignores the write in progress
StartWriteIfIdle == IF busy \/ ~open THEN UNCHANGED <<busy, window>> ELSE StartWriteOf(b')

\* append() with its result ignored, then startClientWrite or startServerWrite.
AppendAndSend(bytes) ==
  /\ b' = AppendBytes(b, bytes)
  /\ lost' = lost + (Len(bytes) - Fits(b, Len(bytes)))
  /\ moved' = (moved \/ (busy /\ NeedsCompact(b, Len(bytes))))
  /\ StartWriteIfIdle

PauseAboveHigh(size) == size > HighWater   \* mutant: off by one
ShouldPauseReading(size) == size >= HighWater

-----------------------------------------------------------------------------
(* What becomes of the n bytes of a packet read. *)

Forward(n) ==
  /\ AppendAndSend(Bytes(produced + 1, n))
  /\ paused' = ShouldPauseReading(b'.size)
  /\ UNCHANGED <<delayed, open, discarded, held>>

\* A packet is put where its release time has its place.
PutAt(q, at, bytes) == SubSeq(q, 1, at) \o bytes \o SubSeq(q, at + 1, Len(q))

\* DelayQueue::push: packets due first are dropped until the new one fits.  Where
\* one packet ends is not kept, so that the last one dropped may have any size.
Delay(n) ==
  /\ \E k \in 0..Len(delayed) :
       /\ Len(delayed) - k + n <= DelayCap
       /\ k > 0 => Len(delayed) - k + n + ReadMax > DelayCap
       /\ \E at \in 0..(Len(delayed) - k) :
            delayed' = PutAt(SubSeq(delayed, k + 1, Len(delayed)), at, Bytes(produced + 1, n))
       /\ discarded' = discarded + k
  /\ held' = TRUE
  /\ paused' = ShouldPauseReading(b.size)
  /\ UNCHANGED <<b, busy, window, open, lost, moved>>

\* Drop, HalfClose and Stall give the packet up; HalfClose closes the half it would
\* have been written to, Stall pauses the reader whatever is queued.
GiveUp(n, action) ==
  /\ discarded' = discarded + n
  /\ open' = (open /\ action # "HalfClose")
  /\ paused' = (action = "Stall" \/ ShouldPauseReading(b.size))
  /\ UNCHANGED <<delayed, b, busy, window, lost, moved, held>>

\* onClientRead with processClientData, onServerRead with processServerData
OnRead(n) ==
  /\ ~paused /\ produced + n <= MaxBytes
  /\ produced' = produced + n
  /\ \/ "Forward" \in Decisions /\ Forward(n)
     \/ "Delay" \in Decisions /\ Delay(n)
     \/ \E action \in Decisions \ {"Forward", "Delay"} : GiveUp(n, action)
  /\ UNCHANGED received

-----------------------------------------------------------------------------
(* What is queued leaves. *)

\* flushDelayQueues: the packets with the first k bytes are due.  The code
\* appends them one by one; the queued bytes, those refused and the memory a
\* write is sending from come out the same.
OnDelayExpired(k) ==
  /\ k \in 1..Len(delayed)
  /\ delayed' = SubSeq(delayed, k + 1, Len(delayed))
  /\ AppendAndSend(SubSeq(delayed, 1, k))
  /\ UNCHANGED <<produced, paused, open, received, discarded, held>>

\* The kernel takes the next k bytes of the window, as they are in memory now.
KernelSends(k) ==
  /\ busy /\ open /\ k \in 1..(window.len - window.sent)
  /\ received' = received \o [i \in 1..k |-> b.data[window.pos + window.sent + i - 1]]
  /\ window' = [window EXCEPT !.sent = @ + k]
  /\ UNCHANGED <<produced, paused, delayed, b, busy, open, lost, discarded, moved, held>>

ShouldResumeReading(size) == size <= LowWater

\* onServerWrite, onClientWrite: asio has sent the whole window.  If the buffer is
\* empty and the reader has ended (Session.tla), the half is closed.
OnWriteEarly ==   \* mutant: starts the next write before consume()
  /\ busy /\ window.sent = window.len
  /\ b' = ConsumeBytes(b, window.sent)
  /\ paused' = (paused /\ ~ShouldResumeReading(b'.size))
  /\ IF open THEN StartWriteOf(b) ELSE busy' = FALSE /\ window' = NoWindow
  /\ open' \in {open, open /\ b'.size > 0}
  /\ UNCHANGED <<produced, delayed, received, lost, discarded, moved, held>>
OnWrite ==
  /\ busy /\ window.sent = window.len
  /\ b' = ConsumeBytes(b, window.sent)
  /\ paused' = (paused /\ ~ShouldResumeReading(b'.size))
  /\ IF open THEN StartWriteOf(b') ELSE busy' = FALSE /\ window' = NoWindow
  /\ open' \in {open, open /\ b'.size > 0}
  /\ UNCHANGED <<produced, delayed, received, lost, discarded, moved, held>>

\* ... or the write failed or was cancelled: nothing is consumed, the half is closed.
OnWriteError ==
  /\ busy /\ window.sent < window.len
  /\ busy' = FALSE /\ open' = FALSE
  /\ UNCHANGED <<produced, paused, delayed, b, window, received, lost, discarded, moved, held>>

\* forceClose() closes the half; Session.tla has when.
ForceClose ==
  /\ open /\ open' = FALSE
  /\ UNCHANGED <<produced, paused, delayed, b, busy, window, received, lost, discarded,
                 moved, held>>

Next ==
  \/ \E n \in ReadSizes : OnRead(n)
  \/ \E k \in 1..Len(delayed) : OnDelayExpired(k)
  \/ \E k \in 1..Capacity : KernelSends(k)
  \/ OnWrite \/ OnWriteError \/ ForceClose

Spec == Init /\ [][Next]_vars

-----------------------------------------------------------------------------
(* Properties. *)

Byte == {Blank} \cup 1..MaxBytes   \* what a cell of the array can hold

\* Types; append(), compact() and consume() keep the positions of the buffer
\* within its array and size_ equal to what lies between them (Geometry).
TypeOK ==
  /\ produced \in 0..MaxBytes /\ paused \in BOOLEAN /\ busy \in BOOLEAN
  /\ b \in Buffers(Byte) /\ Geometry(b)
  /\ window \in [pos : Nat, len : 0..Capacity, sent : 0..Capacity]
  /\ open \in BOOLEAN /\ lost \in Nat /\ discarded \in Nat
  /\ moved \in BOOLEAN /\ held \in BOOLEAN
  /\ delayed \in Seq(Byte) /\ received \in Seq(Byte)

\* Every byte read is with the peer, in the buffer, in the delay queue, was refused
\* by append(), or was given up by a decision or for a later packet of a full delay
\* queue: none is counted twice and none is forgotten, whatever is appended while a
\* write is in progress and whichever write fails.
BytesConserved ==
  produced = Len(received) + (b.size - window.sent) + Len(delayed) + lost + discarded

\* The write in progress sends from inside the array and never more than is
\* queued: consume() of what it sent takes exactly that.
WindowQueued ==
  busy => /\ window.pos + window.len <= Capacity
          /\ window.sent <= window.len /\ window.len <= b.size

\* Every packet was forwarded at once, and all of it (a packet given up leaves a gap,
\* and packets forwarded overtake those delayed, by design).
AllForwarded == lost = 0 /\ discarded = 0 /\ ~held

\* As long as the buffer was not compacted under a write, the peer gets the bytes in
\* order: a prefix of what was read.
InOrderUnlessMoved == ~moved /\ AllForwarded => received = Bytes(1, Len(received))

\* A direction that is not paused has HighWater - 1 queued bytes at most: a
\* long write cannot let its reader run on.  (A delay flush can: flushDelayQueues
\* appends without looking at the watermark.)
UnpausedBelowHigh == ~held /\ ~paused => b.size < HighWater

\* Buffer.hpp:69 "Get asio const buffer for async_write": what async_write
\* sends is what was queued when it started, and so the peer gets what was
\* read, in order.
StreamInOrder == AllForwarded => received = Bytes(1, Len(received))

\* README.md:13 "Backpressure handling - high/low watermarks": the watermark
\* stops the reader before the buffer refuses bytes.
NoSilentLoss == lost = 0
==============================================================================
