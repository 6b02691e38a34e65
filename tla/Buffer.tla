-------------------------------- MODULE Buffer --------------------------------
(***************************************************************************)
(* A write buffer (src/src/Buffer.cpp): an array, of which the bytes from   *)
(* readPos up to writePos are queued.  It is linear, not a ring: space is   *)
(* regained by moving the queued bytes to the front.                        *)
(***************************************************************************)
EXTENDS Integers, Sequences

CONSTANTS
  Capacity,   \* DEFAULT_CAPACITY
  Blank       \* what an array cell holds before it is written

ASSUME CapacityAssumption == Capacity \in Nat

Cells == 0..(Capacity - 1)

EmptyBuffer == [data |-> [i \in Cells |-> Blank], readPos |-> 0, writePos |-> 0, size |-> 0]

Buffers(S) ==
  [data : [Cells -> S], readPos : 0..Capacity, writePos : 0..Capacity, size : 0..Capacity]

\* The queued bytes lie side by side in the array.
Geometry(b) == b.writePos = b.readPos + b.size

\* compact(): memmove of the queued bytes, and only of those
Compact(b) ==
  [data     |-> [i \in Cells |-> IF i < b.size THEN b.data[b.readPos + i] ELSE b.data[i]],
   readPos  |-> 0,
   writePos |-> b.size,
   size     |-> b.size]

NeedsCompact(b, n) == b.writePos + n > Capacity /\ b.readPos > 0

MakeRoom(b, n) == IF NeedsCompact(b, n) THEN Compact(b) ELSE b

\* How many of n bytes append() takes.
Fits(b, n) ==
  LET space == Capacity - MakeRoom(b, n).writePos
  IN  IF n <= space THEN n ELSE space

\* append() of the bytes of a sequence
AppendCopied(b, bytes) ==   \* mutant: size_ counts what was offered, not what was copied
  LET c == MakeRoom(b, Len(bytes))
      w == Fits(b, Len(bytes))
  IN  [data     |-> [i \in Cells |-> IF i >= c.writePos /\ i < c.writePos + w
                                       THEN bytes[i - c.writePos + 1] ELSE c.data[i]],
       readPos  |-> c.readPos,
       writePos |-> c.writePos + w,
       size     |-> c.size + Len(bytes)]
AppendBytes(b, bytes) ==
  LET c == MakeRoom(b, Len(bytes))
      w == Fits(b, Len(bytes))
  IN  [data     |-> [i \in Cells |-> IF i >= c.writePos /\ i < c.writePos + w
                                       THEN bytes[i - c.writePos + 1] ELSE c.data[i]],
       readPos  |-> c.readPos,
       writePos |-> c.writePos + w,
       size     |-> c.size + w]

\* consume(): the positions go back to the front when nothing is left.
ConsumeToFront(b, n) ==   \* mutant: always goes back to the front
  LET taken == IF n <= b.size THEN n ELSE b.size
  IN  [b EXCEPT !.readPos = 0, !.writePos = b.size - taken, !.size = @ - taken]
ConsumeBytes(b, n) ==
  LET taken == IF n <= b.size THEN n ELSE b.size
      empty == taken = b.size
  IN  [data     |-> b.data,
       readPos  |-> IF empty THEN 0 ELSE b.readPos + taken,
       writePos |-> IF empty THEN 0 ELSE b.writePos,
       size     |-> b.size - taken]
==============================================================================
