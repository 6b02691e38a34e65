---------------------------- MODULE SendPathProofs ----------------------------
(***************************************************************************)
(* Proofs about SendPath for every capacity, watermark, read size and       *)
(* number of bytes: no byte is miscounted, the write in progress stays      *)
(* within the queued bytes, order holds until the buffer is compacted under *)
(* a write, and append() refuses nothing if the high watermark leaves room  *)
(* for one read.                                                            *)
(***************************************************************************)
EXTENDS SendPath, TLAPS

-----------------------------------------------------------------------------
(* The buffer: what append(), compact() and consume() do to the queued bytes.  This *)
(* justifies the buffers of Session, which only count.                             *)

LEMMA EmptyType ==
  ASSUME NEW S, Blank \in S
  PROVE  Geometry(EmptyBuffer) /\ EmptyBuffer \in Buffers(S)
  BY CapacityAssumption DEF Geometry, EmptyBuffer, Buffers

\* MakeRoom keeps the queued bytes, and regains all free space if n bytes need it.
LEMMA MakeRoomEffect ==
  ASSUME NEW S, NEW buf \in Buffers(S), Geometry(buf), NEW n \in Nat
  PROVE  LET c == MakeRoom(buf, n) IN
         /\ c \in Buffers(S) /\ Geometry(c) /\ c.size = buf.size
         /\ c.writePos + n > Capacity => c.writePos = buf.size
         /\ \A i \in 0..(buf.size - 1) : c.data[c.readPos + i] = buf.data[buf.readPos + i]
<1>1. CASE NeedsCompact(buf, n)
  <2>1. MakeRoom(buf, n) = Compact(buf)
    BY <1>1 DEF MakeRoom
  <2>2. \A i \in Cells : i < buf.size => buf.readPos + i \in Cells
    BY CapacityAssumption DEF Cells, Buffers, Geometry
  <2>3. Compact(buf).data \in [Cells -> S]
    BY <2>2 DEF Compact, Buffers
  <2>4. Compact(buf) \in Buffers(S) /\ Geometry(Compact(buf)) /\ Compact(buf).writePos = buf.size
        /\ Compact(buf).readPos = 0 /\ Compact(buf).size = buf.size
    BY <2>3, CapacityAssumption DEF Compact, Buffers, Geometry
  <2>5. \A i \in 0..(buf.size - 1) : Compact(buf).data[0 + i] = buf.data[buf.readPos + i]
    BY CapacityAssumption DEF Compact, Buffers, Cells
  <2>. QED BY <2>1, <2>4, <2>5
<1>2. CASE ~NeedsCompact(buf, n)
  BY <1>2, CapacityAssumption DEF MakeRoom, NeedsCompact, Geometry, Buffers
<1>. QED BY <1>1, <1>2

\* How many bytes append() takes: as many as the capacity leaves room for,
\* wherever in the array the queued bytes are.
LEMMA FitsCount ==
  ASSUME NEW S, NEW buf \in Buffers(S), Geometry(buf), NEW n \in Nat
  PROVE  /\ Fits(buf, n) \in 0..n
         /\ Fits(buf, n) = IF buf.size + n <= Capacity THEN n ELSE Capacity - buf.size
         /\ MakeRoom(buf, n).writePos + Fits(buf, n) <= Capacity
<1> DEFINE c == MakeRoom(buf, n)
<1>1. c \in Buffers(S) /\ Geometry(c) /\ c.size = buf.size
      /\ (c.writePos + n > Capacity => c.writePos = buf.size)
  BY MakeRoomEffect
<1>2. c.writePos \in 0..Capacity /\ c.readPos \in 0..Capacity /\ c.writePos = c.readPos + c.size
      /\ buf.size \in 0..Capacity
  BY <1>1 DEF Buffers, Geometry
<1> HIDE DEF c
<1>3. Fits(buf, n) = IF n <= Capacity - c.writePos THEN n ELSE Capacity - c.writePos
  BY DEF Fits, c
<1>4. c.writePos + Fits(buf, n) <= Capacity /\ Fits(buf, n) \in 0..n
  BY <1>2, <1>3, CapacityAssumption
<1>5. Fits(buf, n) = IF buf.size + n <= Capacity THEN n ELSE Capacity - buf.size
  BY <1>1, <1>2, <1>3, CapacityAssumption
<1>. QED BY <1>4, <1>5 DEF c

\* append() keeps the layout, the queued bytes, and puts the new ones behind them.
LEMMA AppendEffect ==
  ASSUME NEW S, NEW buf \in Buffers(S), Geometry(buf), NEW bytes \in Seq(S)
  PROVE  LET a == AppendBytes(buf, bytes)
             w == Fits(buf, Len(bytes)) IN
         /\ a \in Buffers(S) /\ Geometry(a) /\ a.size = buf.size + w
         /\ \A i \in 0..(buf.size - 1) : a.data[a.readPos + i] = buf.data[buf.readPos + i]
         /\ \A i \in 0..(w - 1) : a.data[a.readPos + buf.size + i] = bytes[i + 1]
<1> DEFINE n == Len(bytes)
           c == MakeRoom(buf, n)
           w == Fits(buf, n)
           a == AppendBytes(buf, bytes)
<1>1. n \in Nat
  OBVIOUS
<1>2. c \in Buffers(S) /\ Geometry(c) /\ c.size = buf.size
      /\ \A i \in 0..(buf.size - 1) : c.data[c.readPos + i] = buf.data[buf.readPos + i]
  BY <1>1, MakeRoomEffect
<1>3. w \in 0..n /\ c.writePos + w <= Capacity
  BY <1>1, FitsCount
<1>4. /\ a.data = [i \in Cells |-> IF i >= c.writePos /\ i < c.writePos + w
                                     THEN bytes[i - c.writePos + 1] ELSE c.data[i]]
      /\ a.readPos = c.readPos /\ a.writePos = c.writePos + w /\ a.size = c.size + w
      /\ a = [data |-> a.data, readPos |-> a.readPos, writePos |-> a.writePos, size |-> a.size]
  BY DEF AppendBytes
<1>5. c.data \in [Cells -> S] /\ c.readPos \in 0..Capacity /\ c.writePos \in 0..Capacity
      /\ c.size \in 0..Capacity /\ c.writePos = c.readPos + c.size
  BY <1>2 DEF Buffers, Geometry
<1> HIDE DEF a, w, c, n
<1>6. \A i \in Cells : i >= c.writePos /\ i < c.writePos + w => bytes[i - c.writePos + 1] \in S
  <2> SUFFICES ASSUME NEW i \in Cells, i >= c.writePos, i < c.writePos + w
               PROVE  bytes[i - c.writePos + 1] \in S
    OBVIOUS
  <2>1. i - c.writePos + 1 \in 1..n
    <3>1. /\ c.writePos \in Nat /\ w \in Nat /\ w <= n /\ i \in Nat
      BY <1>1, <1>3, <1>5, CapacityAssumption DEF Cells
    <3>. QED BY <1>1, <3>1
  <2>2. bytes \in Seq(S) /\ n = Len(bytes)
    BY DEF n
  <2>. QED BY <2>1, <2>2
<1>7. a.data \in [Cells -> S]
  BY <1>4, <1>5, <1>6
<1>8. a \in Buffers(S) /\ Geometry(a) /\ a.size = buf.size + w
  <2>1. c.size = buf.size /\ w \in Nat
    BY <1>1, <1>2, <1>3
  <2>2. c.readPos + (c.size + w) = c.writePos + w /\ c.writePos + w \in 0..Capacity
        /\ c.size + w \in 0..Capacity
    <3>. DEFINE rp == c.readPos  wp == c.writePos  sz == c.size
    <3>1. /\ rp \in Nat /\ wp \in Nat /\ sz \in Nat /\ Capacity \in Nat
          /\ wp = rp + sz /\ wp + w <= Capacity
      BY <1>3, <1>5, CapacityAssumption
    <3>. HIDE DEF rp, wp, sz
    <3>2. rp + (sz + w) = wp + w /\ wp + w \in 0..Capacity /\ sz + w \in 0..Capacity
      BY <2>1, <3>1
    <3>. QED BY <3>2 DEF rp, wp, sz
  <2>3. a.size \in 0..Capacity /\ a.writePos \in 0..Capacity /\ a.readPos \in 0..Capacity
        /\ a.writePos = a.readPos + a.size /\ a.size = buf.size + w
    BY <1>4, <1>5, <2>1, <2>2
  <2>. QED BY <1>4, <1>7, <2>3 DEF Buffers, Geometry
<1>9. \A i \in 0..(buf.size - 1) : a.data[a.readPos + i] = buf.data[buf.readPos + i]
  <2> SUFFICES ASSUME NEW i \in 0..(buf.size - 1)
               PROVE  a.data[a.readPos + i] = buf.data[buf.readPos + i]
    OBVIOUS
  <2>1. buf.size = c.size /\ c.readPos + i \in Cells /\ c.readPos + i < c.writePos
    <3>1. /\ buf.size = c.size /\ c.size \in Nat /\ c.readPos \in Nat /\ c.writePos <= Capacity
          /\ c.writePos = c.readPos + c.size
      BY <1>2, <1>5, CapacityAssumption
    <3>. QED BY <3>1, CapacityAssumption DEF Cells
  <2>2. a.data[c.readPos + i] = c.data[c.readPos + i]
    <3>. DEFINE k == c.readPos + i
    <3>1. k \in Cells /\ ~(k >= c.writePos)
      BY <1>5, <2>1 DEF Cells
    <3>2. a.data[k] = IF k >= c.writePos /\ k < c.writePos + w
                        THEN bytes[k - c.writePos + 1] ELSE c.data[k]
      <4> HIDE DEF k
      <4>. QED BY <1>4, <3>1
    <3>. QED BY <3>1, <3>2
  <2>. QED BY <1>2, <1>4, <2>2
<1>10. \A i \in 0..(w - 1) : a.data[a.readPos + buf.size + i] = bytes[i + 1]
  <2> SUFFICES ASSUME NEW i \in 0..(w - 1)
               PROVE  a.data[a.readPos + buf.size + i] = bytes[i + 1]
    OBVIOUS
  <2> DEFINE k == c.writePos + i
  <2>1. buf.size = c.size /\ i \in Nat /\ i < w /\ w \in Nat
    BY <1>1, <1>2, <1>3
  <2>2. a.readPos + buf.size + i = k
    BY <1>4, <1>5, <2>1
  <2>3. k >= c.writePos /\ k < c.writePos + w /\ k - c.writePos + 1 = i + 1 /\ k \in Nat
    <3>1. c.writePos \in Nat
      BY <1>5, CapacityAssumption
    <3>. QED BY <2>1, <3>1
  <2>4. k \in Cells
    BY <1>3, <1>5, <2>1, <2>3, CapacityAssumption DEF Cells
  <2> HIDE DEF k
  <2>5. a.data[k] = bytes[k - c.writePos + 1]
    BY <1>4, <2>3, <2>4
  <2>. QED BY <2>2, <2>3, <2>5
<1>. QED BY <1>8, <1>9, <1>10 DEF a, w, n

\* The size a buffer has after append() is the one Session computes.
THEOREM AppendSize ==
  ASSUME NEW S, NEW buf \in Buffers(S), Geometry(buf), NEW bytes \in Seq(S)
  PROVE  AppendBytes(buf, bytes).size =
           IF buf.size + Len(bytes) > Capacity THEN Capacity ELSE buf.size + Len(bytes)
<1>1. Len(bytes) \in Nat /\ buf.size \in 0..Capacity
  BY DEF Buffers
<1>2. AppendBytes(buf, bytes).size = buf.size + Fits(buf, Len(bytes))
  BY AppendEffect
<1>3. Fits(buf, Len(bytes)) = IF buf.size + Len(bytes) <= Capacity THEN Len(bytes)
                                                               ELSE Capacity - buf.size
  BY <1>1, FitsCount
<1>. QED BY <1>1, <1>2, <1>3, CapacityAssumption

\* consume() keeps the layout and the bytes it does not take.
LEMMA ConsumeEffect ==
  ASSUME NEW S, NEW buf \in Buffers(S), Geometry(buf), NEW n \in Nat
  PROVE  LET a == ConsumeBytes(buf, n) IN
         /\ a \in Buffers(S) /\ Geometry(a)
         /\ a.size = IF n > buf.size THEN 0 ELSE buf.size - n
         /\ \A i \in 0..(a.size - 1) : a.data[a.readPos + i] = buf.data[buf.readPos + n + i]
<1> DEFINE a == ConsumeBytes(buf, n)
<1>1. buf.readPos \in 0..Capacity /\ buf.writePos \in 0..Capacity /\ buf.size \in 0..Capacity
      /\ buf.writePos = buf.readPos + buf.size
  BY DEF Buffers, Geometry
<1>2. CASE n >= buf.size
  <2>1. a = [data |-> buf.data, readPos |-> 0, writePos |-> 0, size |-> 0]
    BY <1>1, <1>2 DEF ConsumeBytes
  <2>2. a.size = 0 /\ a.readPos = 0 /\ a.writePos = 0 /\ a \in Buffers(S)
    BY <1>1, <2>1, CapacityAssumption DEF Buffers
  <2>. QED BY <1>1, <1>2, <2>2 DEF Geometry
<1>3. CASE n < buf.size
  <2>1. a = [data |-> buf.data, readPos |-> buf.readPos + n, writePos |-> buf.writePos,
             size |-> buf.size - n]
    BY <1>1, <1>3 DEF ConsumeBytes
  <2>2. a.size = buf.size - n /\ a.readPos = buf.readPos + n /\ a.writePos = buf.writePos
        /\ a.data = buf.data /\ a \in Buffers(S)
    BY <1>1, <1>3, <2>1, CapacityAssumption DEF Buffers
  <2>. QED BY <1>1, <1>3, <2>2 DEF Geometry
<1>. QED BY <1>1, <1>2, <1>3

-----------------------------------------------------------------------------
(* The send path. *)

\* While the half is open, bytes are queued only under a write in progress.
IdleIsEmpty == open /\ ~busy => b.size = 0 /\ window = NoWindow

NothingDelayed == ~held => delayed = <<>>

\* Why the peer gets the bytes in order: what is queued continues what it has.
QueueContinues ==
  ~moved /\ AllForwarded =>
    /\ busy => window.pos = b.readPos
    /\ \A i \in 0..(b.size - 1) :
         b.data[b.readPos + i] = Len(received) - window.sent + i + 1

Queueing == TypeOK /\ WindowQueued /\ IdleIsEmpty /\ NothingDelayed

IInv ==
  /\ Queueing
  /\ BytesConserved
  /\ UnpausedBelowHigh
  /\ QueueContinues /\ InOrderUnlessMoved

LEMMA InitIInv == Init => IInv
<1> SUFFICES ASSUME Init PROVE IInv
  OBVIOUS
<1> USE CapacityAssumption, SendAssumption DEF Init
<1>1. b \in Buffers(Byte) /\ Geometry(b) /\ b.size = 0
  <2>1. Blank \in Byte
    BY DEF Byte
  <2>2. EmptyBuffer \in Buffers(Byte) /\ Geometry(EmptyBuffer)
    BY <2>1, EmptyType
  <2>3. EmptyBuffer.size = 0
    BY DEF EmptyBuffer
  <2>. QED BY <2>2, <2>3
<1>2. Queueing
  <2>1. TypeOK
    <3>1. window \in [pos : Nat, len : 0..Capacity, sent : 0..Capacity]
      BY DEF NoWindow
    <3>2. delayed \in Seq(Byte) /\ received \in Seq(Byte)
      OBVIOUS
    <3>3. produced \in 0..MaxBytes /\ lost \in Nat /\ discarded \in Nat /\ open \in BOOLEAN
      OBVIOUS
    <3>4. paused \in BOOLEAN /\ busy \in BOOLEAN /\ moved \in BOOLEAN /\ held \in BOOLEAN
      OBVIOUS
    <3> HIDE DEF Init
    <3>. QED BY <1>1, <3>1, <3>2, <3>3, <3>4 DEF TypeOK
  <2>. QED BY <1>1, <2>1 DEF Queueing, WindowQueued, IdleIsEmpty, NothingDelayed
<1>3. BytesConserved /\ UnpausedBelowHigh
  BY <1>1 DEF BytesConserved, UnpausedBelowHigh, NoWindow
<1>4. QueueContinues /\ InOrderUnlessMoved
  BY <1>1 DEF QueueContinues, InOrderUnlessMoved, Bytes
<1>. QED BY <1>2, <1>3, <1>4 DEF IInv

-----------------------------------------------------------------------------
(* Appending: OnRead and OnDelayExpired. *)

LEMMA BytesType ==
  ASSUME NEW first \in Nat, NEW n \in Nat, first > 0, first + n <= MaxBytes + 1
  PROVE  Bytes(first, n) \in Seq(Byte) /\ Len(Bytes(first, n)) = n
  BY SendAssumption DEF Bytes, Byte

LEMMA AppendAndSendEffect ==
  ASSUME Queueing, NEW bytes \in Seq(Byte), AppendAndSend(bytes), open' = open
  PROVE  LET w == Fits(b, Len(bytes)) IN
         /\ b' \in Buffers(Byte) /\ Geometry(b)' /\ b'.size = b.size + w
         /\ w \in 0..Len(bytes) /\ lost' = lost + (Len(bytes) - w)
         /\ lost' \in Nat /\ moved' \in BOOLEAN
         /\ busy' \in BOOLEAN /\ window' \in [pos : Nat, len : 0..Capacity, sent : 0..Capacity]
         /\ WindowQueued' /\ IdleIsEmpty'
         /\ window'.sent = window.sent
         /\ \A i \in 0..(b.size - 1) : b'.data[b'.readPos + i] = b.data[b.readPos + i]
         /\ \A i \in 0..(w - 1) : b'.data[b'.readPos + b.size + i] = bytes[i + 1]
         /\ (~moved' /\ (busy => window.pos = b.readPos)) => (busy' => window'.pos = b'.readPos)
<1> DEFINE w == Fits(b, Len(bytes))
<1>1. b \in Buffers(Byte) /\ Geometry(b) /\ bytes \in Seq(Byte) /\ Len(bytes) \in Nat
  BY DEF Queueing, TypeOK
<1>2. b' = AppendBytes(b, bytes)
  BY DEF AppendAndSend
<1>. DEFINE a == AppendBytes(b, bytes)
<1>a. /\ a \in Buffers(Byte) /\ Geometry(a) /\ a.size = b.size + w
      /\ \A i \in 0..(b.size - 1) : a.data[a.readPos + i] = b.data[b.readPos + i]
      /\ \A i \in 0..(w - 1) : a.data[a.readPos + b.size + i] = bytes[i + 1]
  BY <1>1, AppendEffect
<1>3. /\ b' \in Buffers(Byte) /\ Geometry(b)' /\ b'.size = b.size + w
      /\ \A i \in 0..(b.size - 1) : b'.data[b'.readPos + i] = b.data[b.readPos + i]
      /\ \A i \in 0..(w - 1) : b'.data[b'.readPos + b.size + i] = bytes[i + 1]
  <2> HIDE DEF w, a
  <2>. QED BY <1>2, <1>a DEF Geometry, a
<1>4. w \in 0..Len(bytes)
  BY <1>1, FitsCount
<1>5. lost' = lost + (Len(bytes) - w) /\ lost' \in Nat /\ moved' \in BOOLEAN
  BY <1>1, <1>4 DEF AppendAndSend, Queueing, TypeOK
<1>6. /\ b.size \in 0..Capacity /\ b'.size \in 0..Capacity /\ b'.readPos \in 0..Capacity
      /\ b'.readPos + b'.size <= Capacity
  BY <1>1, <1>3, CapacityAssumption DEF Buffers, Geometry
<1> HIDE DEF w
<1>7. CASE busy \/ ~open
  <2>1. busy' = busy /\ window' = window
    BY <1>7 DEF AppendAndSend, StartWriteIfIdle
  <2>2. WindowQueued' /\ IdleIsEmpty'
    BY <1>3, <1>4, <1>6, <1>7, <2>1, CapacityAssumption
       DEF Queueing, WindowQueued, IdleIsEmpty, TypeOK
  <2>3. ~moved' /\ busy' /\ window.pos = b.readPos => window'.pos = b'.readPos
    <3> SUFFICES ASSUME ~moved', busy' PROVE b'.readPos = b.readPos
      BY <2>1
    <3>1. ~NeedsCompact(b, Len(bytes))
      BY <2>1 DEF AppendAndSend
    <3>. QED BY <1>2, <3>1 DEF AppendBytes, MakeRoom
  <2>4. busy' \in BOOLEAN /\ window' \in [pos : Nat, len : 0..Capacity, sent : 0..Capacity]
    BY <2>1 DEF Queueing, TypeOK
  <2>. QED BY <1>3, <1>4, <1>5, <1>7, <2>1, <2>2, <2>3, <2>4 DEF w
<1>8. CASE ~busy /\ open
  <2>1. StartWriteOf(b')
    BY <1>8 DEF AppendAndSend, StartWriteIfIdle
  <2>2. window'.sent = 0 /\ window.sent = 0
    BY <1>8, <2>1 DEF StartWriteOf, NoWindow, Queueing, IdleIsEmpty
  <2>3. busy' \in BOOLEAN /\ window' \in [pos : Nat, len : 0..Capacity, sent : 0..Capacity]
        /\ WindowQueued' /\ IdleIsEmpty' /\ (busy' => window'.pos = b'.readPos)
    <3>1. CASE b'.size > 0
      <4>1. busy' = TRUE /\ window' = [pos |-> b'.readPos, len |-> b'.size, sent |-> 0]
        BY <2>1, <3>1 DEF StartWriteOf
      <4>2. window' \in [pos : Nat, len : 0..Capacity, sent : 0..Capacity]
        BY <1>6, <4>1, CapacityAssumption
      <4>3. WindowQueued'
        BY <1>6, <4>1, CapacityAssumption DEF WindowQueued
      <4>. QED BY <4>1, <4>2, <4>3 DEF IdleIsEmpty
    <3>2. CASE b'.size = 0
      <4>1. busy' = FALSE /\ window' = NoWindow
        <5>1. ~(b'.size > 0)
          BY <3>2
        <5>. QED BY <2>1, <5>1 DEF StartWriteOf
      <4>2. NoWindow \in [pos : Nat, len : 0..Capacity, sent : 0..Capacity]
        BY CapacityAssumption DEF NoWindow
      <4>. QED BY <3>2, <4>1, <4>2 DEF WindowQueued, IdleIsEmpty
    <3>. QED BY <1>6, <3>1, <3>2, CapacityAssumption
  <2>. QED BY <1>3, <1>4, <1>5, <2>2, <2>3 DEF w
<1>. QED BY <1>7, <1>8

-----------------------------------------------------------------------------
(* One lemma per action. *)

\* What one sequence behind another holds.
LEMMA Joined ==
  ASSUME NEW S, NEW q \in Seq(S), NEW r \in Seq(S)
  PROVE  /\ q \o r \in Seq(S) /\ Len(q \o r) = Len(q) + Len(r)
         /\ \A j \in 1..Len(q) : (q \o r)[j] = q[j]
         /\ \A i \in 1..Len(r) : (q \o r)[Len(q) + i] = r[i]
  OBVIOUS

\* Putting a packet into what is left of the delay queue, wherever its place is.
LEMMA PutSize ==
  ASSUME NEW S, NEW q \in Seq(S), NEW bytes \in Seq(S), NEW k \in 0..Len(q),
         NEW at \in 0..(Len(q) - k)
  PROVE  LET p == PutAt(SubSeq(q, k + 1, Len(q)), at, bytes) IN
         p \in Seq(S) /\ Len(p) = Len(q) - k + Len(bytes)
<1> DEFINE r == SubSeq(q, k + 1, Len(q))
<1>1. r \in Seq(S) /\ Len(r) = Len(q) - k /\ Len(q) \in Nat /\ at \in 0..Len(r)
  OBVIOUS
<1> HIDE DEF r
<1> DEFINE f == SubSeq(r, 1, at)
           l == SubSeq(r, at + 1, Len(r))
<1>2. f \in Seq(S) /\ Len(f) = at /\ l \in Seq(S) /\ Len(l) = Len(r) - at /\ Len(bytes) \in Nat
  BY <1>1
<1>3. PutAt(r, at, bytes) = f \o bytes \o l
  BY DEF PutAt
<1> HIDE DEF f, l
<1>4. f \o bytes \o l \in Seq(S) /\ Len(f \o bytes \o l) = at + Len(bytes) + (Len(r) - at)
  <2>1. f \o bytes \in Seq(S) /\ Len(f \o bytes) = at + Len(bytes)
    BY <1>2, Joined
  <2>2. (f \o bytes) \o l \in Seq(S) /\ Len((f \o bytes) \o l) = Len(f \o bytes) + Len(l)
    BY <1>2, <2>1, Joined
  <2>. QED BY <1>2, <2>1, <2>2
<1>5. Len(PutAt(r, at, bytes)) = Len(q) - k + Len(bytes)
  <2>. DEFINE x == Len(q)  y == Len(bytes)
  <2>1. Len(PutAt(r, at, bytes)) = at + y + ((x - k) - at)
    BY <1>1, <1>3, <1>4
  <2>2. x \in Int /\ y \in Int /\ k \in Int /\ at \in Int
    BY <1>1, <1>2
  <2>. HIDE DEF x, y
  <2>3. at + y + ((x - k) - at) = x - k + y
    BY <2>2
  <2>. QED BY <2>1, <2>3 DEF x, y
<1>6. PutAt(r, at, bytes) \in Seq(S)
  BY <1>3, <1>4
<1>. QED BY <1>5, <1>6 DEF r

\* The arithmetic of BytesConserved, a few terms at a time.
LEMMA Balance ==
  ASSUME NEW x \in Int, NEW d \in Int, NEW l \in Int, NEW g \in Int,
         NEW n \in Int, NEW k \in Int
  PROVE  /\ (x + k) + d + (l + (n - k)) + g = x + d + l + g + n
         /\ x + (d - k + n) + l + (g + k) = x + d + l + g + n
         /\ (x + k) + (d - n) + (l + (n - k)) + g = x + d + l + g
         /\ x + d + l + (g + n) = x + d + l + g + n
<1>1. (x + k) + d + (l + (n - k)) + g = x + d + l + g + n
  OBVIOUS
<1>2. x + (d - k + n) + l + (g + k) = x + d + l + g + n
  OBVIOUS
<1>3. (x + k) + (d - n) + (l + (n - k)) + g = x + d + l + g
  OBVIOUS
<1>4. x + d + l + (g + n) = x + d + l + g + n
  OBVIOUS
<1>. QED BY <1>1, <1>2, <1>3, <1>4

LEMMA InBuffer ==
  ASSUME NEW r \in Int, NEW size \in Int, NEW sent \in Int, NEW k \in Int
  PROVE  r + (size - sent) \in Int /\ r + ((size + k) - sent) = (r + (size - sent)) + k
  OBVIOUS

LEMMA StepOnRead ==
  ASSUME IInv, NEW n \in ReadSizes, OnRead(n)
  PROVE  IInv'
<1>. DEFINE bytes == Bytes(produced + 1, n)
<1>1. /\ n \in Nat /\ n > 0 /\ produced \in Nat /\ produced + n <= MaxBytes /\ MaxBytes \in Nat
      /\ produced' = produced + n /\ received' = received
  BY SendAssumption DEF OnRead, IInv, Queueing, TypeOK
<1>2. bytes \in Seq(Byte) /\ Len(bytes) = n /\ \A i \in 1..n : bytes[i] = produced + i
  <2>1. \A i \in 1..n : bytes[i] = produced + i
    BY <1>1 DEF Bytes
  <2>. QED BY <1>1, <2>1, BytesType
<1>3. /\ b.size \in 0..Capacity /\ window.sent \in Nat /\ Len(received) \in Nat
      /\ Len(delayed) \in Nat /\ lost \in Nat /\ discarded \in Nat /\ Capacity \in Nat
  BY CapacityAssumption DEF IInv, Queueing, TypeOK, Buffers
<1>p2. HighWater \in Nat
  BY SendAssumption
<1>4. CASE Forward(n)
  <2>p. /\ AppendAndSend(bytes) /\ paused' = ShouldPauseReading(b'.size)
        /\ UNCHANGED <<delayed, open, discarded, held>>
    BY <1>4 DEF Forward
  <2>. DEFINE w == Fits(b, Len(bytes))
  <2>1. /\ b' \in Buffers(Byte) /\ Geometry(b)' /\ b'.size = b.size + w
        /\ w \in 0..Len(bytes) /\ lost' = lost + (Len(bytes) - w)
        /\ lost' \in Nat /\ moved' \in BOOLEAN
        /\ busy' \in BOOLEAN /\ window' \in [pos : Nat, len : 0..Capacity, sent : 0..Capacity]
        /\ WindowQueued' /\ IdleIsEmpty'
        /\ window'.sent = window.sent
        /\ \A i \in 0..(b.size - 1) : b'.data[b'.readPos + i] = b.data[b.readPos + i]
        /\ \A i \in 0..(w - 1) : b'.data[b'.readPos + b.size + i] = bytes[i + 1]
        /\ (~moved' /\ (busy => window.pos = b.readPos)) => (busy' => window'.pos = b'.readPos)
    BY <1>2, <2>p, AppendAndSendEffect DEF IInv
  <2> HIDE DEF w, bytes
  <2>2. Queueing'
    <3>1. produced' \in 0..MaxBytes /\ paused' \in BOOLEAN
      BY <1>1, <2>p DEF ShouldPauseReading
    <3>2. /\ delayed' \in Seq(Byte) /\ received' \in Seq(Byte) /\ held' \in BOOLEAN
          /\ open' \in BOOLEAN /\ discarded' \in Nat
      BY <1>1, <2>p DEF IInv, Queueing, TypeOK
    <3>3. TypeOK'
      BY <2>1, <3>1, <3>2 DEF TypeOK, Byte
    <3>. QED BY <2>p, <2>1, <3>3 DEF Queueing, NothingDelayed, IInv
  <2>3. BytesConserved'
    <3>1. produced = Len(received) + (b.size - window.sent) + Len(delayed) + lost + discarded
      BY DEF IInv, BytesConserved
    <3>2. w \in Nat /\ b'.size = b.size + w /\ lost' = lost + (n - w)
      BY <1>1, <1>2, <2>1
    <3>3. Len(received) + (b'.size - window'.sent) + Len(delayed) + lost' + discarded
            = Len(received) + (b.size - window.sent) + Len(delayed) + lost + discarded + n
      <4>1. /\ b.size \in Int /\ window.sent \in Int /\ Len(received) \in Int /\ w \in Int
            /\ Len(delayed) \in Int /\ lost \in Int /\ discarded \in Int /\ n \in Int
        BY <1>1, <1>3, <3>2
      <4>2. window'.sent = window.sent
        BY <2>1
      <4>. DEFINE x == Len(received) + (b.size - window.sent)  late == Len(delayed)
      <4>3. x \in Int /\ Len(received) + (b'.size - window'.sent) = x + w
        BY <3>2, <4>1, <4>2, InBuffer
      <4>4. late \in Int
        BY <4>1
      <4>. HIDE DEF x, late
      <4>5. (x + w) + late + (lost + (n - w)) + discarded = x + late + lost + discarded + n
        BY <4>1, <4>3, <4>4, Balance
      <4>. QED BY <3>2, <4>3, <4>5 DEF x, late
    <3>. QED BY <1>1, <2>p, <3>1, <3>3 DEF BytesConserved
  <2>4. UnpausedBelowHigh'
    <3>1. b'.size \in Nat
      BY <1>2, <1>3, <2>1
    <3>. SUFFICES ASSUME ~paused' PROVE b'.size < HighWater
      BY DEF UnpausedBelowHigh
    <3>2. ~(b'.size >= HighWater)
      BY <2>p DEF ShouldPauseReading
    <3>. QED BY <1>p2, <3>1, <3>2
  <2>5. QueueContinues' /\ InOrderUnlessMoved'
    <3>. SUFFICES ASSUME ~moved', AllForwarded'
                  PROVE  /\ busy' => window'.pos = b'.readPos
                         /\ \A i \in 0..(b'.size - 1) :
                              b'.data[b'.readPos + i] = Len(received) - window'.sent + i + 1
                         /\ received = Bytes(1, Len(received))
      BY <1>1 DEF QueueContinues, InOrderUnlessMoved
    <3>1. ~moved /\ AllForwarded /\ lost = 0 /\ discarded = 0 /\ w = n /\ delayed = <<>>
      <4>1. ~moved /\ ~held /\ discarded = 0
        BY <2>p DEF AppendAndSend, AllForwarded
      <4>2. lost = 0 /\ w = n
        BY <1>2, <1>3, <2>1 DEF AllForwarded
      <4>. QED BY <4>1, <4>2 DEF IInv, Queueing, NothingDelayed, AllForwarded
    <3>2. /\ busy => window.pos = b.readPos
          /\ \A i \in 0..(b.size - 1) :
               b.data[b.readPos + i] = Len(received) - window.sent + i + 1
          /\ received = Bytes(1, Len(received))
      BY <3>1 DEF IInv, QueueContinues, InOrderUnlessMoved
    <3>3. produced = Len(received) + (b.size - window.sent)
      BY <1>3, <3>1 DEF IInv, BytesConserved
    <3>4. ASSUME NEW i \in 0..(b'.size - 1)
          PROVE  b'.data[b'.readPos + i] = Len(received) - window'.sent + i + 1
      <4>1. CASE i < b.size
        <5>1. i \in 0..(b.size - 1)
          BY <1>3, <4>1
        <5>. QED BY <2>1, <3>2, <5>1
      <4>2. CASE i >= b.size
        <5>. DEFINE j == i - b.size
        <5>1. j \in 0..(w - 1) /\ j + 1 \in 1..n /\ i = b.size + j /\ i \in Nat
          <6>1. b.size \in Nat /\ n \in Nat /\ w = n /\ b'.size = b.size + w
            BY <1>1, <1>3, <2>1, <3>1
          <6>. QED BY <4>2, <6>1
        <5>2. b'.data[b'.readPos + b.size + j] = produced + j + 1
          <6>1. j \in 0..(w - 1) /\ j + 1 \in 1..n /\ j \in Int /\ produced \in Int
            BY <1>1, <5>1
          <6>. HIDE DEF j
          <6>2. bytes[j + 1] = produced + (j + 1)
            BY <1>2, <6>1
          <6>3. b'.data[b'.readPos + b.size + j] = bytes[j + 1]
            BY <2>1, <6>1
          <6>. QED BY <6>1, <6>2, <6>3
        <5>3. b'.readPos + b.size + j = b'.readPos + i
          <6>1. b'.readPos \in Nat
            BY <1>3, <2>1 DEF Buffers
          <6>. QED BY <1>3, <5>1, <6>1
        <5>4. produced + j + 1 = Len(received) - window.sent + i + 1
          <6>1. b.size \in Int /\ window.sent \in Int /\ Len(received) \in Int /\ j \in Int
            BY <1>3, <5>1
          <6>2. i = b.size + j
            BY <5>1
          <6>3. produced \in Int
            BY <1>1
          <6>. HIDE DEF j
          <6>. QED BY <3>3, <6>1, <6>2, <6>3
        <5>. QED BY <2>1, <5>2, <5>3, <5>4
      <4>. QED BY <1>3, <2>1, <4>1, <4>2
    <3>. QED BY <2>1, <3>2, <3>4
  <2>. QED BY <2>2, <2>3, <2>4, <2>5 DEF IInv
<1>5. CASE Delay(n)
  <2> HIDE DEF bytes
  <2>d. PICK k \in 0..Len(delayed) :
          \E at \in 0..(Len(delayed) - k) :
            /\ delayed' = PutAt(SubSeq(delayed, k + 1, Len(delayed)), at, bytes)
            /\ discarded' = discarded + k
    BY <1>5 DEF Delay, bytes
  <2>p. /\ held' = TRUE /\ paused' = ShouldPauseReading(b.size)
        /\ UNCHANGED <<b, busy, window, open, lost, moved>>
    BY <1>5 DEF Delay
  <2>1. delayed' \in Seq(Byte) /\ Len(delayed') = Len(delayed) - k + n
    <3>1. delayed \in Seq(Byte)
      BY DEF IInv, Queueing, TypeOK
    <3>2. PICK at \in 0..(Len(delayed) - k) :
            delayed' = PutAt(SubSeq(delayed, k + 1, Len(delayed)), at, bytes)
      BY <2>d
    <3>3. bytes \in Seq(Byte) /\ Len(bytes) = n
      BY <1>2
    <3>4. LET q == PutAt(SubSeq(delayed, k + 1, Len(delayed)), at, bytes) IN
          q \in Seq(Byte) /\ Len(q) = Len(delayed) - k + Len(bytes)
      BY <3>1, <3>3, PutSize
    <3>. QED BY <3>2, <3>3, <3>4
  <2>2. Queueing'
    <3>1. produced' \in 0..MaxBytes /\ paused' \in BOOLEAN /\ discarded' \in Nat
      BY <1>1, <1>3, <2>d, <2>p DEF ShouldPauseReading
    <3>2. TypeOK'
      BY <1>1, <2>p, <2>1, <3>1 DEF IInv, Queueing, TypeOK, Geometry, Byte
    <3>. QED BY <2>p, <3>2 DEF IInv, Queueing, WindowQueued, IdleIsEmpty, NothingDelayed
  <2>3. BytesConserved'
    <3>1. produced = Len(received) + (b.size - window.sent) + Len(delayed) + lost + discarded
      BY DEF IInv, BytesConserved
    <3>2. produced' = Len(received) + (b.size - window.sent) + Len(delayed') + lost + discarded'
      <4>1. /\ b.size \in Int /\ window.sent \in Int /\ Len(received) \in Int /\ k \in Int
            /\ Len(delayed) \in Int /\ lost \in Int /\ discarded \in Int /\ n \in Int
        BY <1>1, <1>3
      <4>2. produced' = produced + n /\ Len(delayed') = Len(delayed) - k + n
            /\ discarded' = discarded + k
        BY <1>1, <2>d, <2>1
      <4>. DEFINE x == Len(received) + (b.size - window.sent)  late == Len(delayed)
      <4>3. x \in Int /\ late \in Int
        BY <4>1, InBuffer
      <4>. HIDE DEF x, late
      <4>4. x + (late - k + n) + lost + (discarded + k) = x + late + lost + discarded + n
        BY <4>1, <4>3, Balance
      <4>. QED BY <3>1, <4>2, <4>4 DEF x, late
    <3>. QED BY <1>1, <2>p, <3>2 DEF BytesConserved
  <2>. QED BY <2>p, <2>2, <2>3
          DEF IInv, UnpausedBelowHigh, QueueContinues, InOrderUnlessMoved, AllForwarded
<1>6. ASSUME NEW action, GiveUp(n, action) PROVE IInv'
  <2> HIDE DEF bytes
  <2>p. /\ discarded' = discarded + n /\ open' = (open /\ action # "HalfClose")
        /\ paused' = (action = "Stall" \/ ShouldPauseReading(b.size))
        /\ UNCHANGED <<delayed, b, busy, window, lost, moved, held>>
    BY <1>6 DEF GiveUp
  <2>1. discarded' # 0 /\ discarded' \in Nat
    BY <1>1, <1>3, <2>p
  <2>2. Queueing'
    <3>1. produced' \in 0..MaxBytes /\ paused' \in BOOLEAN /\ open' \in BOOLEAN
      BY <1>1, <2>p DEF ShouldPauseReading
    <3>2. TypeOK'
      BY <1>1, <2>p, <2>1, <3>1 DEF IInv, Queueing, TypeOK, Geometry, Byte
    <3>. QED BY <2>p, <3>2 DEF IInv, Queueing, WindowQueued, IdleIsEmpty, NothingDelayed
  <2>3. BytesConserved'
    <3>1. produced = Len(received) + (b.size - window.sent) + Len(delayed) + lost + discarded
      BY DEF IInv, BytesConserved
    <3>2. /\ b.size \in Int /\ window.sent \in Int /\ Len(received) \in Int
          /\ Len(delayed) \in Int /\ lost \in Int /\ discarded \in Int /\ n \in Int
      BY <1>1, <1>3
    <3>. DEFINE x == Len(received) + (b.size - window.sent)  late == Len(delayed)
    <3>3. x \in Int /\ late \in Int
      BY <3>2, InBuffer
    <3>. HIDE DEF x, late
    <3>4. x + late + lost + (discarded + n) = x + late + lost + discarded + n
      BY <3>2, <3>3, Balance
    <3>5. produced' = Len(received) + (b.size - window.sent) + Len(delayed) + lost + discarded'
      BY <1>1, <2>p, <3>1, <3>4 DEF x, late
    <3>. QED BY <1>1, <2>p, <3>5 DEF BytesConserved
  <2>4. UnpausedBelowHigh'
    <3>. SUFFICES ASSUME ~paused' PROVE b.size < HighWater
      BY <2>p DEF UnpausedBelowHigh
    <3>1. ~(b.size >= HighWater)
      BY <2>p DEF ShouldPauseReading
    <3>. QED BY <1>3, <1>p2, <3>1
  <2>. QED BY <2>1, <2>2, <2>3, <2>4 DEF IInv, QueueContinues, InOrderUnlessMoved, AllForwarded
<1>. QED BY <1>4, <1>5, <1>6 DEF OnRead

LEMMA StepOnDelayExpired ==
  ASSUME IInv, NEW k \in 1..Len(delayed), OnDelayExpired(k)
  PROVE  IInv'
<1>. DEFINE bytes == SubSeq(delayed, 1, k)
            w == Fits(b, Len(bytes))
<1>1. delayed \in Seq(Byte) /\ Len(delayed) \in Nat /\ k \in Nat
  BY DEF IInv, Queueing, TypeOK
<1>2. bytes \in Seq(Byte) /\ Len(bytes) = k
  BY <1>1
<1>3. delayed' \in Seq(Byte) /\ Len(delayed') = Len(delayed) - k
  BY <1>1 DEF OnDelayExpired
<1>4. held
  BY <1>1 DEF IInv, Queueing, NothingDelayed
<1>6. UNCHANGED <<produced, paused, open, received, discarded, held>>
  BY DEF OnDelayExpired
<1>5. /\ b' \in Buffers(Byte) /\ Geometry(b)' /\ b'.size = b.size + w
      /\ w \in 0..Len(bytes) /\ lost' = lost + (Len(bytes) - w)
      /\ lost' \in Nat /\ moved' \in BOOLEAN
      /\ busy' \in BOOLEAN /\ window' \in [pos : Nat, len : 0..Capacity, sent : 0..Capacity]
      /\ WindowQueued' /\ IdleIsEmpty'
      /\ window'.sent = window.sent
  BY <1>2, <1>6, AppendAndSendEffect DEF IInv, OnDelayExpired
<1>7. /\ b.size \in 0..Capacity /\ window.sent \in Nat /\ Len(received) \in Nat
      /\ lost \in Nat /\ discarded \in Nat /\ Capacity \in Nat
  BY CapacityAssumption DEF IInv, Queueing, TypeOK, Buffers
<1> HIDE DEF w, bytes
<1>8. Queueing'
  <2>1. TypeOK'
    BY <1>3, <1>5, <1>6 DEF IInv, Queueing, TypeOK, Byte
  <2>. QED BY <1>4, <1>5, <1>6, <2>1 DEF Queueing, NothingDelayed
<1>9. BytesConserved'
  <2>1. produced = Len(received) + (b.size - window.sent) + Len(delayed) + lost + discarded
    BY DEF IInv, BytesConserved
  <2>2. /\ w \in Nat /\ b'.size = b.size + w /\ window'.sent = window.sent
        /\ lost' = lost + (k - w)
    BY <1>1, <1>2, <1>5
  <2>3. Len(received) + (b'.size - window'.sent) + Len(delayed') + lost' + discarded
          = Len(received) + (b.size - window.sent) + Len(delayed) + lost + discarded
    <3>1. /\ b.size \in Int /\ window.sent \in Int /\ Len(received) \in Int
          /\ Len(delayed) \in Int /\ lost \in Int /\ discarded \in Int
          /\ k \in Int /\ w \in Int
      BY <1>1, <1>7, <2>2
    <3>2. Len(delayed') = Len(delayed) - k
      BY <1>3
    <3>. DEFINE x == Len(received) + (b.size - window.sent)  late == Len(delayed)
    <3>3. x \in Int /\ late \in Int /\ Len(received) + ((b.size + w) - window.sent) = x + w
      BY <3>1, InBuffer
    <3>. HIDE DEF x, late
    <3>4. (x + w) + (late - k) + (lost + (k - w)) + discarded = x + late + lost + discarded
      BY <3>1, <3>3, Balance
    <3>. QED BY <2>2, <3>2, <3>3, <3>4 DEF x, late
  <2>. QED BY <1>6, <2>1, <2>3 DEF BytesConserved
<1>. QED BY <1>4, <1>6, <1>8, <1>9 DEF IInv, UnpausedBelowHigh, QueueContinues, InOrderUnlessMoved,
  AllForwarded

LEMMA StepKernelSends ==
  ASSUME IInv, NEW k \in 1..Capacity, KernelSends(k)
  PROVE  IInv'
<1>. DEFINE chunk == [i \in 1..k |-> b.data[window.pos + window.sent + i - 1]]
<1>1. /\ b \in Buffers(Byte) /\ b.size \in 0..Capacity /\ b.readPos \in 0..Capacity
      /\ b.data \in [Cells -> Byte] /\ Capacity \in Nat
      /\ window \in [pos : Nat, len : 0..Capacity, sent : 0..Capacity]
      /\ received \in Seq(Byte) /\ Len(received) \in Nat
      /\ Len(delayed) \in Nat /\ lost \in Nat /\ discarded \in Nat /\ k \in Nat
  BY CapacityAssumption DEF IInv, Queueing, TypeOK, Buffers
<1>2. /\ busy /\ k \in 1..(window.len - window.sent)
      /\ received' = received \o chunk
      /\ window' = [pos |-> window.pos, len |-> window.len, sent |-> window.sent + k]
      /\ UNCHANGED <<produced, paused, delayed, b, busy, open, lost, discarded, moved, held>>
  BY <1>1 DEF KernelSends
<1>3. /\ window.sent + k <= window.len /\ window.len <= b.size
      /\ window.pos + window.len <= Capacity
  <2>1. window.sent \in Nat /\ window.len \in Nat
    BY <1>1
  <2>2. window.sent + k <= window.len
    BY <1>2, <2>1
  <2>. QED BY <1>2, <2>2 DEF IInv, Queueing, WindowQueued
<1>4. chunk \in Seq(Byte) /\ Len(chunk) = k
  <2>1. \A i \in 1..k : window.pos + window.sent + i - 1 \in Cells
    BY <1>1, <1>3 DEF Cells
  <2>2. \A i \in 1..k : b.data[window.pos + window.sent + i - 1] \in Byte
    BY <1>1, <2>1
  <2>3. chunk \in [1..k -> Byte]
    BY <2>2
  <2>4. k \in Nat
    BY <1>1
  <2> HIDE DEF chunk
  <2>. QED BY <2>3, <2>4
<1>5. /\ received' \in Seq(Byte) /\ Len(received') = Len(received) + k
      /\ \A j \in 1..Len(received) : received'[j] = received[j]
      /\ \A i \in 1..k : received'[Len(received) + i] = chunk[i]
  <2>1. received \in Seq(Byte)
    BY <1>1
  <2> HIDE DEF chunk
  <2>2. chunk \in Seq(Byte) /\ Len(chunk) = k
    BY <1>4
  <2>3. /\ received \o chunk \in Seq(Byte)
        /\ Len(received \o chunk) = Len(received) + Len(chunk)
        /\ \A j \in 1..Len(received) : (received \o chunk)[j] = received[j]
        /\ \A i \in 1..Len(chunk) : (received \o chunk)[Len(received) + i] = chunk[i]
    BY <2>1, <2>2, Joined
  <2>. DEFINE all == received \o chunk
  <2>4. received' = all
    BY <1>2
  <2>. HIDE DEF all
  <2>. QED BY <2>2, <2>3, <2>4 DEF all
<1>6. Queueing'
  <2>1. window' \in [pos : Nat, len : 0..Capacity, sent : 0..Capacity]
    BY <1>1, <1>2, <1>3
  <2>2. TypeOK'
    BY <1>2, <1>5, <2>1 DEF IInv, Queueing, TypeOK, Geometry, Byte
  <2>3. WindowQueued'
    BY <1>1, <1>2, <1>3 DEF WindowQueued
  <2>. QED BY <1>2, <2>2, <2>3 DEF IInv, Queueing, IdleIsEmpty, NothingDelayed
<1>7. BytesConserved'
  <2>1. produced = Len(received) + (b.size - window.sent) + Len(delayed) + lost + discarded
    BY DEF IInv, BytesConserved
  <2>2. window'.sent = window.sent + k
    BY <1>2
  <2>3. Len(received') + (b.size - window'.sent) + Len(delayed) + lost + discarded
          = Len(received) + (b.size - window.sent) + Len(delayed) + lost + discarded
    <3>1. /\ b.size \in Int /\ window.sent \in Int /\ Len(received) \in Int
          /\ Len(delayed) \in Int /\ lost \in Int /\ discarded \in Int /\ k \in Int
      BY <1>1
    <3>2. Len(received') = Len(received) + k
      BY <1>5
    <3>. QED BY <2>2, <3>1, <3>2
  <2>. QED BY <1>2, <2>1, <2>3 DEF BytesConserved
<1>8. UnpausedBelowHigh'
  BY <1>2 DEF IInv, UnpausedBelowHigh
<1>9. QueueContinues' /\ InOrderUnlessMoved'
  <2>. SUFFICES ASSUME ~moved, AllForwarded
                PROVE  /\ window'.pos = b.readPos
                       /\ \A i \in 0..(b.size - 1) :
                            b.data[b.readPos + i] = Len(received') - window'.sent + i + 1
                       /\ received' = Bytes(1, Len(received'))
    BY <1>2 DEF QueueContinues, InOrderUnlessMoved, AllForwarded
  <2>1. /\ window.pos = b.readPos
        /\ \A i \in 0..(b.size - 1) :
             b.data[b.readPos + i] = Len(received) - window.sent + i + 1
        /\ received = Bytes(1, Len(received))
    BY <1>2 DEF IInv, QueueContinues, InOrderUnlessMoved, AllForwarded
  <2>2. Len(received') - window'.sent = Len(received) - window.sent
    BY <1>1, <1>2, <1>5
  <2>3. \A j \in 1..Len(received') : received'[j] = j
    <3>. TAKE j \in 1..Len(received')
    <3>1. CASE j <= Len(received)
      <4>1. j \in 1..Len(received)
        BY <1>1, <1>5, <3>1
      <4>2. received[j] = Bytes(1, Len(received))[j]
        BY <2>1
      <4>3. Bytes(1, Len(received))[j] = j
        BY <1>1, <4>1 DEF Bytes
      <4>4. received'[j] = received[j]
        BY <1>5, <4>1
      <4>. QED BY <4>2, <4>3, <4>4
    <3>2. CASE j > Len(received)
      <4>. DEFINE i == j - Len(received)
                  c == window.sent + i - 1
      <4>0. /\ window.sent \in Nat /\ window.len \in Nat /\ b.size \in Nat /\ k \in Nat
            /\ Len(received) \in Nat /\ Len(received') = Len(received) + k
        BY <1>1, <1>5
      <4>1. i \in 1..k /\ j = Len(received) + i /\ c \in 0..(b.size - 1)
        <5>1. j \in Nat /\ j <= Len(received) + k
          BY <4>0
        <5>2. i \in 1..k /\ j = Len(received) + i
          BY <3>2, <4>0, <5>1
        <5>3. window.sent + k <= b.size
          BY <1>3, <4>0
        <5> HIDE DEF i
        <5>. QED BY <4>0, <5>2, <5>3
      <4>2. received'[j] = chunk[i]
        <5> HIDE DEF chunk, i
        <5>. QED BY <1>5, <4>1
      <4>3. chunk[i] = b.data[window.pos + window.sent + i - 1]
        BY <4>1
      <4>4. window.pos + window.sent + i - 1 = b.readPos + c
        <5>1. window.pos \in Int /\ window.pos = b.readPos
          BY <1>1, <2>1
        <5>2. i \in Int
          BY <4>1
        <5> HIDE DEF i
        <5>. QED BY <4>0, <5>1, <5>2
      <4>5. b.data[b.readPos + c] = Len(received) - window.sent + c + 1
        BY <2>1, <4>1
      <4>6. Len(received) - window.sent + c + 1 = j
        BY <1>1, <4>1
      <4>. QED BY <4>2, <4>3, <4>4, <4>5, <4>6
    <3>. QED BY <1>1, <1>5, <3>1, <3>2
  <2>4. received' = Bytes(1, Len(received'))
    <3>1. \A j \in 1..Len(received') : Bytes(1, Len(received'))[j] = j
      BY <1>1, <1>5 DEF Bytes
    <3>2. Len(Bytes(1, Len(received'))) = Len(received') /\ Bytes(1, Len(received')) \in Seq(Nat)
      BY <1>1, <1>5 DEF Bytes
    <3>. QED BY <1>5, <2>3, <3>1, <3>2
  <2>. QED BY <1>2, <2>1, <2>2, <2>4
<1>. QED BY <1>6, <1>7, <1>8, <1>9 DEF IInv

LEMMA StepOnWrite ==
  ASSUME IInv, OnWrite
  PROVE  IInv'
<1>. DEFINE n == window.sent
            a == ConsumeBytes(b, n)
<1>1. /\ b \in Buffers(Byte) /\ Geometry(b) /\ b.size \in 0..Capacity /\ Capacity \in Nat
      /\ n \in 0..Capacity /\ window.len \in 0..Capacity
      /\ Len(received) \in Nat /\ Len(delayed) \in Nat /\ lost \in Nat /\ discarded \in Nat
  BY CapacityAssumption DEF IInv, Queueing, TypeOK, Buffers
<1>2. /\ busy /\ n = window.len /\ b' = a
      /\ paused' = (paused /\ ~ShouldResumeReading(b'.size))
      /\ IF open THEN StartWriteOf(b') ELSE busy' = FALSE /\ window' = NoWindow
      /\ open' \in {open, open /\ b'.size > 0}
      /\ UNCHANGED <<produced, delayed, received, lost, discarded, moved, held>>
  BY DEF OnWrite
<1>3. n <= b.size
  BY <1>1, <1>2 DEF IInv, Queueing, WindowQueued
<1>4. /\ a \in Buffers(Byte) /\ Geometry(a) /\ a.size = b.size - n
      /\ \A i \in 0..(a.size - 1) : a.data[a.readPos + i] = b.data[b.readPos + n + i]
  <2>1. n \in Nat
    BY <1>1
  <2> HIDE DEF n
  <2>2. /\ a \in Buffers(Byte) /\ Geometry(a)
        /\ a.size = IF n > b.size THEN 0 ELSE b.size - n
        /\ \A i \in 0..(a.size - 1) : a.data[a.readPos + i] = b.data[b.readPos + n + i]
    BY <1>1, <2>1, ConsumeEffect
  <2>3. ~(n > b.size)
    BY <1>1, <1>3, <2>1
  <2>. QED BY <2>2, <2>3
<1> HIDE DEF a
<1>5. /\ b' \in Buffers(Byte) /\ Geometry(b)' /\ b'.size = b.size - n
      /\ b'.readPos \in 0..Capacity /\ b'.size \in 0..Capacity
      /\ b'.readPos + b'.size <= Capacity
      /\ \A i \in 0..(b'.size - 1) : b'.data[b'.readPos + i] = b.data[b.readPos + n + i]
  BY <1>1, <1>2, <1>4 DEF Geometry, Buffers
<1>6. /\ busy' \in BOOLEAN /\ window' \in [pos : Nat, len : 0..Capacity, sent : 0..Capacity]
      /\ WindowQueued' /\ IdleIsEmpty' /\ window'.sent = 0
      /\ (busy' => window'.pos = b'.readPos)
  <2>1. CASE open /\ b'.size > 0
    <3>1. busy' = TRUE /\ window' = [pos |-> b'.readPos, len |-> b'.size, sent |-> 0]
      BY <1>2, <2>1 DEF StartWriteOf
    <3>2. window' \in [pos : Nat, len : 0..Capacity, sent : 0..Capacity]
      BY <1>1, <1>5, <3>1
    <3>3. WindowQueued'
      BY <1>1, <1>5, <3>1 DEF WindowQueued
    <3>. QED BY <3>1, <3>2, <3>3 DEF IdleIsEmpty
  <2>2. CASE ~open \/ b'.size = 0
    <3>1. busy' = FALSE /\ window' = NoWindow
      <4>1. ~open \/ ~(b'.size > 0)
        BY <2>2
      <4>. QED BY <1>2, <4>1 DEF StartWriteOf
    <3>2. NoWindow \in [pos : Nat, len : 0..Capacity, sent : 0..Capacity]
      BY CapacityAssumption DEF NoWindow
    <3>3. window'.sent = 0
      BY <3>1 DEF NoWindow
    <3>4. open' => open
      BY <1>2
    <3>. QED BY <2>2, <3>1, <3>2, <3>3, <3>4 DEF WindowQueued, IdleIsEmpty
  <2>. QED BY <1>1, <1>5, <2>1, <2>2
<1>7. Queueing'
  <2>1. paused' \in BOOLEAN /\ open' \in BOOLEAN
    BY <1>2 DEF IInv, Queueing, TypeOK, ShouldResumeReading
  <2>2. TypeOK'
    BY <1>2, <1>5, <1>6, <2>1 DEF IInv, Queueing, TypeOK, Byte
  <2>. QED BY <1>2, <1>6, <2>2 DEF IInv, Queueing, NothingDelayed
<1>8. BytesConserved'
  <2>1. produced = Len(received) + (b.size - n) + Len(delayed) + lost + discarded
    BY DEF IInv, BytesConserved
  <2>2. b'.size - window'.sent = b.size - n
    BY <1>1, <1>5, <1>6
  <2>. QED BY <1>2, <2>1, <2>2 DEF BytesConserved
<1>9. UnpausedBelowHigh'
  <2>. SUFFICES ASSUME ~held, ~paused' PROVE b'.size < HighWater
    BY <1>2 DEF UnpausedBelowHigh
  <2>0. HighWater \in Nat /\ LowWater \in Nat /\ LowWater < HighWater
    BY SendAssumption
  <2>1. CASE paused
    <3>1. b'.size <= LowWater
      BY <1>2, <2>1 DEF ShouldResumeReading
    <3>. QED BY <1>5, <2>0, <3>1
  <2>2. CASE ~paused
    <3>1. b.size < HighWater
      BY <2>2 DEF IInv, UnpausedBelowHigh
    <3>. QED BY <1>1, <1>5, <2>0, <3>1
  <2>. QED BY <2>1, <2>2
<1>10. QueueContinues' /\ InOrderUnlessMoved'
  <2>. SUFFICES ASSUME ~moved, AllForwarded, NEW i \in 0..(b'.size - 1)
                PROVE  b'.data[b'.readPos + i] = Len(received) - window'.sent + i + 1
    BY <1>2, <1>6 DEF IInv, QueueContinues, InOrderUnlessMoved, AllForwarded
  <2>1. n + i \in 0..(b.size - 1)
    <3>1. n \in Nat /\ b.size \in Nat /\ b'.size = b.size - n
      BY <1>1, <1>5
    <3> HIDE DEF n
    <3>. QED BY <3>1
  <2>2. b.data[b.readPos + (n + i)] = Len(received) - n + (n + i) + 1
    BY <2>1 DEF IInv, QueueContinues
  <2>3. b.readPos + n + i = b.readPos + (n + i)
    BY <1>1, <2>1 DEF Buffers
  <2>4. Len(received) - n + (n + i) + 1 = Len(received) - window'.sent + i + 1
    BY <1>1, <1>6
  <2>. QED BY <1>5, <2>2, <2>3, <2>4
<1>. QED BY <1>7, <1>8, <1>9, <1>10 DEF IInv

LEMMA StepOnWriteError ==
  ASSUME IInv, OnWriteError
  PROVE  IInv'
<1>1. /\ busy' = FALSE /\ open' = FALSE
      /\ UNCHANGED <<produced, paused, delayed, b, window, received, lost, discarded,
                     moved, held>>
  BY DEF OnWriteError
<1>. QED BY <1>1 DEF IInv, Queueing, TypeOK, Geometry, Byte, WindowQueued, IdleIsEmpty,
                     NothingDelayed, BytesConserved, UnpausedBelowHigh, QueueContinues,
                     InOrderUnlessMoved, AllForwarded

LEMMA StepForceClose ==
  ASSUME IInv, ForceClose
  PROVE  IInv'
<1>1. /\ open' = FALSE
      /\ UNCHANGED <<produced, paused, delayed, b, busy, window, received, lost, discarded,
                     moved, held>>
  BY DEF ForceClose
<1>. QED BY <1>1 DEF IInv, Queueing, TypeOK, Geometry, Byte, WindowQueued, IdleIsEmpty,
                     NothingDelayed, BytesConserved, UnpausedBelowHigh, QueueContinues,
                     InOrderUnlessMoved, AllForwarded

LEMMA StepIInv == IInv /\ [Next]_vars => IInv'
<1> SUFFICES ASSUME IInv, [Next]_vars PROVE IInv'
  OBVIOUS
<1>1. ASSUME NEW n \in ReadSizes, OnRead(n) PROVE IInv'
  BY <1>1, StepOnRead
<1>2. ASSUME NEW k \in 1..Len(delayed), OnDelayExpired(k) PROVE IInv'
  BY <1>2, StepOnDelayExpired
<1>3. ASSUME NEW k \in 1..Capacity, KernelSends(k) PROVE IInv'
  BY <1>3, StepKernelSends
<1>4. CASE OnWrite
  BY <1>4, StepOnWrite
<1>5. CASE OnWriteError
  BY <1>5, StepOnWriteError
<1>6. CASE ForceClose
  BY <1>6, StepForceClose
<1>7. CASE UNCHANGED vars
  BY <1>7 DEF vars, IInv, Queueing, TypeOK, Geometry, Byte, WindowQueued, IdleIsEmpty,
              NothingDelayed, BytesConserved, UnpausedBelowHigh, QueueContinues,
              InOrderUnlessMoved, AllForwarded
<1>. QED BY <1>1, <1>2, <1>3, <1>4, <1>5, <1>6, <1>7 DEF Next

-----------------------------------------------------------------------------
(* The theorems. *)

\* Buffer, delay queue and the writes in the kernel agree after every handler.
THEOREM Invariance == Spec => []IInv
BY InitIInv, StepIInv, PTL DEF Spec

\* The types of the variables, and the layout of the buffer, hold throughout.
THEOREM TypeCorrect == Spec => []TypeOK
<1>1. IInv => TypeOK
  BY DEF IInv, Queueing
<1>. QED BY <1>1, Invariance, PTL

\* Every byte read is counted once: by the peer, the buffer, the delay queue, the
\* refusals of append(), or what a decision or a full delay queue gave up.
THEOREM BytesAreConserved == Spec => []BytesConserved
<1>1. IInv => BytesConserved
  BY DEF IInv
<1>. QED BY <1>1, Invariance, PTL

\* onClientWrite and onServerWrite consume only what is queued.
THEOREM WindowStaysQueued == Spec => []WindowQueued
<1>1. IInv => WindowQueued
  BY DEF IInv, Queueing
<1>. QED BY <1>1, Invariance, PTL

\* A reader that is not paused has a buffer below the high watermark.
THEOREM PausesInTime == Spec => []UnpausedBelowHigh
<1>1. IInv => UnpausedBelowHigh
  BY DEF IInv
<1>. QED BY <1>1, Invariance, PTL

\* Only a compact() under a write or a refused byte can break the order.
THEOREM OrderKept == Spec => []InOrderUnlessMoved
<1>1. IInv => InOrderUnlessMoved
  BY DEF IInv
<1>. QED BY <1>1, Invariance, PTL

\* What the code's sizes miss by one read: with a high watermark that leaves
\* room for one read, append() refuses no byte until a packet is delayed.
THEOREM NothingRefused ==
  ASSUME HighWater + ReadMax <= Capacity + 1
  PROVE  Spec => [](~held => NoSilentLoss)
<1>1. Init => (~held => NoSilentLoss)
  BY DEF Init, NoSilentLoss
<1>2. ASSUME IInv, ~held => lost = 0, [Next]_vars PROVE ~held' => lost' = 0
  <2>. SUFFICES ASSUME ~held' PROVE lost' = 0
    OBVIOUS
  <2>1. ASSUME NEW n \in ReadSizes, OnRead(n) PROVE lost' = 0
    <3>. SUFFICES ASSUME Forward(n) PROVE lost' = 0
      BY <1>2, <2>1 DEF OnRead, Delay, GiveUp
    <3>0. AppendAndSend(Bytes(produced + 1, n)) /\ ~held /\ lost = 0 /\ ~paused
      BY <1>2, <2>1 DEF OnRead, Forward
    <3>. DEFINE bytes == Bytes(produced + 1, n)
    <3>1. /\ n \in 1..ReadMax /\ ReadMax \in Nat /\ produced \in Nat /\ MaxBytes \in Nat
          /\ produced + n <= MaxBytes /\ HighWater \in Nat
      BY <1>2, <2>1, SendAssumption DEF OnRead, IInv, Queueing, TypeOK
    <3>2. bytes \in Seq(Byte) /\ Len(bytes) = n
      BY <3>1, BytesType
    <3>3. b \in Buffers(Byte) /\ Geometry(b) /\ b.size \in 0..Capacity /\ Capacity \in Nat
      BY <1>2, CapacityAssumption DEF IInv, Queueing, TypeOK, Buffers
    <3>4. b.size < HighWater
      BY <1>2, <3>0 DEF IInv, UnpausedBelowHigh
    <3>5. b.size + n <= Capacity
      BY <3>1, <3>3, <3>4
    <3>6. Fits(b, Len(bytes)) = n
      <4>1. Fits(b, n) = IF b.size + n <= Capacity THEN n ELSE Capacity - b.size
        BY <3>1, <3>3, FitsCount
      <4>. QED BY <3>2, <3>5, <4>1
    <3>7. lost' = lost + (Len(bytes) - Fits(b, Len(bytes)))
      BY <3>0 DEF AppendAndSend
    <3>. HIDE DEF bytes
    <3>. QED BY <3>0, <3>1, <3>2, <3>6, <3>7
  <2>2. ASSUME NEW k \in 1..Len(delayed), OnDelayExpired(k) PROVE lost' = 0
    BY <1>2, <2>2 DEF OnDelayExpired, IInv, Queueing, NothingDelayed
  <2>3. ASSUME NEW k \in 1..Capacity, KernelSends(k) PROVE lost' = 0
    BY <1>2, <2>3 DEF KernelSends
  <2>4. CASE OnWrite \/ OnWriteError \/ ForceClose \/ UNCHANGED vars
    BY <1>2, <2>4 DEF OnWrite, OnWriteError, ForceClose, vars
  <2>. QED BY <1>2, <2>1, <2>2, <2>3, <2>4 DEF Next
<1>3. IInv /\ (~held => NoSilentLoss) /\ [Next]_vars => (~held => NoSilentLoss)'
  BY <1>2 DEF NoSilentLoss
<1>. QED BY <1>1, <1>3, Invariance, PTL DEF Spec

-----------------------------------------------------------------------------
(* The bytes have the sizes that Session counts.                            *)

Sizes == INSTANCE RelaySizes WITH
  size <- b.size, inflight <- IF busy THEN window.len ELSE 0, delayed <- Len(delayed)

LEMMA StartSizes == open /\ StartWriteOf(b') => Sizes!StartWrite
<1> SUFFICES ASSUME open, StartWriteOf(b') PROVE Sizes!StartWrite
  OBVIOUS
<1>1. CASE b'.size > 0
  <2>1. busy' = TRUE /\ window'.len = b'.size
    BY <1>1 DEF StartWriteOf
  <2>. QED BY <1>1, <2>1 DEF Sizes!StartWrite
<1>2. CASE ~(b'.size > 0)
  <2>1. busy' = FALSE
    BY <1>2 DEF StartWriteOf
  <2>. QED BY <1>2, <2>1 DEF Sizes!StartWrite
<1>. QED BY <1>1, <1>2

\* The sizes an AppendAndSend leaves.
LEMMA AppendSizes ==
  ASSUME Queueing, NEW bytes \in Seq(Byte), AppendAndSend(bytes)
  PROVE  Sizes!Queue(Len(bytes)) /\ Sizes!StartIfIdle
<1>1. b \in Buffers(Byte) /\ Geometry(b) /\ Len(bytes) \in Nat /\ b' = AppendBytes(b, bytes)
      /\ busy \in BOOLEAN
  BY DEF Queueing, TypeOK, AppendAndSend
<1>2. Sizes!Queue(Len(bytes))
  BY <1>1, AppendSize DEF Sizes!Queue
<1>3. CASE busy
  <2>1. busy' = busy /\ window' = window
    BY <1>3 DEF AppendAndSend, StartWriteIfIdle
  <2>. QED BY <1>2, <1>3, <2>1 DEF Sizes!StartIfIdle
<1>4. CASE ~busy /\ ~open
  <2>1. busy' = busy
    BY <1>4 DEF AppendAndSend, StartWriteIfIdle
  <2>2. busy' = (open /\ b'.size > 0) /\ ~busy'
    BY <1>1, <1>4, <2>1
  <2>. QED BY <1>2, <1>4, <2>2 DEF Sizes!StartIfIdle, Sizes!StartWrite
<1>5. CASE ~busy /\ open
  <2>1. StartWriteOf(b')
    BY <1>5 DEF AppendAndSend, StartWriteIfIdle
  <2>. QED BY <1>2, <1>5, <2>1, StartSizes DEF Sizes!StartIfIdle
<1>. QED BY <1>3, <1>4, <1>5

LEMMA SizesStep == IInv /\ [Next]_vars => [Sizes!Next]_(Sizes!sizes)
<1> SUFFICES ASSUME IInv, [Next]_vars PROVE [Sizes!Next]_(Sizes!sizes)
  OBVIOUS
<1>i. Queueing /\ delayed \in Seq(Byte) /\ Len(delayed) \in Nat
  BY DEF IInv, Queueing, TypeOK
<1>1. ASSUME NEW n \in ReadSizes, OnRead(n) PROVE Sizes!Read(n)
  <2>. DEFINE bytes == Bytes(produced + 1, n)
  <2>1. n \in Nat /\ bytes \in Seq(Byte) /\ Len(bytes) = n
    <3>1. produced \in Nat /\ n \in Nat /\ n > 0 /\ produced + n <= MaxBytes /\ MaxBytes \in Nat
      BY <1>1, SendAssumption DEF OnRead, IInv, Queueing, TypeOK
    <3>. QED BY <3>1, BytesType
  <2>2. ~paused
    BY <1>1 DEF OnRead
  <2>3. CASE Forward(n)
    <3>1. AppendAndSend(bytes) /\ paused' = (b'.size >= HighWater) /\ UNCHANGED <<delayed, open>>
      BY <2>3 DEF Forward, ShouldPauseReading
    <3>. HIDE DEF bytes
    <3>2. Sizes!Queue(n) /\ Sizes!StartIfIdle
      BY <1>i, <2>1, <3>1, AppendSizes
    <3>. QED BY <2>2, <3>1, <3>2 DEF Sizes!Forward, Sizes!Read
  <2>4. CASE Delay(n)
    <3>1. PICK k \in 0..Len(delayed) :
            \E at \in 0..(Len(delayed) - k) :
              delayed' = PutAt(SubSeq(delayed, k + 1, Len(delayed)), at, bytes)
      BY <2>4 DEF Delay
    <3>2. paused' = (b.size >= HighWater) /\ UNCHANGED <<b, busy, window, open>>
      BY <2>4 DEF Delay, ShouldPauseReading
    <3>. HIDE DEF bytes
    <3>3. Len(delayed') = (Len(delayed) - k) + n
      <4>1. delayed \in Seq(Byte)
        BY <1>i DEF Queueing, TypeOK
      <4>2. PICK at \in 0..(Len(delayed) - k) :
              delayed' = PutAt(SubSeq(delayed, k + 1, Len(delayed)), at, bytes)
        BY <3>1
      <4>3. bytes \in Seq(Byte) /\ Len(bytes) = n
        BY <2>1
      <4>4. LET q == PutAt(SubSeq(delayed, k + 1, Len(delayed)), at, bytes) IN
            Len(q) = Len(delayed) - k + Len(bytes)
        BY <4>1, <4>3, PutSize
      <4>. QED BY <4>2, <4>3, <4>4
    <3>4. \E kept \in 0..Len(delayed) : Len(delayed') = kept + n
      <4>1. Len(delayed) - k \in 0..Len(delayed)
        BY <1>i
      <4>. QED BY <3>3, <4>1
    <3>. QED BY <2>2, <3>2, <3>4 DEF Sizes!Delay, Sizes!Read
  <2>5. ASSUME NEW action, GiveUp(n, action) PROVE Sizes!Neither
    <3>1. /\ paused' = (action = "Stall" \/ b.size >= HighWater)
          /\ open' = (open /\ action # "HalfClose")
          /\ UNCHANGED <<delayed, b, busy, window>>
      BY <2>5 DEF GiveUp, ShouldPauseReading
    <3>2. open \in BOOLEAN /\ (b.size >= HighWater) \in BOOLEAN
      BY <1>i DEF Queueing, TypeOK
    <3>3. paused' \in {b.size >= HighWater, TRUE}
      BY <3>1, <3>2
    <3>4. open' \in {open, FALSE}
      BY <3>1, <3>2
    <3>. QED BY <3>1, <3>3, <3>4 DEF Sizes!Neither
  <2>. QED BY <1>1, <2>2, <2>3, <2>4, <2>5 DEF OnRead, Sizes!Read
<1>2. ASSUME NEW k \in 1..Len(delayed), OnDelayExpired(k) PROVE Sizes!Flush(k)
  <2>. DEFINE bytes == SubSeq(delayed, 1, k)
  <2>1. bytes \in Seq(Byte) /\ Len(bytes) = k
    BY <1>i
  <2>2. /\ delayed' = SubSeq(delayed, k + 1, Len(delayed)) /\ AppendAndSend(bytes)
        /\ paused' = paused /\ open' = open
    BY <1>2 DEF OnDelayExpired
  <2>3. Len(delayed') = Len(delayed) - k
    BY <1>i, <2>2
  <2>. HIDE DEF bytes
  <2>4. Sizes!Queue(k) /\ Sizes!StartIfIdle
    BY <1>i, <2>1, <2>2, AppendSizes
  <2>. QED BY <2>2, <2>3, <2>4 DEF Sizes!Flush
<1>3. ASSUME NEW k \in 1..Capacity, KernelSends(k) PROVE UNCHANGED Sizes!sizes
  <2>1. window'.len = window.len
    BY <1>3 DEF KernelSends
  <2>. QED BY <1>3, <2>1 DEF KernelSends, Sizes!sizes
<1>4. CASE OnWrite
  <2>1. b \in Buffers(Byte) /\ Geometry(b) /\ b.size \in Nat /\ window.len \in Nat
        /\ window.sent = window.len /\ window.len <= b.size /\ busy /\ open \in BOOLEAN
    BY <1>4, CapacityAssumption
       DEF OnWrite, IInv, Queueing, WindowQueued, TypeOK, Buffers
  <2>2. b'.size = b.size - window.len /\ b'.size \in Nat
    <3>1. b' = ConsumeBytes(b, window.len)
      BY <1>4, <2>1 DEF OnWrite
    <3>2. b'.size = IF window.len > b.size THEN 0 ELSE b.size - window.len
      BY <2>1, <3>1, ConsumeEffect
    <3>. QED BY <2>1, <3>2
  <2>3. paused' = (paused /\ b'.size > LowWater)
    BY <1>4, <2>1, <2>2, SendAssumption DEF OnWrite, ShouldResumeReading
  <2>4. delayed' = delayed /\ open' \in {open, open /\ b'.size > 0}
    BY <1>4 DEF OnWrite
  <2>5. Sizes!StartWrite
    <3>1. CASE open
      BY <1>4, <3>1, StartSizes DEF OnWrite
    <3>2. CASE ~open
      <4>1. ~busy' /\ busy' = (open /\ b'.size > 0)
        BY <1>4, <3>2 DEF OnWrite
      <4>. QED BY <4>1 DEF Sizes!StartWrite
    <3>. QED BY <3>1, <3>2
  <2>6. open' = open \/ (open' = FALSE /\ b'.size = 0)
    <3>. DEFINE left == b'.size > 0
    <3>1. open' = open \/ (open' = (open /\ left))
      BY <2>4
    <3>2. open \in BOOLEAN /\ left \in BOOLEAN
      BY <2>1
    <3>3. ~left => b'.size = 0
      BY <2>2
    <3>. HIDE DEF left
    <3>. QED BY <3>1, <3>2, <3>3
  <2>. QED BY <2>1, <2>2, <2>3, <2>4, <2>5, <2>6 DEF Sizes!WriteDone, Sizes!Next
<1>5. CASE OnWriteError
  <2>1. /\ busy /\ busy' = FALSE /\ open' = FALSE
        /\ UNCHANGED <<paused, delayed, b>>
    BY <1>5 DEF OnWriteError
  <2>. QED BY <2>1 DEF Sizes!WriteFails, Sizes!Next
<1>6. CASE ForceClose
  <2>1. open' = FALSE /\ UNCHANGED <<paused, delayed, b, busy, window>>
    BY <1>6 DEF ForceClose
  <2>. QED BY <2>1 DEF Sizes!Close, Sizes!Next
<1>7. CASE UNCHANGED vars
  BY <1>7 DEF vars, Sizes!sizes
<1>8. \A k \in 1..Len(delayed) : k \in 0..Len(delayed)
  BY <1>i
<1>. QED BY <1>1, <1>2, <1>3, <1>4, <1>5, <1>6, <1>7, <1>8 DEF Next, Sizes!Next

\* What Session counts of a direction (SessionProofs has the same theorem of each of
\* its directions) is what its bytes come to, whatever the array holds and wherever
\* in it they lie: append() with compact(), partial sends, consume(), the delay queue
\* and the watermarks (Session.cpp:147-461, Buffer.cpp:9-37).
THEOREM BytesHaveSizes == Spec => Sizes!Spec
<1>1. Init => Sizes!Init
  BY DEF Init, EmptyBuffer, Sizes!Init
<1>. QED BY <1>1, SizesStep, Invariance, PTL DEF Spec, Sizes!Spec
==============================================================================
