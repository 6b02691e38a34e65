--------------------------- MODULE DelayFlushProofs ---------------------------
(***************************************************************************)
(* Proofs about DelayFlush for every set of delays and packets: how late a  *)
(* delayed packet can be, that the timer is always set for one, and that    *)
(* no queue outgrows its cap, nor refuses a packet to stay within it.       *)
(***************************************************************************)
EXTENDS DelayFlush, Sums, TLAPS

Most == MaxDelay * TicksPerMs

\* The timer runs while anything is queued, never more than Latency late.
Timing ==
  /\ ~armed => Queued = {}
  /\ armed => wait \in (-Latency)..Most
  /\ \A p \in Queued : p.left <= Most

\* It may be set for a later packet, but not for one much later.
NotMuchLater == \A p \in Queued : wait <= p.left + Spread

IInv == TypeOK /\ Timing /\ NotMuchLater /\ TimerIsForAPacket

LEMMA Constants == Most \in Nat /\ Spread \in Nat /\ Latency \in Nat
<1>1. /\ MinDelay \in Nat /\ MaxDelay \in Nat /\ TicksPerMs \in Nat /\ Latency \in Nat
      /\ MinDelay <= MaxDelay
  BY DelayAssumption
<1>2. \A a, b \in Nat : a * b \in Nat
  OBVIOUS
<1>. QED BY <1>1, <1>2 DEF Most, Spread

LEMMA Products ==
  ASSUME NEW ms \in MinDelay..MaxDelay
  PROVE  /\ Most \in Nat /\ Spread \in Int
         /\ ms * TicksPerMs \in Nat /\ ms * TicksPerMs <= Most
         /\ Most <= ms * TicksPerMs + Spread /\ Spread >= 0
<1>1. /\ ms \in Nat /\ MinDelay \in Nat /\ MaxDelay \in Nat /\ TicksPerMs \in Nat
      /\ MinDelay <= ms /\ ms <= MaxDelay
  BY DelayAssumption
<1>2. \A a, b, t \in Nat : a <= b => a * t <= b * t
  OBVIOUS
<1>3. /\ MinDelay * TicksPerMs <= ms * TicksPerMs
      /\ ms * TicksPerMs <= MaxDelay * TicksPerMs
  BY <1>1, <1>2
<1>4. (MaxDelay - MinDelay) * TicksPerMs = MaxDelay * TicksPerMs - MinDelay * TicksPerMs
  BY <1>1
<1>. QED BY <1>1, <1>3, <1>4 DEF Most, Spread

LEMMA WholeMsBounds ==
  ASSUME NEW left \in Int
  PROVE  /\ WholeMs(left) \in Nat
         /\ left > 0 => WholeMs(left) <= left /\ left < WholeMs(left) + TicksPerMs
<1>1. TicksPerMs \in Nat /\ TicksPerMs > 0
  BY DelayAssumption
<1>2. CASE left > 0
  <2>. DEFINE q == left \div TicksPerMs
  <2>1. q \in Int /\ q * TicksPerMs <= left /\ left < q * TicksPerMs + TicksPerMs
    BY <1>1
  <2>2. q * TicksPerMs \in Nat
    BY <1>1, <1>2, <2>1
  <2>. QED BY <1>2, <2>1, <2>2 DEF WholeMs
<1>3. CASE ~(left > 0)
  BY <1>3 DEF WholeMs
<1>. QED BY <1>2, <1>3

\* Set for packets none of which is late, the timer expires before any is.
LEMMA ScheduleEffect ==
  ASSUME NEW q \in SUBSET Packet, \A p \in q : p.left \in 1..Most, ScheduleDelayFlush(q)
  PROVE  /\ armed' \in BOOLEAN /\ wait' \in Int /\ aim' \in SUBSET Ids
         /\ armed' <=> q # {}
         /\ armed' => wait' \in (-Latency)..Most
         /\ \A p \in q : wait' <= p.left
         /\ \A id \in aim' :
              \E p \in q : p.id = id /\ wait' <= p.left /\ p.left < wait' + TicksPerMs
<1>0. Most \in Nat /\ Latency \in Nat
  BY Constants
<1>1. CASE q = {} /\ TimerOff
  <2>1. ~armed' /\ armed' \in BOOLEAN /\ wait' = 0 /\ aim' = {} /\ q = {}
    BY <1>1 DEF TimerOff
  <2>. QED BY <2>1
<1>2. ASSUME NEW p \in q, \A o \in q : p.left <= o.left, TimerFor(p)
      PROVE  /\ armed' = TRUE /\ wait' \in Nat /\ wait' <= Most /\ aim' = {p.id}
             /\ \A o \in q : wait' <= o.left
             /\ p.left < wait' + TicksPerMs
  <2>1. armed' = TRUE /\ wait' = WholeMs(p.left) /\ aim' = {p.id}
    BY <1>2 DEF TimerFor
  <2>2. p.left \in Int /\ p.left > 0 /\ p.left <= Most
    BY <1>0, <1>2
  <2>3. wait' \in Nat /\ wait' <= p.left /\ p.left < wait' + TicksPerMs
    BY <2>1, <2>2, WholeMsBounds
  <2>4. \A o \in q : wait' <= o.left
    <3>. TAKE o \in q
    <3>1. p.left <= o.left /\ o.left \in Int
      BY <1>0, <1>2
    <3>. QED BY <2>2, <2>3, <3>1
  <2>5. wait' <= Most
    BY <1>0, <2>2, <2>3
  <2>. QED BY <2>1, <2>3, <2>4, <2>5
<1>3. ASSUME NEW p \in q, \A o \in q : p.left <= o.left, TimerFor(p)
      PROVE  /\ armed' /\ armed' \in BOOLEAN /\ wait' \in Int /\ aim' \in SUBSET Ids /\ q # {}
             /\ wait' \in (-Latency)..Most
             /\ \A o \in q : wait' <= o.left
             /\ \A id \in aim' :
                  \E o \in q : o.id = id /\ wait' <= o.left /\ o.left < wait' + TicksPerMs
  <2>1. armed' = TRUE /\ wait' \in Nat /\ wait' <= Most /\ aim' = {p.id} /\ p.id \in Ids
        /\ (\A o \in q : wait' <= o.left) /\ p.left < wait' + TicksPerMs
    BY <1>2, <1>3 DEF Packet
  <2>2. wait' \in (-Latency)..Most
    BY <1>0, <2>1
  <2>3. \A id \in aim' :
          \E o \in q : o.id = id /\ wait' <= o.left /\ o.left < wait' + TicksPerMs
    BY <2>1
  <2>. QED BY <2>1, <2>2, <2>3
<1>4. CASE \E p \in q : (\A o \in q : p.left <= o.left) /\ TimerFor(p)
  BY <1>3, <1>4
<1>. QED BY <1>1, <1>4 DEF ScheduleDelayFlush

LEMMA InitIInv == Init => IInv
<1> SUFFICES ASSUME Init PROVE IInv
  OBVIOUS
<1>1. Queued = {} /\ delayed \in [Dir -> SUBSET Packet] /\ ~armed /\ wait = 0 /\ aim = {}
  BY DEF Init, Queued
<1>2. TypeOK
  <2>1. armed \in BOOLEAN /\ aim \in SUBSET Ids
    BY DEF Init
  <2>2. wait \in Int
    BY <1>1
  <2>. QED BY <1>1, <2>1, <2>2 DEF TypeOK
<1>. QED BY <1>1, <1>2 DEF IInv, Timing, NotMuchLater, TimerIsForAPacket

LEMMA StepPush ==
  ASSUME IInv, NEW d \in Dir, NEW n \in Sizes, NEW ms \in Delays[d], Push(d, ms, n)
  PROVE  IInv'
<1>1. PICK kept \in SUBSET delayed[d], id \in Ids \ {p.id : p \in Queued} :
        /\ delayed' = [delayed EXCEPT ![d] =
                         kept \cup {[id |-> id, left |-> ms * TicksPerMs, size |-> n]}]
        /\ IF armed THEN UNCHANGED <<armed, wait>>
                         /\ aim' = aim \ {p.id : p \in delayed[d] \ kept}
                    ELSE ScheduleDelayFlush(UNION {delayed'[e] : e \in Dir})
  BY DEF Push
<1>. DEFINE new == [id |-> id, left |-> ms * TicksPerMs, size |-> n]
<1>2. ms \in MinDelay..MaxDelay /\ Latency \in Nat
  BY DelayAssumption DEF Dir
<1>3. /\ Most \in Nat /\ Spread \in Int /\ new.left \in 1..Most
      /\ Most <= new.left + Spread /\ Spread >= 0
  <2>1. /\ Most \in Nat /\ Spread \in Int
        /\ ms * TicksPerMs \in Nat /\ ms * TicksPerMs <= Most
        /\ Most <= ms * TicksPerMs + Spread /\ Spread >= 0
    BY <1>2, Products
  <2>2. ms \in Nat /\ ms > 0 /\ TicksPerMs \in Nat /\ TicksPerMs > 0
    BY <1>2, DelayAssumption
  <2>3. ms * TicksPerMs # 0
    BY <2>2
  <2>. QED BY <2>1, <2>3
<1>4. new \in Packet
  BY <1>3 DEF Packet
<1>5. /\ delayed' \in [Dir -> SUBSET Packet]
      /\ new \in Queued' /\ Queued' \subseteq Queued \cup {new}
      /\ \A p \in Queued : p \notin delayed[d] \ kept => p \in Queued'
  <2>1. delayed \in [Dir -> SUBSET Packet]
    BY DEF IInv, TypeOK
  <2> HIDE DEF new
  <2>2. delayed' = [delayed EXCEPT ![d] = kept \cup {new}]
    BY <1>1 DEF new
  <2>3. \A e \in Dir : delayed'[e] = IF e = d THEN kept \cup {new} ELSE delayed[e]
    BY <2>1, <2>2
  <2>. QED BY <1>4, <2>1, <2>2, <2>3 DEF Queued
<1>6. \A p \in Queued : p.left \in Int /\ p.left <= Most
  BY DEF IInv, Timing, TypeOK, Packet, Queued
<1> HIDE DEF new
<1>7. CASE armed
  <2>1. armed' = armed /\ wait' = wait
    BY <1>1, <1>7
  <2>2. TypeOK'
    <3>1. aim' \subseteq aim
      BY <1>1, <1>7
    <3>2. armed' \in BOOLEAN /\ wait' \in Int /\ aim' \in SUBSET Ids
      BY <2>1, <3>1 DEF IInv, TypeOK
    <3>. QED BY <1>5, <3>2 DEF TypeOK
  <2>3. Timing'
    BY <1>3, <1>5, <1>6, <1>7, <2>1 DEF IInv, Timing, Most
  <2>4. NotMuchLater'
    <3>1. wait \in Int /\ wait <= Most
      BY <1>2, <1>3, <1>7 DEF IInv, Timing
    <3>2. wait <= new.left + Spread
      BY <1>3, <3>1
    <3>. QED BY <1>5, <2>1, <3>2 DEF IInv, NotMuchLater, Spread
  <2>5. TimerIsForAPacket'
    <3>1. aim' = aim \ {p.id : p \in delayed[d] \ kept}
      BY <1>1, <1>7
    <3>2. ASSUME NEW i \in aim'
          PROVE  \E p \in Queued' : p.id = i /\ wait <= p.left /\ p.left < wait + TicksPerMs
      <4>1. PICK p \in Queued : p.id = i /\ wait <= p.left /\ p.left < wait + TicksPerMs
        BY <3>1, <3>2 DEF IInv, TimerIsForAPacket
      <4>2. p \notin delayed[d] \ kept
        BY <3>1, <3>2, <4>1
      <4>3. p \in Queued'
        BY <1>5, <4>2
      <4>. QED BY <4>1, <4>3
    <3>. QED BY <1>5, <1>7, <2>1, <3>2 DEF TimerIsForAPacket
  <2>. QED BY <2>2, <2>3, <2>4, <2>5 DEF IInv
<1>8. CASE ~armed
  <2>1. Queued' = {new}
    BY <1>5, <1>8 DEF IInv, Timing
  <2>2. ScheduleDelayFlush(Queued')
    BY <1>1, <1>8 DEF Queued
  <2>3. /\ armed' \in BOOLEAN /\ wait' \in Int
        /\ aim' \in SUBSET Ids /\ (armed' <=> Queued' # {})
        /\ armed' => wait' \in (-Latency)..Most
        /\ \A p \in Queued' : wait' <= p.left
        /\ \A i \in aim' :
             \E p \in Queued' : p.id = i /\ wait' <= p.left /\ p.left < wait' + TicksPerMs
    BY <1>3, <1>4, <2>1, <2>2, ScheduleEffect
  <2>4. TypeOK'
    BY <1>1, <1>5, <2>3 DEF IInv, TypeOK, Packet
  <2>5. Timing'
    BY <1>3, <2>1, <2>3 DEF Timing, Most
  <2>6. NotMuchLater'
    BY <1>3, <2>1, <2>3 DEF NotMuchLater, Spread
  <2>7. TimerIsForAPacket'
    BY <2>3 DEF TimerIsForAPacket
  <2>. QED BY <2>4, <2>5, <2>6, <2>7 DEF IInv
<1>. QED BY <1>7, <1>8

LEMMA StepOnDelayExpired ==
  ASSUME IInv, OnDelayExpired
  PROVE  IInv'
<1>1. Most \in Nat /\ Spread \in Nat /\ Latency \in Nat
  BY Constants
<1>2. /\ delayed' = [d \in Dir |-> {p \in delayed[d] : p.left > 0}]
  BY DEF OnDelayExpired
<1>3. /\ delayed' \in [Dir -> SUBSET Packet]
      /\ Queued' = {p \in Queued : p.left > 0}
  BY <1>2 DEF IInv, TypeOK, Queued
<1>4. \A p \in Queued' : p.left \in 1..Most
  <2>1. \A p \in Queued : p.left \in Int /\ p.left <= Most
    BY DEF IInv, Timing, TypeOK, Packet, Queued
  <2>. QED BY <1>1, <1>3, <2>1
<1>5. ScheduleDelayFlush(Queued')
  BY DEF OnDelayExpired, Queued
<1>6. /\ armed' \in BOOLEAN /\ wait' \in Int
      /\ aim' \in SUBSET Ids /\ (armed' <=> Queued' # {})
      /\ armed' => wait' \in (-Latency)..Most
      /\ \A p \in Queued' : wait' <= p.left
      /\ \A id \in aim' :
           \E p \in Queued' : p.id = id /\ wait' <= p.left /\ p.left < wait' + TicksPerMs
  <2>1. Queued' \in SUBSET Packet
    BY <1>3 DEF IInv, TypeOK, Queued
  <2>. QED BY <1>4, <1>5, <2>1, ScheduleEffect
<1>7. TypeOK'
  BY <1>2, <1>3, <1>6 DEF IInv, TypeOK, Packet
<1>8. Timing'
  BY <1>1, <1>4, <1>6 DEF Timing, Most
<1>9. NotMuchLater'
  <2>. SUFFICES ASSUME NEW p \in Queued' PROVE wait' <= p.left + Spread
    BY DEF NotMuchLater, Spread
  <2>1. wait' <= p.left /\ p.left \in Int
    BY <1>4, <1>6
  <2>. QED BY <1>1, <1>6, <2>1
<1>10. TimerIsForAPacket'
  BY <1>6 DEF TimerIsForAPacket
<1>. QED BY <1>7, <1>8, <1>9, <1>10 DEF IInv

LEMMA StepTick ==
  ASSUME IInv, Tick
  PROVE  IInv'
<1>1. Most \in Nat /\ Spread \in Nat /\ Latency \in Nat
  BY Constants
<1>2. /\ armed /\ wait > -Latency /\ wait' = wait - 1 /\ wait \in Int /\ wait <= Most
      /\ delayed' = [d \in Dir |-> {Later(p) : p \in delayed[d]}]
      /\ armed' = armed /\ aim' = aim
  BY DEF Tick, IInv, TypeOK, Timing
<1>3. \A p \in Packet : Later(p) \in Packet /\ Later(p).left = p.left - 1
  BY DEF Packet, Later
<1>4. delayed \in [Dir -> SUBSET Packet] /\ Queued \subseteq Packet
  BY DEF IInv, TypeOK, Queued
<1>5. Queued' = {Later(p) : p \in Queued}
  BY <1>2 DEF Queued
<1>6. \A p \in Queued : p.left \in Int /\ p.left <= Most /\ wait <= p.left + Spread
  BY <1>4 DEF IInv, Timing, NotMuchLater, Packet
<1>7. TypeOK'
  BY <1>2, <1>3, <1>4 DEF IInv, TypeOK, Packet
<1>8. Timing'
  <2>1. wait' \in (-Latency)..Most
    BY <1>1, <1>2
  <2>2. \A p \in Queued' : p.left <= Most
    BY <1>1, <1>3, <1>4, <1>5, <1>6
  <2>. QED BY <1>2, <2>1, <2>2 DEF Timing, Most
<1>9. NotMuchLater'
  <2>. SUFFICES ASSUME NEW p \in Queued' PROVE wait' <= p.left + Spread
    BY DEF NotMuchLater, Spread
  <2>1. PICK o \in Queued : p = Later(o)
    BY <1>5
  <2>2. p.left = o.left - 1 /\ o.left \in Int /\ wait <= o.left + Spread
    BY <1>3, <1>4, <1>6, <2>1
  <2>. QED BY <1>1, <1>2, <2>2
<1>10. TimerIsForAPacket'
  <2>0. armed <=> Queued # {}
    BY DEF IInv, TimerIsForAPacket
  <2>. SUFFICES ASSUME NEW id \in aim
                PROVE  \E p \in Queued' : /\ p.id = id
                                          /\ wait' <= p.left /\ p.left < wait' + TicksPerMs
    BY <1>2, <1>5, <2>0 DEF TimerIsForAPacket
  <2>1. PICK p \in Queued : p.id = id /\ wait <= p.left /\ p.left < wait + TicksPerMs
    BY <1>2 DEF IInv, TimerIsForAPacket
  <2>2. Later(p) \in Queued' /\ Later(p).left = p.left - 1 /\ p.left \in Int
        /\ Later(p).id = id
    BY <1>3, <1>4, <1>5, <1>6, <2>1 DEF Later
  <2>3. TicksPerMs \in Nat
    BY DelayAssumption
  <2>4. wait' <= Later(p).left /\ Later(p).left < wait' + TicksPerMs
    BY <1>2, <2>1, <2>2, <2>3
  <2>. QED BY <2>2, <2>4
<1>. QED BY <1>7, <1>8, <1>9, <1>10 DEF IInv

LEMMA StepIInv == IInv /\ [Next]_vars => IInv'
<1> SUFFICES ASSUME IInv, [Next]_vars PROVE IInv'
  OBVIOUS
<1>1. ASSUME NEW d \in Dir, NEW n \in Sizes, NEW ms \in Delays[d], Push(d, ms, n) PROVE IInv'
  BY <1>1, StepPush
<1>2. CASE OnDelayExpired
  BY <1>2, StepOnDelayExpired
<1>3. CASE Tick
  BY <1>3, StepTick
<1>4. CASE UNCHANGED vars
  BY <1>4 DEF vars, IInv, TypeOK, Timing, NotMuchLater, TimerIsForAPacket, Queued, Packet,
              Most, Spread
<1>. QED BY <1>1, <1>2, <1>3, <1>4 DEF Next

-----------------------------------------------------------------------------
(* The queues' bytes: TotalBytes is a sum, and changes as sums do (Sums). *)

\* What the sums add up.
SizeTable == [p \in Packet |-> p.size]

LEMMA SizesAreCounts ==
  /\ DelayCap \in Nat
  /\ \A p \in Packet : SizeTable[p] = p.size /\ SizeTable[p] \in Nat
  /\ Sizes \subseteq Nat
<1>1. DelayCap \in Nat /\ Sizes \subseteq Nat
  BY DelayAssumption
<1>2. \A p \in Packet : SizeTable[p] = p.size /\ p.size \in Sizes
  BY DEF SizeTable, Packet
<1>. QED BY <1>1, <1>2

\* TotalBytes is the sum of the sizes: both are tables of the same recursion.
LEMMA TotalIsSum ==
  ASSUME NEW q \in SUBSET Packet, IsFiniteSet(q)
  PROVE  TotalBytes(q) = SumOf(SizeTable, q) /\ TotalBytes(q) \in Nat
<1>. DEFINE Adds(it) == it = [s \in SUBSET q |->
                                IF s = {} THEN 0 ELSE Chosen(s).size + it[s \ {Chosen(s)}]]
<1>1. TotalBytes(q) = (CHOOSE it : Adds(it))[q]
  BY DEF TotalBytes, MapThenSumSet, MapThenFoldSet, SizeOf, Chosen
<1>2. \A x \in q : SizeTable[x] \in Nat
  BY SizesAreCounts
<1>3. ASSUME NEW it PROVE Adds(it) <=> Recurses(it, SizeTable, q)
  <2>1. \A s \in SUBSET q : s # {} => SizeTable[Chosen(s)] = Chosen(s).size
    <3>1. \A s \in SUBSET q : s # {} => Chosen(s) \in Packet
      BY DEF Chosen
    <3>. QED BY <3>1, SizesAreCounts
  <2>2. \A s \in SUBSET q : Unfolded(it, SizeTable, s)
                              = IF s = {} THEN 0 ELSE Chosen(s).size + it[s \ {Chosen(s)}]
    BY <2>1 DEF Unfolded
  <2>. QED BY <2>2 DEF Recurses
<1>4. \E it : Adds(it)
  <2>1. \E it : Recurses(it, SizeTable, q)
    BY <1>2, RecursionExists
  <2>. HIDE DEF Adds
  <2>. QED BY <1>3, <2>1
<1>. DEFINE total == CHOOSE it : Adds(it)
<1>5. Adds(total)
  BY <1>4
<1>. HIDE DEF Adds, total
<1>6. total[q] = SumOf(SizeTable, q)
  BY <1>2, <1>3, <1>5, SumIs
<1>7. TotalBytes(q) = total[q]
  BY <1>1 DEF total
<1>. QED BY <1>2, <1>6, <1>7, SumType

\* A packet more, fewer packets, and the same packets a tick later.
LEMMA TotalAdd ==
  ASSUME NEW q \in SUBSET Packet, IsFiniteSet(q), NEW p \in Packet, p \notin q
  PROVE  IsFiniteSet(q \cup {p}) /\ TotalBytes(q \cup {p}) = TotalBytes(q) + p.size
<1>1. IsFiniteSet(q \cup {p}) /\ q \cup {p} \in SUBSET Packet
  BY FS_AddElement
<1>2. SumOf(SizeTable, q \cup {p}) = SumOf(SizeTable, q) + SizeTable[p]
  BY SumAdd, SizesAreCounts
<1>. QED BY <1>1, <1>2, TotalIsSum, SizesAreCounts

LEMMA TotalSubset ==
  ASSUME NEW q \in SUBSET Packet, IsFiniteSet(q), NEW r \in SUBSET q
  PROVE  IsFiniteSet(r) /\ TotalBytes(r) <= TotalBytes(q)
<1>1. IsFiniteSet(r) /\ r \in SUBSET Packet
  BY FS_Subset
<1>2. SumOf(SizeTable, r) <= SumOf(SizeTable, q)
  BY SumSubset, SizesAreCounts
<1>. QED BY <1>1, <1>2, TotalIsSum

LEMMA TotalLater ==
  ASSUME NEW q \in SUBSET Packet, IsFiniteSet(q)
  PROVE  /\ IsFiniteSet({Later(p) : p \in q})
         /\ TotalBytes({Later(p) : p \in q}) = TotalBytes(q)
<1>. DEFINE h == [p \in q |-> Later(p)]
<1>1. \A p \in q : h[p] \in Packet /\ SizeTable[h[p]] = SizeTable[p] /\ SizeTable[p] \in Nat
  <2>1. \A p \in q : Later(p) \in Packet /\ Later(p).size = p.size
    BY DEF Packet, Later
  <2>. QED BY <2>1, SizesAreCounts
<1>2. \A p, o \in q : h[p] = h[o] => p = o
  <2>. SUFFICES ASSUME NEW p \in q, NEW o \in q, Later(p) = Later(o) PROVE p = o
    OBVIOUS
  <2>1. p.id = o.id /\ p.left - 1 = o.left - 1 /\ p.size = o.size
    BY DEF Later
  <2>2. p \in Packet /\ o \in Packet
    OBVIOUS
  <2>. QED BY <2>1, <2>2 DEF Packet
<1>3. {Later(p) : p \in q} = {h[p] : p \in q}
  OBVIOUS
<1> HIDE DEF h
<1>4. /\ IsFiniteSet({h[p] : p \in q})
      /\ SumOf(SizeTable, {h[p] : p \in q}) = SumOf(SizeTable, q)
  BY <1>1, <1>2, SumImage
<1>5. {h[p] : p \in q} \in SUBSET Packet
  BY <1>1
<1>. QED BY <1>3, <1>4, <1>5, TotalIsSum

\* Of the packets of a queue, one is due last.
LEMMA LastDue ==
  ASSUME NEW q \in SUBSET Packet, IsFiniteSet(q), q # {}
  PROVE  \E p \in q : \A o \in q : o.left <= p.left
<1>. DEFINE HasLast(s) == \E p \in s : \A o \in s : o.left <= p.left
            P == {s \in SUBSET q : s = {} \/ HasLast(s)}
<1>0. \A p \in q : p.left \in Int
  BY DEF Packet
<1>1. {} \in P
  OBVIOUS
<1>2. ASSUME NEW s \in SUBSET q, NEW x \in q, s \in P PROVE s \cup {x} \in P
  <2>1. CASE s = {}
    <3>1. \A o \in s \cup {x} : o.left <= x.left
      BY <1>0, <2>1
    <3>. QED BY <3>1
  <2>2. CASE s # {}
    <3>1. PICK p \in s : \A o \in s : o.left <= p.left
      BY <1>2, <2>2
    <3>2. CASE x.left <= p.left
      BY <3>1, <3>2
    <3>3. CASE ~(x.left <= p.left)
      <4>1. \A o \in s \cup {x} : o.left <= x.left
        BY <1>0, <3>1, <3>3
      <4>. QED BY <4>1
    <3>. QED BY <3>2, <3>3
  <2>. QED BY <2>1, <2>2
<1>3. q \in P
  <2> HIDE DEF P
  <2>. QED BY <1>1, <1>2, InductiveSubsets
<1>. QED BY <1>3

\* dropOldest() ends with room for the packet: of what can be kept, the most is.
LEMMA RoomIsMade ==
  ASSUME NEW q \in SUBSET Packet, IsFiniteSet(q), NEW n \in Sizes
  PROVE  \E kept \in SUBSET q : DropOldest(q, kept, n)
<1>. DEFINE Fit(k) == /\ TotalBytes(k) + n <= DelayCap
                      /\ \A p \in q \ k, o \in k : p.left <= o.left
            K == {k \in SUBSET q : Fit(k)}
            Sacrifice == {Cardinality(q \ k) : k \in K}
<1>1. n \in Nat /\ n <= DelayCap /\ DelayCap \in Nat
  BY DelayAssumption
<1>2. \A k \in SUBSET q : /\ IsFiniteSet(k) /\ IsFiniteSet(q \ k)
                          /\ Cardinality(q \ k) \in Nat
  BY FS_Subset, FS_CardinalityType
<1>3. {} \in K
  <2>1. TotalBytes({}) = 0
    BY TotalIsSum, SumEmpty, FS_EmptySet
  <2>. QED BY <1>1, <2>1
<1>4. PICK k \in K : \A o \in K : Cardinality(q \ k) <= Cardinality(q \ o)
  <2>1. Sacrifice \in SUBSET Nat /\ Sacrifice # {}
    BY <1>2, <1>3
  <2>2. PICK m \in Sacrifice : \A o \in Sacrifice : m <= o
    BY <2>1, LeastNatural
  <2>. QED BY <2>2
<1>5. CASE k = q
  BY <1>5 DEF DropOldest
<1>6. CASE k # q
  <2>1. PICK p \in q \ k : \A o \in q \ k : o.left <= p.left
    BY <1>2, <1>6, LastDue
  <2>2. ASSUME TotalBytes(k \cup {p}) + n <= DelayCap PROVE FALSE
    <3>1. k \cup {p} \in K
      BY <2>1, <2>2
    <3>2. Cardinality(q \ (k \cup {p})) = Cardinality(q \ k) - 1
      <4>1. q \ (k \cup {p}) = (q \ k) \ {p}
        OBVIOUS
      <4>. DEFINE r == q \ k
      <4>2. IsFiniteSet(r) /\ p \in r /\ q \ (k \cup {p}) = r \ {p}
        BY <1>2, <2>1, <4>1
      <4>. HIDE DEF r
      <4>3. Cardinality(r \ {p}) = Cardinality(r) - 1
        BY <4>2, FS_RemoveElement
      <4>. QED BY <4>2, <4>3 DEF r
    <3>3. Cardinality(q \ k) <= Cardinality(q \ (k \cup {p}))
      BY <1>4, <3>1
    <3>. QED BY <1>2, <3>2, <3>3
  <2>3. TotalBytes(k \cup {p}) + n > DelayCap
    <3>1. IsFiniteSet(k \cup {p})
      BY <1>2, FS_AddElement
    <3>2. k \cup {p} \in SUBSET Packet
      BY <1>2, <2>1
    <3>3. TotalBytes(k \cup {p}) \in Nat
      BY <3>1, <3>2, TotalIsSum
    <3>. QED BY <1>1, <2>2, <3>3
  <2>. QED BY <2>1, <2>3 DEF DropOldest
<1>. QED BY <1>5, <1>6

\* The queues are finite, so that their bytes are a sum at all, and within the cap.
CapInv == TypeOK /\ (\A d \in Dir : IsFiniteSet(delayed[d])) /\ WithinCap

LEMMA InitCap == Init => CapInv
<1> SUFFICES ASSUME Init PROVE CapInv
  OBVIOUS
<1>1. TypeOK
  BY InitIInv DEF IInv
<1>2. \A d \in Dir : delayed[d] = {}
  BY DEF Init
<1>3. IsFiniteSet({}) /\ TotalBytes({}) <= DelayCap
  <2>1. TotalBytes({}) = 0
    BY TotalIsSum, SumEmpty, FS_EmptySet
  <2>. QED BY <2>1, SizesAreCounts, FS_EmptySet
<1>. QED BY <1>1, <1>2, <1>3 DEF CapInv, WithinCap

LEMMA StepCap == CapInv /\ TypeOK' /\ [Next]_vars => CapInv'
<1> SUFFICES ASSUME CapInv, TypeOK', [Next]_vars PROVE CapInv'
  OBVIOUS
<1>. DEFINE Held(q) == q \in SUBSET Packet /\ IsFiniteSet(q) /\ TotalBytes(q) <= DelayCap
<1>1. \A d \in Dir : Held(delayed[d])
  BY DEF CapInv, TypeOK, WithinCap
<1>2. SUFFICES \A d \in Dir : Held(delayed'[d])
  BY DEF CapInv, WithinCap
<1>3. ASSUME NEW d \in Dir, NEW n \in Sizes, NEW ms \in Delays[d], Push(d, ms, n)
      PROVE  \A e \in Dir : Held(delayed'[e])
  <2>1. PICK kept \in SUBSET delayed[d], id \in Ids \ {p.id : p \in Queued} :
          /\ DropOldest(delayed[d], kept, n)
          /\ delayed' = [delayed EXCEPT ![d] =
                           kept \cup {[id |-> id, left |-> ms * TicksPerMs, size |-> n]}]
    BY <1>3 DEF Push
  <2>. DEFINE new == [id |-> id, left |-> ms * TicksPerMs, size |-> n]
  <2>2. new.id = id /\ new.size = n
    OBVIOUS
  <2> HIDE DEF new
  <2>3. delayed' = [delayed EXCEPT ![d] = kept \cup {new}]
    BY <2>1 DEF new
  <2>4. \A e \in Dir : delayed'[e] = IF e = d THEN kept \cup {new} ELSE delayed[e]
    BY <2>3 DEF CapInv, TypeOK
  <2>5. new \in Packet
    BY <2>4 DEF TypeOK
  <2>6. new \notin kept
    BY <2>1, <2>2 DEF Queued
  <2>7. kept \in SUBSET Packet /\ IsFiniteSet(kept) /\ TotalBytes(kept) + n <= DelayCap
    BY <1>1, <2>1, TotalSubset DEF DropOldest
  <2>8. Held(kept \cup {new})
    BY <2>2, <2>5, <2>6, <2>7, TotalAdd
  <2>. QED BY <1>1, <2>4, <2>8
<1>4. CASE OnDelayExpired
  <2>1. \A d \in Dir : delayed'[d] \in SUBSET delayed[d]
    BY <1>4 DEF OnDelayExpired
  <2>. SUFFICES ASSUME NEW d \in Dir PROVE Held(delayed'[d])
    OBVIOUS
  <2>2. IsFiniteSet(delayed'[d]) /\ TotalBytes(delayed'[d]) <= TotalBytes(delayed[d])
    BY <1>1, <2>1, TotalSubset
  <2>3. delayed'[d] \in SUBSET Packet
    BY <1>1, <2>1
  <2>4. TotalBytes(delayed'[d]) \in Nat /\ TotalBytes(delayed[d]) \in Nat /\ DelayCap \in Nat
    BY <1>1, <2>2, <2>3, TotalIsSum, SizesAreCounts
  <2>. QED BY <1>1, <2>2, <2>3, <2>4
<1>5. CASE Tick
  <2>. SUFFICES ASSUME NEW d \in Dir PROVE Held(delayed'[d])
    OBVIOUS
  <2>1. delayed'[d] = {Later(p) : p \in delayed[d]}
    BY <1>5 DEF Tick
  <2>2. IsFiniteSet(delayed'[d]) /\ TotalBytes(delayed'[d]) = TotalBytes(delayed[d])
    BY <1>1, <2>1, TotalLater
  <2>3. delayed'[d] \in SUBSET Packet
    BY DEF TypeOK
  <2>. QED BY <1>1, <2>2, <2>3
<1>6. CASE UNCHANGED vars
  BY <1>1, <1>6 DEF vars
<1>. QED BY <1>3, <1>4, <1>5, <1>6 DEF Next

-----------------------------------------------------------------------------
(* The theorems. *)

\* What the queues and the shared timer have in common holds after every handler.
THEOREM Invariance == Spec => []IInv
BY InitIInv, StepIInv, PTL DEF Spec

\* The queues hold packets, the timer a time.
THEOREM TypeCorrect == Spec => []TypeOK
<1>1. IInv => TypeOK
  BY DEF IInv
<1>. QED BY <1>1, Invariance, PTL

LEMMA IInvLateness == IInv => LatenessBounded
<1> SUFFICES ASSUME IInv, NEW p \in Queued PROVE p.left + Spread + Latency >= 0
  BY DEF LatenessBounded
<1>1. Spread \in Nat /\ Latency \in Nat
  BY Constants
<1>2. wait \in Int /\ -Latency <= wait
  BY <1>1 DEF IInv, Timing, TypeOK
<1>3. p.left \in Int /\ wait <= p.left + Spread
  BY DEF IInv, NotMuchLater, TypeOK, Packet, Queued
<1>. QED BY <1>1, <1>2, <1>3

\* Sharing one timer makes a packet late by the spread of the delays at most.
THEOREM LatenessIsBounded == Spec => []LatenessBounded
BY IInvLateness, Invariance, PTL

\* The shared delay timer runs exactly while packets are queued, and the packet it was
\* set for is there when it expires and due within the millisecond, unless it was dropped.
THEOREM TimerIsAlwaysForAPacket == Spec => []TimerIsForAPacket
<1>1. IInv => TimerIsForAPacket
  BY DEF IInv
<1>. QED BY <1>1, Invariance, PTL

\* With one delay for every packet of both directions, README.md:20 holds.
THEOREM OneDelayIsOnTime ==
  ASSUME MinDelay = MaxDelay
  PROVE  Spec => []ReleasedOnTime
<1>1. IInv => ReleasedOnTime
  <2>1. Spread = 0
    BY DelayAssumption DEF Spread
  <2> SUFFICES ASSUME IInv, NEW p \in Queued PROVE p.left + Latency >= 0
    BY DEF ReleasedOnTime
  <2>2. p.left + Spread + Latency >= 0 /\ p.left \in Int
    BY IInvLateness DEF LatenessBounded, IInv, TypeOK, Packet, Queued
  <2>. QED BY <2>1, <2>2
<1>. QED BY <1>1, Invariance, PTL

\* DelayQueue::push keeps a queue's bytes within MAX_BYTES, whatever it is given: no
\* sequence of packets, releases and drops adds up to more.
THEOREM CapIsKept == Spec => []WithinCap
<1>1. IInv => TypeOK
  BY DEF IInv
<1>2. CapInv => WithinCap
  BY DEF CapInv
<1>. QED BY <1>1, <1>2, Invariance, InitCap, StepCap, PTL DEF Spec

\* Whatever a queue holds and whatever is pushed, dropping the oldest can make room.
RoomCanBeMade ==
  \A d \in Dir, n \in Sizes :
    \E kept \in SUBSET delayed[d] : DropOldest(delayed[d], kept, n)

\* A push can always make the room it needs and never finds itself without a packet
\* to drop: no queue that forms refuses a packet (DelayQueue::push).
THEOREM PushNeverBlocks == Spec => []RoomCanBeMade
<1>1. CapInv => RoomCanBeMade
  <2> SUFFICES ASSUME CapInv, NEW d \in Dir, NEW n \in Sizes
               PROVE  \E kept \in SUBSET delayed[d] : DropOldest(delayed[d], kept, n)
    BY DEF RoomCanBeMade
  <2>1. delayed[d] \in SUBSET Packet /\ IsFiniteSet(delayed[d])
    BY DEF CapInv, TypeOK
  <2>. QED BY <2>1, RoomIsMade
<1>2. IInv => TypeOK
  BY DEF IInv
<1>. QED BY <1>1, <1>2, Invariance, InitCap, StepCap, PTL DEF Spec
==============================================================================
