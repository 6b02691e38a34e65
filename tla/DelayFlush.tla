------------------------------ MODULE DelayFlush ------------------------------
(***************************************************************************)
(* When a delayed packet leaves: the two delay queues of a session          *)
(* (DelayQueue.cpp) and the one timer they share (Session.cpp:232-268,      *)
(* 318-369).  Time counts down: a packet's "left" is its release time minus *)
(* now, in ticks, and goes below zero while the packet is late.             *)
(*                                                                         *)
(* The timer takes whole milliseconds, so a tick is a fraction of one.      *)
(***************************************************************************)
EXTENDS Integers, FiniteSetsExt

CONSTANTS
  TicksPerMs,
  Delays,               \* the delays in ms each direction's profile can give
  MinDelay, MaxDelay,   \* the least and the most of them
  DelayCap,             \* DelayQueue::MAX_BYTES
  Sizes,                \* packet sizes
  Latency,              \* how many ticks the event loop may run a timer late
  Ids                   \* bound: packets queued at once

ASSUME DelayAssumption ==
  /\ TicksPerMs \in Nat \ {0} /\ MinDelay \in Nat \ {0} /\ MaxDelay \in Nat
  /\ MinDelay <= MaxDelay
  /\ Delays \in [{"c2s", "s2c"} -> SUBSET (MinDelay..MaxDelay)]
  /\ DelayCap \in Nat /\ Sizes \subseteq 1..DelayCap /\ Latency \in Nat

Dir == {"c2s", "s2c"}

VARIABLES
  delayed,       \* clientToServerDelay_, serverToClientDelay_
  armed, wait,   \* delayTimerId_ # 0, and the ticks until the timer expires
  aim            \* history: the packet the timer was set for, unless it was dropped since

vars == <<delayed, armed, wait, aim>>

Packet == [id : Ids, left : Int, size : Sizes]

Queued == UNION {delayed[d] : d \in Dir}

SizeOf(p) == p.size
TotalBytes(q) == MapThenSumSet(SizeOf, q)

Init ==
  /\ delayed = [d \in Dir |-> {}]
  /\ armed = FALSE /\ wait = 0 /\ aim = {}

-----------------------------------------------------------------------------
(* The timer. *)

WholeSeconds(left) == (left \div (1000 * TicksPerMs)) * 1000 * TicksPerMs   \* mutant
\* duration_cast<milliseconds>, which truncates, and the floor of zero
WholeMs(left) == IF left <= 0 THEN 0 ELSE (left \div TicksPerMs) * TicksPerMs

TimerFor(p) == armed' = TRUE /\ wait' = WholeMs(p.left) /\ aim' = {p.id}
TimerOff == armed' = FALSE /\ wait' = 0 /\ aim' = {}

ScheduleLatest(q) ==   \* mutant: max() for min()
  \/ q = {} /\ TimerOff
  \/ \E p \in q : (\A o \in q : o.left <= p.left) /\ TimerFor(p)
\* for the release time that comes first in either queue
ScheduleDelayFlush(q) ==
  \/ q = {} /\ TimerOff
  \/ \E p \in q : (\A o \in q : p.left <= o.left) /\ TimerFor(p)

-----------------------------------------------------------------------------

DropNone(q, kept, n) == kept = q   \* mutant: no limit
\* dropOldest(), the soonest first, until n more bytes fit.
DropOldest(q, kept, n) ==
  /\ TotalBytes(kept) + n <= DelayCap
  /\ \A p \in q \ kept, k \in kept : p.left <= k.left
  /\ kept # q =>
       \E p \in q \ kept : /\ \A o \in q \ kept : o.left <= p.left
                           /\ TotalBytes(kept \cup {p}) + n > DelayCap

\* processClientData, processServerData with a delay of ms
Push(d, ms, n) ==
  \E kept \in SUBSET delayed[d], id \in Ids \ {p.id : p \in Queued} :
    /\ DropOldest(delayed[d], kept, n)
    /\ delayed' = [delayed EXCEPT ![d] =
                     kept \cup {[id |-> id, left |-> ms * TicksPerMs, size |-> n]}]
    /\ IF armed THEN UNCHANGED <<armed, wait>> /\ aim' = aim \ {p.id : p \in delayed[d] \ kept}
                ELSE ScheduleDelayFlush(UNION {delayed'[e] : e \in Dir})

OnDelayExpired ==
  /\ armed /\ wait <= 0
  /\ delayed' = [d \in Dir |-> {p \in delayed[d] : p.left > 0}]
  /\ ScheduleDelayFlush(UNION {delayed'[d] : d \in Dir})

Later(p) == [id |-> p.id, left |-> p.left - 1, size |-> p.size]

Tick ==
  /\ armed /\ wait > -Latency
  /\ wait' = wait - 1
  /\ delayed' = [d \in Dir |-> {Later(p) : p \in delayed[d]}]
  /\ UNCHANGED <<armed, aim>>

Next ==
  \/ \E d \in Dir, n \in Sizes : \E ms \in Delays[d] : Push(d, ms, n)
  \/ OnDelayExpired
  \/ Tick

Spec == Init /\ [][Next]_vars

-----------------------------------------------------------------------------
(* Properties. *)

\* Types of the two queues and of their timer.
TypeOK ==
  /\ delayed \in [Dir -> SUBSET Packet]
  /\ armed \in BOOLEAN /\ wait \in Int /\ aim \in SUBSET Ids

\* DelayQueue::push keeps totalBytes_ within MAX_BYTES, dropping what it must.
WithinCap == \A d \in Dir : TotalBytes(delayed[d]) <= DelayCap

\* One timer for two queues, not moved when a sooner packet comes: a packet is
\* late by the spread of the delays at most, and the event loop's latency; in
\* particular not at all if every packet has the same delay.
Spread == (MaxDelay - MinDelay) * TicksPerMs
LatenessBounded == \A p \in Queued : p.left + Spread + Latency >= 0

\* The timer runs exactly while a packet is queued.  The packet it was set for stays
\* queued until it expires, unless a push drops it, and is due then or less than a
\* millisecond later.  (In that millisecond, which whole milliseconds cannot express,
\* onDelayExpired sets one timer of 0 ms after the other: here steps that change
\* nothing.)
TimerIsForAPacket ==
  /\ armed <=> Queued # {}
  /\ \A id \in aim :
       \E p \in Queued : p.id = id /\ wait <= p.left /\ p.left < wait + TicksPerMs

\* README.md:20 "Latency | Add fixed delay (ms)": a packet leaves when the delay
\* of its own direction is over.
ReleasedOnTime == \A p \in Queued : p.left + Latency >= 0
==============================================================================
