------------------------------- MODULE Session -------------------------------
(***************************************************************************)
(* One proxied connection (src/src/Session.cpp): two sockets, two relay    *)
(* directions, the timers that guard them and the handlers asio runs for   *)
(* them.  Direction "c2s" reads the client socket and writes the server    *)
(* socket, "s2c" the reverse, so that                                      *)
(*    readOpen["c2s"] = clientReadOpen    writeOpen["c2s"] = serverWriteOpen *)
(*    readOpen["s2c"] = serverReadOpen    writeOpen["s2c"] = clientWriteOpen *)
(* and one definition stands for the client and the server variant of each *)
(* handler of the code.                                                    *)
(*                                                                         *)
(* Every handler runs to completion on the one thread of the event loop,   *)
(* so a handler is one action.  An asynchronous operation is "none",       *)
(* "pending" in the kernel, "aborted" (cancelled), or finished with a      *)
(* result; its handler is queued in the last two cases, and runs later: an *)
(* operation that finishes where it is started, two of one socket that     *)
(* finish together and a strand with other handlers all make it wait.      *)
(***************************************************************************)
EXTENDS Naturals

CONSTANTS
  Capacity,     \* Buffer::DEFAULT_CAPACITY, in units of the model
  HighWater,    \* Buffer::HIGH_WATERMARK
  LowWater,     \* Buffer::LOW_WATERMARK
  DelayCap,     \* DelayQueue::MAX_BYTES
  ReadSizes,    \* the byte counts one read may return
  Decisions,    \* what decide() can answer under the session's profile
  MaxPackets    \* bound: successful reads per direction

ASSUME BufferAssumption ==
  /\ Capacity \in Nat /\ HighWater \in Nat /\ LowWater \in Nat
  /\ LowWater < HighWater /\ HighWater <= Capacity

ASSUME InputAssumption ==
  /\ DelayCap \in Nat /\ MaxPackets \in [{"c2s", "s2c"} -> Nat]
  /\ ReadSizes \subseteq 1..DelayCap
  /\ Decisions \subseteq {"Forward", "Delay", "Drop", "HalfClose", "Stall"}

Dir == {"c2s", "s2c"}

VARIABLES
  readOpen, writeOpen,            \* channels_
  registered,                     \* the manager's sessions_ holds the session
  reset,                          \* forceReset() has closed both sockets
  upstream,                       \* upstreamState_
  posted,                         \* handlers posted to the strand by the manager
  connectOp, readOp, writeOp,     \* outstanding asynchronous operations
  buf,                            \* readable() of the two write buffers
  inflight,                       \* bytes handed to the write in progress
  writeBusy,                      \* clientWriteInProgress_, serverWriteInProgress_
  readPaused,                     \* clientReadPaused_, serverReadPaused_
  delayed,                        \* totalBytes() of the two delay queues
  connectTimer, delayTimer,       \* the timers connectTimerId_, delayTimerId_ name
  idleTimer,                      \* the timer idleTimerId_ names
  orphanIdle, staleIdle,          \* idle timers it no longer names: waiting, expired
  pktSeq,                         \* clientPktSeq_, serverPktSeq_
  connectFailures,                \* this session's share of the metric
  crashed                         \* an exception left the event loop's thread

chanVars  == <<readOpen, writeOpen, registered, reset>>
opVars    == <<connectOp, readOp, writeOp>>
bufVars   == <<buf, inflight, writeBusy>>
flowVars  == <<readPaused, delayed, delayTimer, pktSeq>>
idleVars  == <<idleTimer, orphanIdle, staleIdle>>
lifeVars  == <<upstream, connectTimer, connectFailures, crashed>>
vars      == <<chanVars, opVars, bufVars, flowVars, idleVars, lifeVars, posted>>

Done      == {"ok", "eof", "err"}
OpState   == {"none", "pending", "aborted"} \cup Done
Timer     == {"off", "waiting", "expired"}
Posts     == {"start", "shutdown", "forceClose"}

ChanTypeOK ==
  /\ readOpen \in [Dir -> BOOLEAN] /\ writeOpen \in [Dir -> BOOLEAN]
  /\ registered \in BOOLEAN /\ reset \in BOOLEAN

OpTypeOK ==
  /\ connectOp \in OpState
  /\ readOp \in [Dir -> OpState] /\ writeOp \in [Dir -> OpState]

DataTypeOK ==
  /\ buf \in [Dir -> 0..Capacity] /\ inflight \in [Dir -> 0..Capacity]
  /\ writeBusy \in [Dir -> BOOLEAN] /\ readPaused \in [Dir -> BOOLEAN]
  /\ delayed \in [Dir -> 0..DelayCap]

LifeTypeOK ==
  /\ connectTimer \in Timer /\ delayTimer \in Timer /\ idleTimer \in Timer
  /\ orphanIdle \in Nat /\ staleIdle \in Nat
  /\ pktSeq \in [Dir -> Nat] /\ connectFailures \in Nat
  /\ upstream \in {"Connecting", "Connected", "Failed"}
  /\ posted \in SUBSET Posts /\ crashed \in BOOLEAN

\* Types; the write buffers and delay queues stay within their limits.
TypeOK == ChanTypeOK /\ OpTypeOK /\ DataTypeOK /\ LifeTypeOK

\* createSession: the session is in the map and its start() is posted.
Init ==
  /\ readOpen = [d \in Dir |-> TRUE] /\ writeOpen = [d \in Dir |-> TRUE]
  /\ registered = TRUE /\ reset = FALSE
  /\ upstream = "Connecting" /\ posted = {"start"}
  /\ connectOp = "none"
  /\ readOp = [d \in Dir |-> "none"] /\ writeOp = [d \in Dir |-> "none"]
  /\ buf = [d \in Dir |-> 0] /\ inflight = [d \in Dir |-> 0]
  /\ writeBusy = [d \in Dir |-> FALSE] /\ readPaused = [d \in Dir |-> FALSE]
  /\ delayed = [d \in Dir |-> 0]
  /\ connectTimer = "off" /\ delayTimer = "off" /\ idleTimer = "off"
  /\ orphanIdle = 0 /\ staleIdle = 0
  /\ pktSeq = [d \in Dir |-> 0]
  /\ connectFailures = 0 /\ crashed = FALSE

-----------------------------------------------------------------------------
(* References and the kernel. *)

\* Someone holds a shared_ptr: the manager, a posted handler or an operation.
\* A timer holds a weak_ptr: its callback does nothing once this is false.
Alive ==
  \/ registered \/ posted # {} \/ connectOp # "none"
  \/ \E d \in Dir : readOp[d] # "none" \/ writeOp[d] # "none"

\* The kernel's answers: no data past the bound, no success for a write on a
\* socket whose write side was shut down.
ConnectDone(res) ==
  /\ connectOp = "pending" /\ connectOp' = res
  /\ UNCHANGED <<readOp, writeOp, chanVars, bufVars, flowVars, idleVars, lifeVars, posted>>

ReadDone(d, res) ==
  /\ readOp[d] = "pending" /\ (res = "ok" => pktSeq[d] < MaxPackets[d])
  /\ readOp' = [readOp EXCEPT ![d] = res]
  /\ UNCHANGED <<connectOp, writeOp, chanVars, bufVars, flowVars, idleVars, lifeVars, posted>>

WriteDone(d, res) ==
  /\ writeOp[d] = "pending" /\ (res = "ok" => writeOpen[d])
  /\ writeOp' = [writeOp EXCEPT ![d] = res]
  /\ UNCHANGED <<connectOp, readOp, chanVars, bufVars, flowVars, idleVars, lifeVars, posted>>

Aborted(op) == IF op = "pending" THEN "aborted" ELSE op

ResetClientOnly(c, r, w) ==   \* mutant: the server socket is not reset
  /\ connectOp' = c
  /\ readOp'    = [d \in Dir |-> IF d = "c2s" THEN Aborted(r[d]) ELSE r[d]]
  /\ writeOp'   = [d \in Dir |-> IF d = "s2c" THEN Aborted(w[d]) ELSE w[d]]
\* The operations of both sockets end with operation_aborted.  The arguments
\* are the operations still outstanding once the calling handler's own is over.
AbortAll(c, r, w) ==
  /\ connectOp' = Aborted(c)
  /\ readOp'    = [d \in Dir |-> Aborted(r[d])]
  /\ writeOp'   = [d \in Dir |-> Aborted(w[d])]

-----------------------------------------------------------------------------
(* Buffer sizes.  Buffer.tla has the positions, SendPathProofs the proof    *)
(* that these are what append() and consume() do to size_.                 *)

UnboundedAppend(size, n) == size + n   \* mutant
BufAppend(size, n)  == IF size + n > Capacity THEN Capacity ELSE size + n
BufConsume(size, n) == IF n > size THEN 0 ELSE size - n

ShouldPauseReading(size)  == size >= HighWater
ShouldResumeReading(size) == size <= LowWater

-----------------------------------------------------------------------------
(* Closing. *)

ReadsClosed(r, w) == registered' = (registered /\ \E d \in Dir : r[d])   \* mutant
CheckFullyClosed(r, w) ==
  registered' = (registered /\ \E d \in Dir : r[d] \/ w[d])

CloseRead(d) ==
  /\ readOpen' = [readOpen EXCEPT ![d] = FALSE]
  /\ IF readOpen[d] THEN CheckFullyClosed(readOpen', writeOpen)
                    ELSE UNCHANGED registered
  /\ UNCHANGED <<writeOpen, reset>>

CloseWrite(d) ==
  /\ writeOpen' = [writeOpen EXCEPT ![d] = FALSE]
  /\ IF writeOpen[d] THEN CheckFullyClosed(readOpen, writeOpen')
                     ELSE UNCHANGED registered
  /\ UNCHANGED <<readOpen, reset>>

ForceCloseReads(c, r, w) ==   \* mutant: leaves the write halves open
  /\ readOpen' = [d \in Dir |-> FALSE] /\ UNCHANGED writeOpen
  /\ reset' = TRUE /\ AbortAll(c, r, w) /\ registered' = FALSE
ForceClose(c, r, w) ==
  /\ readOpen'  = [d \in Dir |-> FALSE]
  /\ writeOpen' = [d \in Dir |-> FALSE]
  /\ reset' = TRUE
  /\ AbortAll(c, r, w)
  /\ registered' = FALSE

\* cancelPending() misses a write between two of its partial sends: it goes on.
CancelPending ==
  \E missed \in SUBSET {d \in Dir : writeOp[d] = "pending"} :
    /\ connectOp' = Aborted(connectOp)
    /\ readOp'    = [d \in Dir |-> Aborted(readOp[d])]
    /\ writeOp'   = [d \in Dir |-> IF d \in missed THEN "pending" ELSE Aborted(writeOp[d])]

InitiateShutdown ==
  /\ readOpen' = [d \in Dir |-> FALSE]
  /\ CancelPending
  /\ CheckFullyClosed(readOpen', writeOpen)
  /\ UNCHANGED <<writeOpen, reset>>

-----------------------------------------------------------------------------
(* Timers.  Cancelling a timer that has expired does not stop its callback. *)

ResetIdleTimer ==
  /\ idleTimer' = "waiting"
  /\ staleIdle' = IF idleTimer = "expired" THEN staleIdle + 1 ELSE staleIdle
  /\ UNCHANGED orphanIdle

Expires(timer) == timer = "waiting" /\ Alive

ConnectTimerExpires ==
  /\ Expires(connectTimer) /\ connectTimer' = "expired"
  /\ UNCHANGED <<chanVars, opVars, bufVars, flowVars, idleVars,
                 upstream, connectFailures, crashed, posted>>

DelayTimerExpires ==
  /\ Expires(delayTimer) /\ delayTimer' = "expired"
  /\ UNCHANGED <<chanVars, opVars, bufVars, readPaused, delayed, pktSeq,
                 idleVars, lifeVars, posted>>

IdleTimerExpires ==
  /\ \/ Expires(idleTimer) /\ idleTimer' = "expired" /\ UNCHANGED <<orphanIdle, staleIdle>>
     \/ /\ orphanIdle > 0 /\ Alive /\ UNCHANGED idleTimer
        /\ orphanIdle' = orphanIdle - 1 /\ staleIdle' = staleIdle + 1
  /\ UNCHANGED <<chanVars, opVars, bufVars, flowVars, lifeVars, posted>>

OnConnectTimeout ==
  /\ Alive /\ connectTimer = "expired"
  /\ connectTimer' = "off"
  /\ connectFailures' = connectFailures + 1
  /\ ForceClose(connectOp, readOp, writeOp)
  /\ UNCHANGED <<bufVars, flowVars, idleVars, upstream, crashed, posted>>

\* The callback of the timer idleTimerId_ names, or of one it was reset from;
\* both forget the timer that idleTimerId_ names.
OnIdleTimeout ==
  /\ Alive /\ idleTimer' = "off"
  /\ \/ /\ idleTimer = "expired"
        /\ UNCHANGED <<orphanIdle, staleIdle>>
     \/ /\ staleIdle > 0
        /\ staleIdle'  = IF idleTimer = "expired" THEN staleIdle ELSE staleIdle - 1
        /\ orphanIdle' = IF idleTimer = "waiting" THEN orphanIdle + 1 ELSE orphanIdle
  /\ InitiateShutdown
  /\ UNCHANGED <<bufVars, flowVars, lifeVars, posted>>

-----------------------------------------------------------------------------
(* Connecting. *)

StartUnguarded ==   \* mutant: no connect timeout
  /\ "start" \in posted /\ posted' = posted \ {"start"}
  /\ connectOp' = "pending"
  /\ UNCHANGED <<readOp, writeOp, chanVars, bufVars, flowVars, idleVars, lifeVars>>
\* (A connect on a socket that a reset closed opens it again.)
Start ==
  /\ "start" \in posted /\ posted' = posted \ {"start"}
  /\ connectTimer' = "waiting" /\ connectOp' = "pending"
  /\ UNCHANGED <<readOp, writeOp, chanVars, bufVars, flowVars, idleVars,
                 upstream, connectFailures, crashed>>

\* startClientRead, startServerRead for the directions in ds
StartOtherRead(ds, paused) ==   \* mutant: the twin function is called
  readOp' = [d \in Dir |-> IF d \notin ds /\ readOpen[d] /\ ~paused[d]
                             THEN "pending" ELSE readOp[d]]
StartRead(ds, paused) ==
  readOp' = [d \in Dir |-> IF d \in ds /\ readOpen[d] /\ ~paused[d]
                             THEN "pending" ELSE readOp[d]]

ConnectFails(res) ==
  /\ res # "ok"
  /\ connectFailures' = connectFailures + 1
  /\ upstream' = "Failed"
  /\ ForceClose("none", readOp, writeOp)
  /\ UNCHANGED <<idleVars, crashed>>

\* setNoDelay() throws on a socket forceReset() has closed.
ConnectSucceeds(res) ==
  /\ res = "ok"
  /\ upstream' = "Connected" /\ connectOp' = "none"
  /\ crashed' = reset
  /\ IF reset THEN UNCHANGED <<idleVars, readOp>>
              ELSE ResetIdleTimer /\ StartRead(Dir, readPaused)
  /\ UNCHANGED <<connectFailures, chanVars, writeOp>>

OnConnectComplete(res) ==
  /\ connectOp = res
  /\ connectTimer' = IF connectTimer = "waiting" THEN "off" ELSE connectTimer
  /\ ConnectFails(res) \/ ConnectSucceeds(res)
  /\ UNCHANGED <<bufVars, flowVars, posted>>

-----------------------------------------------------------------------------
(* Writing. *)

\* startClientWrite, startServerWrite for the directions in ds
StartWrite(ds) ==
  LET go == {d \in ds : writeOpen[d] /\ ~writeBusy[d] /\ buf'[d] > 0} IN
  /\ writeBusy' = [d \in Dir |-> writeBusy[d] \/ d \in go]
  /\ writeOp'   = [d \in Dir |-> IF d \in go THEN "pending" ELSE writeOp[d]]
  /\ inflight'  = [d \in Dir |-> IF d \in go THEN buf'[d] ELSE inflight[d]]

WriteFails(d, res) ==
  /\ res # "ok"
  /\ writeOp'   = [writeOp EXCEPT ![d] = "none"]
  /\ writeBusy' = [writeBusy EXCEPT ![d] = FALSE]
  /\ inflight'  = [inflight EXCEPT ![d] = 0]
  /\ CloseWrite(d)
  /\ UNCHANGED <<buf, readPaused, readOp, idleVars>>

ResumesLate(d) == readPaused[d] /\ ShouldResumeReading(buf[d])   \* mutant: before consume()
Resumes(d) == readPaused[d] /\ ShouldResumeReading(buf'[d])

MoreThanOne(d) == writeOpen[d] /\ buf'[d] > 1   \* mutant: off by one
More(d) == writeOpen[d] /\ buf'[d] > 0

BothFinished(d) == buf'[d] = 0 /\ \A e \in Dir : ~readOpen[e]   \* mutant
Finished(d) == buf'[d] = 0 /\ ~readOpen[d]

WriteSucceeds(d, res) ==
  /\ res = "ok"
  /\ ResetIdleTimer
  /\ buf' = [buf EXCEPT ![d] = BufConsume(@, inflight[d])]
  /\ readPaused' = [readPaused EXCEPT ![d] = @ /\ ~Resumes(d)]
  /\ StartRead(IF Resumes(d) THEN {d} ELSE {}, readPaused')
  /\ writeBusy' = [writeBusy EXCEPT ![d] = More(d)]
  /\ writeOp'   = [writeOp EXCEPT ![d] = IF More(d) THEN "pending" ELSE "none"]
  /\ inflight'  = [inflight EXCEPT ![d] = IF More(d) THEN buf'[d] ELSE 0]
  /\ IF Finished(d) THEN CloseWrite(d) ELSE UNCHANGED chanVars

OnWrite(d, res) ==
  /\ writeOp[d] = res
  /\ WriteFails(d, res) \/ WriteSucceeds(d, res)
  /\ UNCHANGED <<connectOp, delayed, delayTimer, pktSeq, lifeVars, posted>>

-----------------------------------------------------------------------------
(* Reading and the anomaly decision.  A corrupted or throttled packet goes  *)
(* the way of a forwarded or a delayed one.                                 *)

ReadEnds(d, res) ==
  /\ readOp' = [readOp EXCEPT ![d] = "none"]
  /\ res = "eof" /\ CloseRead(d) /\ UNCHANGED <<connectOp, writeOp>>

ReadFails(d, res) ==
  /\ res = "err"
  /\ ForceClose(connectOp, [readOp EXCEPT ![d] = "none"], writeOp)

ReadAborts(d, res) ==
  /\ res = "aborted"
  /\ readOp' = [readOp EXCEPT ![d] = "none"]
  /\ UNCHANGED <<chanVars, connectOp, writeOp>>

OnReadError(d, res) ==
  /\ readOp[d] = res
  /\ ReadEnds(d, res) \/ ReadFails(d, res) \/ ReadAborts(d, res)
  /\ UNCHANGED <<bufVars, flowVars, idleVars, lifeVars, posted>>

\* DelayQueue::push drops queued bytes only when the new packet does not fit.
PushDelayed(d, n) ==
  \E kept \in 0..delayed[d] :
    /\ kept + n <= DelayCap
    /\ delayed[d] + n <= DelayCap => kept = delayed[d]
    /\ delayed' = [delayed EXCEPT ![d] = kept + n]

Process(d, n, action) ==
  \/ /\ action \in {"Drop", "Stall"}
     /\ UNCHANGED <<chanVars, bufVars, writeOp, delayed, delayTimer>>
  \/ /\ action = "HalfClose" /\ CloseWrite(d)
     /\ UNCHANGED <<bufVars, writeOp, delayed, delayTimer>>
  \/ /\ action = "Delay" /\ PushDelayed(d, n)
     /\ delayTimer' = IF delayTimer = "off" THEN "waiting" ELSE delayTimer
     /\ UNCHANGED <<chanVars, bufVars, writeOp>>
  \/ /\ action = "Forward"
     /\ buf' = [buf EXCEPT ![d] = BufAppend(@, n)]
     /\ StartWrite({d})
     /\ UNCHANGED <<chanVars, delayed, delayTimer>>

OnRead(d, n, action) ==
  /\ readOp[d] = "ok"
  /\ ResetIdleTimer
  /\ pktSeq' = [pktSeq EXCEPT ![d] = @ + 1]
  /\ Process(d, n, action)
  /\ readPaused' = [readPaused EXCEPT ![d] = @ \/ action = "Stall" \/ ShouldPauseReading(buf'[d])]
  /\ readOp' = [readOp EXCEPT ![d] = IF readOpen[d] /\ ~readPaused'[d]
                                       THEN "pending" ELSE "none"]
  /\ UNCHANGED <<connectOp, lifeVars, posted>>

-----------------------------------------------------------------------------
(* The delay queues. *)

\* flushDelayQueues: k[d] bytes of direction d have reached their release time.
FlushDelayQueues(k) ==
  /\ delayed' = [d \in Dir |-> delayed[d] - k[d]]
  /\ buf' = [d \in Dir |-> BufAppend(buf[d], k[d])]
  /\ StartWrite(Dir)

ScheduleServerFlush ==   \* mutant: looks at one queue only
  delayTimer' = IF delayed'["s2c"] > 0 THEN "waiting" ELSE "off"
ScheduleDelayFlush ==
  delayTimer' = IF \E d \in Dir : delayed'[d] > 0 THEN "waiting" ELSE "off"

OnDelayExpired ==
  /\ Alive /\ delayTimer = "expired"
  /\ \E c \in 0..delayed["c2s"], s \in 0..delayed["s2c"] :
       FlushDelayQueues([d \in Dir |-> IF d = "c2s" THEN c ELSE s])
  /\ ScheduleDelayFlush
  /\ UNCHANGED <<chanVars, connectOp, readOp, readPaused, pktSeq, idleVars, lifeVars, posted>>

-----------------------------------------------------------------------------
(* The manager: shutdownAll, forceCloseAll and shedOldestIdle post to the   *)
(* strand of a session they find in sessions_.                              *)

Post(h) ==
  /\ registered /\ h \in {"shutdown", "forceClose"} /\ h \notin posted
  /\ posted' = posted \cup {h}
  /\ UNCHANGED <<chanVars, opVars, bufVars, flowVars, idleVars, lifeVars>>

RunShutdown ==
  /\ "shutdown" \in posted /\ posted' = posted \ {"shutdown"}
  /\ InitiateShutdown
  /\ UNCHANGED <<bufVars, flowVars, idleVars, lifeVars>>

\* forceCloseAll and shutdownAll, on the main thread, can post between createSession's
\* insertion into sessions_ and its post of start(), which then runs after them.
RunForceClose ==
  /\ "forceClose" \in posted
  /\ posted' = posted \ {"forceClose"}
  /\ ForceClose(connectOp, readOp, writeOp)
  /\ UNCHANGED <<bufVars, flowVars, idleVars, lifeVars>>

-----------------------------------------------------------------------------

ConnectHandler  == \E res \in {"ok", "err", "aborted"} : OnConnectComplete(res)
ReadHandler(d)  == \/ \E res \in {"eof", "err", "aborted"} : OnReadError(d, res)
                   \/ \E n \in ReadSizes, action \in Decisions : OnRead(d, n, action)
WriteHandler(d) == \E res \in {"ok", "err", "aborted"} : OnWrite(d, res)
TimerHandler    == OnConnectTimeout \/ OnIdleTimeout \/ OnDelayExpired
PostedHandler   == Start \/ RunShutdown \/ RunForceClose

WriteEnds(d) == \E res \in {"ok", "err"} : WriteDone(d, res)
KernelDone ==
  \/ \E res \in {"ok", "err"} : ConnectDone(res)
  \/ \E d \in Dir : WriteEnds(d) \/ \E res \in Done : ReadDone(d, res)

Next ==
  /\ ~crashed
  /\ \/ ConnectHandler
     \/ \E d \in Dir : ReadHandler(d) \/ WriteHandler(d)
     \/ TimerHandler \/ PostedHandler \/ KernelDone
     \/ ConnectTimerExpires \/ DelayTimerExpires \/ IdleTimerExpires
     \/ \E h \in Posts : Post(h)

Spec == Init /\ [][Next]_vars

\* The event loop runs every queued handler, and every timer expires, as long
\* as no exception has left its thread.
EventLoopFairness ==
  /\ WF_vars(~crashed /\ Start)
  /\ WF_vars(~crashed /\ RunShutdown)
  /\ WF_vars(~crashed /\ RunForceClose)
  /\ WF_vars(~crashed /\ ConnectHandler)
  /\ \A d \in Dir : WF_vars(~crashed /\ ReadHandler(d)) /\ WF_vars(~crashed /\ WriteHandler(d))
  /\ WF_vars(~crashed /\ (OnConnectTimeout \/ ConnectTimerExpires))
  /\ WF_vars(~crashed /\ (OnDelayExpired \/ DelayTimerExpires))
  /\ WF_vars(~crashed /\ (OnIdleTimeout \/ IdleTimerExpires))

\* The kernel fails a write whose side of the socket was shut down.
ShutDownWriteFails ==
  \A d \in Dir : WF_vars(~crashed /\ ~writeOpen[d] /\ WriteDone(d, "err"))

\* Peers keep reading: every write ends.
PeersRead == \A d \in Dir : WF_vars(~crashed /\ WriteEnds(d))

FairSpec     == Spec /\ EventLoopFairness /\ ShutDownWriteFails
PeerFairSpec == Spec /\ EventLoopFairness /\ PeersRead

==============================================================================
