----------------------------- MODULE SessionProofs -----------------------------
(***************************************************************************)
(* Proofs about Session for every buffer size, watermark, delay limit, set  *)
(* of decisions and number of packets: type correctness, the safety         *)
(* invariants of SessionProperties, and the refinements of FourWayClose and *)
(* of TimerSlots and RelaySizes.                                           *)
(*                                                                          *)
(* The invariants are proved in five groups, by the state they speak of.    *)
(* NoLostWrite, NoStrandedDelay and RegisteredIffOpen are inductive as they *)
(* stand; ReaderArmed needs to know that nothing is read or paused before   *)
(* the connection is up and that a cancelled read is a closed one; a reset   *)
(* is final because nothing opens a half, and the one operation that may   *)
(* still begin, the connect of a late start(), comes with its timer.        *)
(***************************************************************************)
EXTENDS SessionProperties, TLAPS

\* The phases of a connection: start() runs once, before the connect and its timer; a
\* connect is outstanding only while connecting; and nothing is read or paused before
\* the upstream connection is up.
Phases ==
  /\ "start" \in posted => /\ connectOp = "none" /\ connectTimer = "off"
                           /\ upstream = "Connecting"
  /\ connectOp # "none" => upstream = "Connecting"
  /\ upstream # "Connected" => \A d \in Dir : readOp[d] = "none" /\ ~readPaused[d]

\* Only closing cancels a read.
AbortedReads == \A d \in Dir : readOp[d] = "aborted" => ~readOpen[d]

RegisteredIffOpen == registered <=> \E d \in Dir : readOpen[d] \/ writeOpen[d]

WakerUnlessStall == "Stall" \in Decisions \/ PausedReadHasWaker

IInv ==
  /\ TypeOK
  /\ Phases /\ AbortedReads /\ ReaderArmed
  /\ NoLostWrite /\ WakerUnlessStall
  /\ NoStrandedDelay
  /\ RegisteredIffOpen
  /\ ResetIsFinal

USE BufferAssumption, InputAssumption

-----------------------------------------------------------------------------
(* Initially. *)

LEMMA InitTypeOK == Init => TypeOK
<1> SUFFICES ASSUME Init PROVE TypeOK
  OBVIOUS
<1> USE DEF Init, OpState, Done
<1>1. ChanTypeOK  BY DEF ChanTypeOK
<1>2. OpTypeOK    BY DEF OpTypeOK
<1>3. DataTypeOK  BY DEF DataTypeOK
<1>4. LifeTypeOK  BY DEF LifeTypeOK, Timer, Posts
<1>. QED BY <1>1, <1>2, <1>3, <1>4 DEF TypeOK

LEMMA InitIInv == Init => IInv
<1> SUFFICES ASSUME Init PROVE IInv
  OBVIOUS
<1>1. TypeOK
  BY InitTypeOK
<1>2. Phases /\ AbortedReads /\ ReaderArmed
  BY DEF Init, Phases, AbortedReads, ReaderArmed
<1>3. NoLostWrite /\ WakerUnlessStall /\ NoStrandedDelay
  BY DEF Init, NoLostWrite, WakerUnlessStall, PausedReadHasWaker, NoStrandedDelay
<1>4. RegisteredIffOpen /\ ResetIsFinal
  BY DEF Init, RegisteredIffOpen, ResetIsFinal, Dir
<1>. QED BY <1>1, <1>2, <1>3, <1>4 DEF IInv

-----------------------------------------------------------------------------
(* Two pieces of the handlers. *)

\* closeClientWrite and its twin close one write half and touch nothing else.
LEMMA CloseWriteEffect ==
  ASSUME ChanTypeOK, NEW d \in Dir, CloseWrite(d)
  PROVE  /\ ChanTypeOK' /\ readOpen' = readOpen /\ reset' = reset
         /\ registered' => registered
         /\ \A e \in Dir : writeOpen'[e] => writeOpen[e]
  BY DEF ChanTypeOK, CloseWrite, CheckFullyClosed

\* startServerWrite and its twin begin writes of buffered bytes on open halves.
LEMMA StartWriteEffect ==
  ASSUME DataTypeOK, OpTypeOK, NEW ds \in SUBSET Dir, buf' \in [Dir -> 0..Capacity],
         StartWrite(ds)
  PROVE  /\ writeBusy' \in [Dir -> BOOLEAN] /\ inflight' \in [Dir -> 0..Capacity]
         /\ writeOp' \in [Dir -> OpState]
         /\ \A e \in Dir : writeOp'[e] = writeOp[e] \/ writeOpen[e]
  BY DEF DataTypeOK, OpTypeOK, OpState, Done, StartWrite

-----------------------------------------------------------------------------
(* Every step preserves the invariants. *)

LEMMA TypeStep ==
  TypeOK /\ [Next]_vars => TypeOK'
<1> SUFFICES ASSUME TypeOK, [Next]_vars
             PROVE  TypeOK'
  OBVIOUS
<1> USE DEF TypeOK, OpState, Done, Timer, chanVars, opVars, bufVars, flowVars, idleVars, lifeVars
<1>1. CASE ConnectHandler
  <2>1. PICK res \in {"ok", "err", "aborted"} : OnConnectComplete(res)
    BY <1>1 DEF ConnectHandler
  <2>2. CASE ConnectFails(res)
    <3> USE <2>1, <2>2 DEF OnConnectComplete, ConnectFails, ForceClose, AbortAll, Aborted
    <3>1. ChanTypeOK' /\ OpTypeOK'
      BY DEF ChanTypeOK, OpTypeOK
    <3>2. DataTypeOK' /\ LifeTypeOK'
      BY DEF DataTypeOK, LifeTypeOK
    <3>. QED BY <3>1, <3>2
  <2>3. CASE ConnectSucceeds(res)
    BY <2>1, <2>3 DEF OnConnectComplete, ConnectSucceeds, ResetIdleTimer, StartRead,
                      ChanTypeOK, OpTypeOK, DataTypeOK, LifeTypeOK
  <2>. QED BY <2>1, <2>2, <2>3 DEF OnConnectComplete
<1>2. CASE \E d \in Dir, res \in {"eof", "err", "aborted"} : OnReadError(d, res)
  <2> USE <1>2 DEF OnReadError, ReadEnds, ReadFails, ReadAborts, CloseRead, CheckFullyClosed, ForceClose,
          AbortAll, Aborted
  <2>1. ChanTypeOK'
    BY DEF ChanTypeOK
  <2>2. OpTypeOK'
    BY DEF OpTypeOK
  <2>3. DataTypeOK'
    BY DEF DataTypeOK
  <2>4. LifeTypeOK'
    BY DEF LifeTypeOK
  <2>. QED BY <2>1, <2>2, <2>3, <2>4
<1>3. ASSUME NEW d \in Dir, NEW n \in ReadSizes, NEW action \in Decisions, OnRead(d, n, action)
      PROVE  TypeOK'
  <2> USE <1>3 DEF OnRead
  <2>1. ChanTypeOK'
    BY CloseWriteEffect DEF Process, ChanTypeOK
  <2>2. buf' \in [Dir -> 0..Capacity]
    BY DEF Process, BufAppend, DataTypeOK
  <2>3. writeBusy' \in [Dir -> BOOLEAN] /\ inflight' \in [Dir -> 0..Capacity]
        /\ writeOp' \in [Dir -> OpState]
    BY <2>2, StartWriteEffect DEF Process, DataTypeOK, OpTypeOK
  <2>4. delayed' \in [Dir -> 0..DelayCap]
    <3>1. CASE action = "Delay"
      <4>1. PICK kept \in 0..delayed[d] : kept + n <= DelayCap
                                         /\ delayed' = [delayed EXCEPT ![d] = kept + n]
        BY <3>1 DEF Process, PushDelayed
      <4>. QED BY <4>1 DEF DataTypeOK
    <3>2. CASE action # "Delay"
      BY <3>2 DEF Process, DataTypeOK
    <3>. QED BY <3>1, <3>2
  <2>5. DataTypeOK'
    BY <2>2, <2>3, <2>4 DEF DataTypeOK
  <2>6. OpTypeOK'
    BY <2>3 DEF OpTypeOK
  <2>7. LifeTypeOK'
    BY DEF LifeTypeOK, Process, ResetIdleTimer
  <2>. QED BY <2>1, <2>5, <2>6, <2>7
<1>4. ASSUME NEW d \in Dir, WriteHandler(d)
      PROVE  TypeOK'
  <2> USE <1>4 DEF WriteHandler, OnWrite, WriteFails, WriteSucceeds
  <2>1. ChanTypeOK'
    BY CloseWriteEffect DEF ChanTypeOK
  <2>2. OpTypeOK'
    BY DEF OpTypeOK, StartRead
  <2>3. buf' \in [Dir -> 0..Capacity]
    BY DEF DataTypeOK, BufConsume
  <2>4. (writeBusy \in [Dir -> BOOLEAN] /\ readPaused \in [Dir -> BOOLEAN])'
    BY DEF DataTypeOK, More, Resumes
  <2>5. inflight' \in [Dir -> 0..Capacity]
    BY <2>3 DEF DataTypeOK
  <2>6. DataTypeOK'
    BY <2>3, <2>4, <2>5 DEF DataTypeOK
  <2>7. LifeTypeOK'
    BY DEF LifeTypeOK, ResetIdleTimer
  <2>. QED BY <2>1, <2>2, <2>6, <2>7
<1>5. CASE OnConnectTimeout
  <2> USE <1>5 DEF OnConnectTimeout, ForceClose, AbortAll, Aborted
  <2>1. ChanTypeOK'
    BY DEF ChanTypeOK
  <2>2. OpTypeOK'
    BY DEF OpTypeOK
  <2>3. DataTypeOK'
    BY DEF DataTypeOK
  <2>4. LifeTypeOK'
    BY DEF LifeTypeOK
  <2>. QED BY <2>1, <2>2, <2>3, <2>4
<1>6. CASE OnIdleTimeout
  <2> USE <1>6 DEF OnIdleTimeout, InitiateShutdown, CancelPending, Aborted, CheckFullyClosed
  <2>1. ChanTypeOK'
    BY DEF ChanTypeOK
  <2>2. OpTypeOK'
    BY DEF OpTypeOK
  <2>3. DataTypeOK'
    BY DEF DataTypeOK
  <2>4. LifeTypeOK'
    BY DEF LifeTypeOK
  <2>. QED BY <2>1, <2>2, <2>3, <2>4
<1>7. CASE OnDelayExpired
  <2> USE <1>7 DEF OnDelayExpired, FlushDelayQueues, ScheduleDelayFlush, StartWrite, BufAppend, Dir
  <2>1. ChanTypeOK'
    BY DEF ChanTypeOK
  <2>2. OpTypeOK'
    BY DEF OpTypeOK
  <2>3. DataTypeOK'
    BY DEF DataTypeOK
  <2>4. LifeTypeOK'
    BY DEF LifeTypeOK
  <2>. QED BY <2>1, <2>2, <2>3, <2>4
<1>8. CASE Start
  <2> USE <1>8 DEF Start
  <2>1. ChanTypeOK'
    BY DEF ChanTypeOK
  <2>2. OpTypeOK'
    BY DEF OpTypeOK
  <2>3. DataTypeOK'
    BY DEF DataTypeOK
  <2>4. LifeTypeOK'
    BY DEF LifeTypeOK
  <2>. QED BY <2>1, <2>2, <2>3, <2>4
<1>9. CASE RunShutdown
  <2> USE <1>9 DEF RunShutdown, InitiateShutdown, CancelPending, Aborted, CheckFullyClosed
  <2>1. ChanTypeOK'
    BY DEF ChanTypeOK
  <2>2. OpTypeOK'
    BY DEF OpTypeOK
  <2>3. DataTypeOK'
    BY DEF DataTypeOK
  <2>4. LifeTypeOK'
    BY DEF LifeTypeOK
  <2>. QED BY <2>1, <2>2, <2>3, <2>4
<1>10. CASE RunForceClose
  <2> USE <1>10 DEF RunForceClose, ForceClose, AbortAll, Aborted
  <2>1. ChanTypeOK'
    BY DEF ChanTypeOK
  <2>2. OpTypeOK'
    BY DEF OpTypeOK
  <2>3. DataTypeOK'
    BY DEF DataTypeOK
  <2>4. LifeTypeOK'
    BY DEF LifeTypeOK
  <2>. QED BY <2>1, <2>2, <2>3, <2>4
<1>11. CASE KernelDone
  <2> USE <1>11 DEF KernelDone, WriteEnds, ConnectDone, ReadDone, WriteDone
  <2>1. ChanTypeOK'
    BY DEF ChanTypeOK
  <2>2. OpTypeOK'
    BY DEF OpTypeOK
  <2>3. DataTypeOK'
    BY DEF DataTypeOK
  <2>4. LifeTypeOK'
    BY DEF LifeTypeOK
  <2>. QED BY <2>1, <2>2, <2>3, <2>4
<1>12. CASE ConnectTimerExpires \/ DelayTimerExpires \/ IdleTimerExpires
  <2> USE <1>12 DEF ConnectTimerExpires, DelayTimerExpires, IdleTimerExpires, Expires
  <2>1. ChanTypeOK'
    BY DEF ChanTypeOK
  <2>2. OpTypeOK'
    BY DEF OpTypeOK
  <2>3. DataTypeOK'
    BY DEF DataTypeOK
  <2>4. LifeTypeOK'
    BY DEF LifeTypeOK
  <2>. QED BY <2>1, <2>2, <2>3, <2>4
<1>13. CASE \E h \in Posts : Post(h)
  <2> USE <1>13 DEF Post, Posts
  <2>1. ChanTypeOK'
    BY DEF ChanTypeOK
  <2>2. OpTypeOK'
    BY DEF OpTypeOK
  <2>3. DataTypeOK'
    BY DEF DataTypeOK
  <2>4. LifeTypeOK'
    BY DEF LifeTypeOK
  <2>. QED BY <2>1, <2>2, <2>3, <2>4
<1>14. CASE UNCHANGED vars
  <2> USE <1>14 DEF vars
  <2>1. ChanTypeOK'
    BY DEF ChanTypeOK
  <2>2. OpTypeOK'
    BY DEF OpTypeOK
  <2>3. DataTypeOK'
    BY DEF DataTypeOK
  <2>4. LifeTypeOK'
    BY DEF LifeTypeOK
  <2>. QED BY <2>1, <2>2, <2>3, <2>4
<1>. QED
  BY <1>1, <1>2, <1>3, <1>4, <1>5, <1>6, <1>7, <1>8, <1>9, <1>10, <1>11, <1>12, <1>13, <1>14
     DEF Next, ReadHandler, TimerHandler, PostedHandler

\* Reading: the reader of a direction is armed unless it is paused.
LEMMA ReadingStep ==
  TypeOK /\ TypeOK' /\ ResetIsFinal /\ Phases /\ AbortedReads /\ ReaderArmed /\ [Next]_vars => (Phases /\ AbortedReads /\ ReaderArmed)'
<1> SUFFICES ASSUME TypeOK, TypeOK', ResetIsFinal, Phases, AbortedReads, ReaderArmed, [Next]_vars
             PROVE  (Phases /\ AbortedReads /\ ReaderArmed)'
  OBVIOUS
<1> USE DEF TypeOK, ChanTypeOK, OpTypeOK, DataTypeOK, LifeTypeOK, OpState, Done, Timer, Phases,
        AbortedReads, ReaderArmed, chanVars, opVars, bufVars, flowVars, idleVars, lifeVars
<1>1. CASE ConnectHandler
  <2>1. PICK res \in {"ok", "err", "aborted"} : OnConnectComplete(res)
    BY <1>1 DEF ConnectHandler
  <2>2. CASE ConnectFails(res)
    BY <2>1, <2>2 DEF OnConnectComplete, ConnectFails, ForceClose, AbortAll, Aborted
  <2>3. CASE ConnectSucceeds(res)
    <3> USE <2>1, <2>3 DEF OnConnectComplete, ConnectSucceeds, ResetIdleTimer, StartRead
    <3>1. Phases' /\ AbortedReads'
      OBVIOUS
    <3>2. \A d \in Dir : ~readPaused'[d] /\ readOp[d] = "none"
      OBVIOUS
    <3>3. CASE reset
      BY <3>3 DEF ResetIsFinal
    <3>4. CASE ~reset
      <4>1. \A d \in Dir : readOp'[d] = IF readOpen[d] THEN "pending" ELSE "none"
        BY <3>2, <3>4
      <4>. QED BY <3>1, <3>2, <4>1
    <3>. QED BY <3>1, <3>3, <3>4
  <2>. QED BY <2>1, <2>2, <2>3 DEF OnConnectComplete
<1>2. CASE \E d \in Dir, res \in {"eof", "err", "aborted"} : OnReadError(d, res)
  <2> USE <1>2 DEF OnReadError, ReadEnds, ReadFails, ReadAborts, CloseRead, CheckFullyClosed, ForceClose,
          AbortAll, Aborted
  <2>1. Phases'  OBVIOUS
  <2>2. AbortedReads'  OBVIOUS
  <2>3. ReaderArmed'  OBVIOUS
  <2>. QED BY <2>1, <2>2, <2>3
<1>3. CASE \E d \in Dir, n \in ReadSizes, action \in Decisions : OnRead(d, n, action)
  <2> USE <1>3 DEF OnRead, Process, PushDelayed, StartWrite, CloseWrite, CheckFullyClosed,
          ResetIdleTimer, BufAppend, ShouldPauseReading
  <2>1. Phases'  OBVIOUS
  <2>2. AbortedReads'  OBVIOUS
  <2>3. ReaderArmed'  OBVIOUS
  <2>. QED BY <2>1, <2>2, <2>3
<1>4. CASE \E d \in Dir : WriteHandler(d)
  <2> USE <1>4 DEF WriteHandler, OnWrite, WriteFails, WriteSucceeds, CloseWrite, CheckFullyClosed,
          ResetIdleTimer, BufConsume, StartRead, Resumes, More, Finished, ShouldResumeReading
  <2>1. Phases'  OBVIOUS
  <2>2. AbortedReads'  OBVIOUS
  <2>3. ReaderArmed'  OBVIOUS
  <2>. QED BY <2>1, <2>2, <2>3
<1>5. CASE OnConnectTimeout
  <2> USE <1>5 DEF OnConnectTimeout, ForceClose, AbortAll, Aborted
  <2>1. Phases'  OBVIOUS
  <2>2. AbortedReads'  OBVIOUS
  <2>3. ReaderArmed'  OBVIOUS
  <2>. QED BY <2>1, <2>2, <2>3
<1>6. CASE OnIdleTimeout
  <2> USE <1>6 DEF OnIdleTimeout, InitiateShutdown, CancelPending, Aborted, CheckFullyClosed
  <2>1. Phases'  OBVIOUS
  <2>2. AbortedReads'  OBVIOUS
  <2>3. ReaderArmed'  OBVIOUS
  <2>. QED BY <2>1, <2>2, <2>3
<1>7. CASE OnDelayExpired
  <2> USE <1>7 DEF OnDelayExpired, FlushDelayQueues, ScheduleDelayFlush, StartWrite, BufAppend, Dir
  <2>1. Phases'  OBVIOUS
  <2>2. AbortedReads'  OBVIOUS
  <2>3. ReaderArmed'  OBVIOUS
  <2>. QED BY <2>1, <2>2, <2>3
<1>8. CASE Start
  <2> USE <1>8 DEF Start
  <2>1. Phases'  OBVIOUS
  <2>2. AbortedReads'  OBVIOUS
  <2>3. ReaderArmed'  OBVIOUS
  <2>. QED BY <2>1, <2>2, <2>3
<1>9. CASE RunShutdown
  <2> USE <1>9 DEF RunShutdown, InitiateShutdown, CancelPending, Aborted, CheckFullyClosed
  <2>1. Phases'  OBVIOUS
  <2>2. AbortedReads'  OBVIOUS
  <2>3. ReaderArmed'  OBVIOUS
  <2>. QED BY <2>1, <2>2, <2>3
<1>10. CASE RunForceClose
  <2> USE <1>10 DEF RunForceClose, ForceClose, AbortAll, Aborted
  <2>1. Phases'  OBVIOUS
  <2>2. AbortedReads'  OBVIOUS
  <2>3. ReaderArmed'  OBVIOUS
  <2>. QED BY <2>1, <2>2, <2>3
<1>11. CASE KernelDone
  <2> USE <1>11 DEF KernelDone, WriteEnds, ConnectDone, ReadDone, WriteDone
  <2>1. Phases'  OBVIOUS
  <2>2. AbortedReads'  OBVIOUS
  <2>3. ReaderArmed'  OBVIOUS
  <2>. QED BY <2>1, <2>2, <2>3
<1>12. CASE ConnectTimerExpires \/ DelayTimerExpires \/ IdleTimerExpires
  <2> USE <1>12 DEF ConnectTimerExpires, DelayTimerExpires, IdleTimerExpires, Expires
  <2>1. Phases'  OBVIOUS
  <2>2. AbortedReads'  OBVIOUS
  <2>3. ReaderArmed'  OBVIOUS
  <2>. QED BY <2>1, <2>2, <2>3
<1>13. CASE \E h \in Posts : Post(h)
  <2> USE <1>13 DEF Post, Posts
  <2>1. Phases'  OBVIOUS
  <2>2. AbortedReads'  OBVIOUS
  <2>3. ReaderArmed'  OBVIOUS
  <2>. QED BY <2>1, <2>2, <2>3
<1>14. CASE UNCHANGED vars
  <2> USE <1>14 DEF vars
  <2>1. Phases'  OBVIOUS
  <2>2. AbortedReads'  OBVIOUS
  <2>3. ReaderArmed'  OBVIOUS
  <2>. QED BY <2>1, <2>2, <2>3
<1>. QED
  BY <1>1, <1>2, <1>3, <1>4, <1>5, <1>6, <1>7, <1>8, <1>9, <1>10, <1>11, <1>12, <1>13, <1>14
     DEF Next, ReadHandler, TimerHandler, PostedHandler

\* Writing: buffered bytes have a write in progress, and so has a paused reader.
LEMMA WritingStep ==
  TypeOK /\ TypeOK' /\ NoLostWrite /\ WakerUnlessStall /\ [Next]_vars => (NoLostWrite /\ WakerUnlessStall)'
<1> SUFFICES ASSUME TypeOK, TypeOK', NoLostWrite, WakerUnlessStall, [Next]_vars
             PROVE  (NoLostWrite /\ WakerUnlessStall)'
  OBVIOUS
<1> USE DEF TypeOK, ChanTypeOK, OpTypeOK, DataTypeOK, NoLostWrite, WakerUnlessStall,
        PausedReadHasWaker, chanVars, opVars, bufVars, flowVars, idleVars, lifeVars
<1>1. CASE ConnectHandler
  <2> USE <1>1 DEF ConnectHandler, OnConnectComplete, ConnectFails, ConnectSucceeds, ForceClose,
          AbortAll, Aborted, ResetIdleTimer, StartRead
  <2>1. NoLostWrite'  OBVIOUS
  <2>2. WakerUnlessStall'  OBVIOUS
  <2>. QED BY <2>1, <2>2
<1>2. CASE \E d \in Dir, res \in {"eof", "err", "aborted"} : OnReadError(d, res)
  <2> USE <1>2 DEF OnReadError, ReadEnds, ReadFails, ReadAborts, CloseRead, CheckFullyClosed, ForceClose,
          AbortAll, Aborted
  <2>1. NoLostWrite'  OBVIOUS
  <2>2. WakerUnlessStall'  OBVIOUS
  <2>. QED BY <2>1, <2>2
<1>3. CASE \E d \in Dir, n \in ReadSizes, action \in Decisions : OnRead(d, n, action)
  <2> USE <1>3 DEF OnRead, Process, PushDelayed, StartWrite, CloseWrite, CheckFullyClosed,
          ResetIdleTimer, BufAppend, ShouldPauseReading
  <2>1. NoLostWrite'  OBVIOUS
  <2>2. WakerUnlessStall'  OBVIOUS
  <2>. QED BY <2>1, <2>2
<1>4. CASE \E d \in Dir : WriteHandler(d)
  <2> USE <1>4 DEF WriteHandler, OnWrite, WriteFails, WriteSucceeds, CloseWrite, CheckFullyClosed,
          ResetIdleTimer, BufConsume, StartRead, Resumes, More, Finished, ShouldResumeReading
  <2>1. NoLostWrite'  OBVIOUS
  <2>2. WakerUnlessStall'  OBVIOUS
  <2>. QED BY <2>1, <2>2
<1>5. CASE OnConnectTimeout
  <2> USE <1>5 DEF OnConnectTimeout, ForceClose, AbortAll, Aborted
  <2>1. NoLostWrite'  OBVIOUS
  <2>2. WakerUnlessStall'  OBVIOUS
  <2>. QED BY <2>1, <2>2
<1>6. CASE OnIdleTimeout
  <2> USE <1>6 DEF OnIdleTimeout, InitiateShutdown, CancelPending, Aborted, CheckFullyClosed
  <2>1. NoLostWrite'  OBVIOUS
  <2>2. WakerUnlessStall'  OBVIOUS
  <2>. QED BY <2>1, <2>2
<1>7. CASE OnDelayExpired
  <2> USE <1>7 DEF OnDelayExpired, FlushDelayQueues, ScheduleDelayFlush, StartWrite, BufAppend, Dir
  <2>1. NoLostWrite'  OBVIOUS
  <2>2. WakerUnlessStall'  OBVIOUS
  <2>. QED BY <2>1, <2>2
<1>8. CASE Start
  <2> USE <1>8 DEF Start
  <2>1. NoLostWrite'  OBVIOUS
  <2>2. WakerUnlessStall'  OBVIOUS
  <2>. QED BY <2>1, <2>2
<1>9. CASE RunShutdown
  <2> USE <1>9 DEF RunShutdown, InitiateShutdown, CancelPending, Aborted, CheckFullyClosed
  <2>1. NoLostWrite'  OBVIOUS
  <2>2. WakerUnlessStall'  OBVIOUS
  <2>. QED BY <2>1, <2>2
<1>10. CASE RunForceClose
  <2> USE <1>10 DEF RunForceClose, ForceClose, AbortAll, Aborted
  <2>1. NoLostWrite'  OBVIOUS
  <2>2. WakerUnlessStall'  OBVIOUS
  <2>. QED BY <2>1, <2>2
<1>11. CASE KernelDone
  <2> USE <1>11 DEF KernelDone, WriteEnds, ConnectDone, ReadDone, WriteDone
  <2>1. NoLostWrite'  OBVIOUS
  <2>2. WakerUnlessStall'  OBVIOUS
  <2>. QED BY <2>1, <2>2
<1>12. CASE ConnectTimerExpires \/ DelayTimerExpires \/ IdleTimerExpires
  <2> USE <1>12 DEF ConnectTimerExpires, DelayTimerExpires, IdleTimerExpires, Expires
  <2>1. NoLostWrite'  OBVIOUS
  <2>2. WakerUnlessStall'  OBVIOUS
  <2>. QED BY <2>1, <2>2
<1>13. CASE \E h \in Posts : Post(h)
  <2> USE <1>13 DEF Post, Posts
  <2>1. NoLostWrite'  OBVIOUS
  <2>2. WakerUnlessStall'  OBVIOUS
  <2>. QED BY <2>1, <2>2
<1>14. CASE UNCHANGED vars
  <2> USE <1>14 DEF vars
  <2>1. NoLostWrite'  OBVIOUS
  <2>2. WakerUnlessStall'  OBVIOUS
  <2>. QED BY <2>1, <2>2
<1>. QED
  BY <1>1, <1>2, <1>3, <1>4, <1>5, <1>6, <1>7, <1>8, <1>9, <1>10, <1>11, <1>12, <1>13, <1>14
     DEF Next, ReadHandler, TimerHandler, PostedHandler

\* Delaying: queued packets have a timer.
LEMMA DelayingStep ==
  TypeOK /\ NoStrandedDelay /\ [Next]_vars => NoStrandedDelay'
<1> SUFFICES ASSUME TypeOK, NoStrandedDelay, [Next]_vars
             PROVE  NoStrandedDelay'
  OBVIOUS
<1> USE DEF TypeOK, DataTypeOK, NoStrandedDelay, chanVars, opVars, bufVars, flowVars, idleVars,
        lifeVars
<1>1. CASE ConnectHandler
  BY <1>1 DEF ConnectHandler, OnConnectComplete, ConnectFails, ConnectSucceeds, ForceClose,
      AbortAll, Aborted, ResetIdleTimer, StartRead
<1>2. CASE \E d \in Dir, res \in {"eof", "err", "aborted"} : OnReadError(d, res)
  BY <1>2 DEF OnReadError, ReadEnds, ReadFails, ReadAborts, CloseRead, CheckFullyClosed,
      ForceClose, AbortAll, Aborted
<1>3. CASE \E d \in Dir, n \in ReadSizes, action \in Decisions : OnRead(d, n, action)
  BY <1>3 DEF OnRead, Process, PushDelayed, StartWrite, CloseWrite, CheckFullyClosed,
      ResetIdleTimer, BufAppend, ShouldPauseReading
<1>4. CASE \E d \in Dir : WriteHandler(d)
  BY <1>4 DEF WriteHandler, OnWrite, WriteFails, WriteSucceeds, CloseWrite,
      CheckFullyClosed, ResetIdleTimer, BufConsume, StartRead, Resumes, More, Finished,
      ShouldResumeReading
<1>5. CASE OnConnectTimeout
  BY <1>5 DEF OnConnectTimeout, ForceClose, AbortAll, Aborted
<1>6. CASE OnIdleTimeout
  BY <1>6 DEF OnIdleTimeout, InitiateShutdown, CancelPending, Aborted, CheckFullyClosed
<1>7. CASE OnDelayExpired
  BY <1>7 DEF OnDelayExpired, FlushDelayQueues, ScheduleDelayFlush, StartWrite, BufAppend,
      Dir
<1>8. CASE Start
  BY <1>8 DEF Start
<1>9. CASE RunShutdown
  BY <1>9 DEF RunShutdown, InitiateShutdown, CancelPending, Aborted, CheckFullyClosed
<1>10. CASE RunForceClose
  BY <1>10 DEF RunForceClose, ForceClose, AbortAll, Aborted
<1>11. CASE KernelDone
  BY <1>11 DEF KernelDone, WriteEnds, ConnectDone, ReadDone, WriteDone
<1>12. CASE ConnectTimerExpires \/ DelayTimerExpires \/ IdleTimerExpires
  BY <1>12 DEF ConnectTimerExpires, DelayTimerExpires, IdleTimerExpires, Expires
<1>13. CASE \E h \in Posts : Post(h)
  BY <1>13 DEF Post, Posts
<1>14. CASE UNCHANGED vars
  BY <1>14 DEF vars
<1>. QED
  BY <1>1, <1>2, <1>3, <1>4, <1>5, <1>6, <1>7, <1>8, <1>9, <1>10, <1>11, <1>12, <1>13, <1>14
     DEF Next, ReadHandler, TimerHandler, PostedHandler

\* Closing: the manager knows the session exactly while a channel is open.
LEMMA ClosingStep ==
  TypeOK /\ RegisteredIffOpen /\ [Next]_vars => RegisteredIffOpen'
<1> SUFFICES ASSUME TypeOK, RegisteredIffOpen, [Next]_vars
             PROVE  RegisteredIffOpen'
  OBVIOUS
<1> USE DEF TypeOK, ChanTypeOK, RegisteredIffOpen, chanVars, opVars, bufVars, flowVars, idleVars,
        lifeVars
<1>1. CASE ConnectHandler
  BY <1>1 DEF ConnectHandler, OnConnectComplete, ConnectFails, ConnectSucceeds, ForceClose,
      AbortAll, Aborted, ResetIdleTimer, StartRead
<1>2. CASE \E d \in Dir, res \in {"eof", "err", "aborted"} : OnReadError(d, res)
  BY <1>2 DEF OnReadError, ReadEnds, ReadFails, ReadAborts, CloseRead, CheckFullyClosed,
      ForceClose, AbortAll, Aborted
<1>3. CASE \E d \in Dir, n \in ReadSizes, action \in Decisions : OnRead(d, n, action)
  BY <1>3 DEF OnRead, Process, PushDelayed, StartWrite, CloseWrite, CheckFullyClosed,
      ResetIdleTimer, BufAppend, ShouldPauseReading
<1>4. CASE \E d \in Dir : WriteHandler(d)
  BY <1>4 DEF WriteHandler, OnWrite, WriteFails, WriteSucceeds, CloseWrite,
      CheckFullyClosed, ResetIdleTimer, BufConsume, StartRead, Resumes, More, Finished,
      ShouldResumeReading
<1>5. CASE OnConnectTimeout
  BY <1>5 DEF OnConnectTimeout, ForceClose, AbortAll, Aborted
<1>6. CASE OnIdleTimeout
  BY <1>6 DEF OnIdleTimeout, InitiateShutdown, CancelPending, Aborted, CheckFullyClosed
<1>7. CASE OnDelayExpired
  BY <1>7 DEF OnDelayExpired, FlushDelayQueues, ScheduleDelayFlush, StartWrite, BufAppend,
      Dir
<1>8. CASE Start
  BY <1>8 DEF Start
<1>9. CASE RunShutdown
  BY <1>9 DEF RunShutdown, InitiateShutdown, CancelPending, Aborted, CheckFullyClosed
<1>10. CASE RunForceClose
  BY <1>10 DEF RunForceClose, ForceClose, AbortAll, Aborted
<1>11. CASE KernelDone
  BY <1>11 DEF KernelDone, WriteEnds, ConnectDone, ReadDone, WriteDone
<1>12. CASE ConnectTimerExpires \/ DelayTimerExpires \/ IdleTimerExpires
  BY <1>12 DEF ConnectTimerExpires, DelayTimerExpires, IdleTimerExpires, Expires
<1>13. CASE \E h \in Posts : Post(h)
  BY <1>13 DEF Post, Posts
<1>14. CASE UNCHANGED vars
  BY <1>14 DEF vars
<1>. QED
  BY <1>1, <1>2, <1>3, <1>4, <1>5, <1>6, <1>7, <1>8, <1>9, <1>10, <1>11, <1>12, <1>13, <1>14
     DEF Next, ReadHandler, TimerHandler, PostedHandler

\* Resetting: of a reset session only start() can still begin something.
LEMMA ResetStep ==
  TypeOK /\ Phases /\ ResetIsFinal /\ [Next]_vars => ResetIsFinal'
<1> SUFFICES ASSUME TypeOK, Phases, ResetIsFinal, [Next]_vars
             PROVE  ResetIsFinal'
  OBVIOUS
<1> USE DEF TypeOK, ChanTypeOK, OpTypeOK, DataTypeOK, Phases, ResetIsFinal, Done, chanVars, opVars,
        bufVars, flowVars, idleVars, lifeVars
<1>1. CASE ConnectHandler
  <2>1. PICK res \in {"ok", "err", "aborted"} : OnConnectComplete(res)
    BY <1>1 DEF ConnectHandler
  <2>2. CASE ConnectFails(res)
    BY <2>2 DEF ConnectFails, ForceClose, AbortAll, Aborted
  <2>3. CASE ConnectSucceeds(res)
    BY <2>3 DEF ConnectSucceeds
  <2>. QED BY <2>1, <2>2, <2>3 DEF OnConnectComplete
<1>2. ASSUME NEW d \in Dir, NEW res \in {"eof", "err", "aborted"}, OnReadError(d, res)
      PROVE  ResetIsFinal'
  <2>1. CASE ReadEnds(d, res)
    <3>1. /\ reset' = reset /\ connectOp' = connectOp /\ connectTimer' = connectTimer
          /\ writeOp' = writeOp /\ writeOpen' = writeOpen
      BY <1>2, <2>1 DEF OnReadError, ReadEnds, CloseRead
    <3>2. /\ readOp' = [readOp EXCEPT ![d] = "none"]
          /\ readOpen' = [readOpen EXCEPT ![d] = FALSE]
          /\ registered' => registered
      BY <2>1 DEF ReadEnds, CloseRead, CheckFullyClosed
    <3>. QED BY <3>1, <3>2
  <2>2. CASE ReadFails(d, res)
    BY <2>2 DEF ReadFails, ForceClose, AbortAll, Aborted, OnReadError
  <2>3. CASE ReadAborts(d, res)
    BY <2>3, <1>2 DEF ReadAborts, OnReadError
  <2>. QED BY <1>2, <2>1, <2>2, <2>3 DEF OnReadError
<1>3. ASSUME NEW d \in Dir, NEW n \in ReadSizes, NEW action \in Decisions, OnRead(d, n, action)
      PROVE  ResetIsFinal'
  <2> USE <1>3 DEF OnRead
  <2>1. /\ reset' = reset /\ readOpen' = readOpen /\ (registered' => registered)
        /\ \A e \in Dir : writeOpen'[e] => writeOpen[e]
    BY CloseWriteEffect DEF Process
  <2>2. buf' \in [Dir -> 0..Capacity]
    BY DEF Process, BufAppend, DataTypeOK
  <2>3. \A e \in Dir : writeOp'[e] = writeOp[e] \/ writeOpen[e]
    BY <2>2, StartWriteEffect DEF Process
  <2>4. \A e \in Dir : readOp'[e] = readOp[e] \/ readOp'[e] = "none" \/ readOpen[e]
    OBVIOUS
  <2>. QED BY <2>1, <2>3, <2>4
<1>4. ASSUME NEW d \in Dir, WriteHandler(d)
      PROVE  ResetIsFinal'
  <2> USE <1>4 DEF WriteHandler, OnWrite, WriteFails, WriteSucceeds
  <2>1. /\ reset' = reset /\ readOpen' = readOpen /\ (registered' => registered)
        /\ \A e \in Dir : writeOpen'[e] => writeOpen[e]
    BY CloseWriteEffect
  <2>2. \A e \in Dir : writeOp'[e] = writeOp[e] \/ writeOp'[e] = "none" \/ writeOpen[e]
    BY DEF More
  <2>3. \A e \in Dir : readOp'[e] = readOp[e] \/ readOpen[e]
    BY DEF StartRead
  <2>. QED BY <2>1, <2>2, <2>3
<1>5. CASE OnConnectTimeout
  BY <1>5 DEF OnConnectTimeout, ForceClose, AbortAll, Aborted
<1>6. CASE OnIdleTimeout
  BY <1>6 DEF OnIdleTimeout, InitiateShutdown, CancelPending, Aborted, CheckFullyClosed
<1>7. CASE OnDelayExpired
  BY <1>7 DEF OnDelayExpired, FlushDelayQueues, ScheduleDelayFlush, StartWrite, BufAppend,
      Dir
<1>8. CASE Start
  BY <1>8 DEF Start
<1>9. CASE RunShutdown
  <2> USE <1>9 DEF RunShutdown, InitiateShutdown, CancelPending, Aborted, CheckFullyClosed
  <2>1. (reset => ~registered /\ (connectOp = "pending" => connectTimer # "off"))'
    OBVIOUS
  <2>2. (reset => \A e \in Dir : ~readOpen[e] /\ ~writeOpen[e])'
    OBVIOUS
  <2>3. (reset => \A e \in Dir : readOp[e] # "pending")'
    OBVIOUS
  <2>4. (reset => \A e \in Dir : writeOp[e] # "pending")'
    OBVIOUS
  <2>. QED BY <2>1, <2>2, <2>3, <2>4
<1>10. CASE RunForceClose
  <2> USE <1>10 DEF RunForceClose, ForceClose, AbortAll, Aborted
  <2>1. (reset => ~registered /\ (connectOp = "pending" => connectTimer # "off"))'
    OBVIOUS
  <2>2. (reset => \A e \in Dir : ~readOpen[e] /\ ~writeOpen[e])'
    OBVIOUS
  <2>3. (reset => \A e \in Dir : readOp[e] # "pending")'
    OBVIOUS
  <2>4. (reset => \A e \in Dir : writeOp[e] # "pending")'
    OBVIOUS
  <2>. QED BY <2>1, <2>2, <2>3, <2>4
<1>11. CASE KernelDone
  BY <1>11 DEF KernelDone, WriteEnds, ConnectDone, ReadDone, WriteDone
<1>12. CASE ConnectTimerExpires \/ DelayTimerExpires \/ IdleTimerExpires
  BY <1>12 DEF ConnectTimerExpires, DelayTimerExpires, IdleTimerExpires, Expires
<1>13. CASE \E h \in Posts : Post(h)
  BY <1>13 DEF Post, Posts
<1>14. CASE UNCHANGED vars
  BY <1>14 DEF vars
<1>. QED
  BY <1>1, <1>2, <1>3, <1>4, <1>5, <1>6, <1>7, <1>8, <1>9, <1>10, <1>11, <1>12, <1>13, <1>14
     DEF Next, ReadHandler, TimerHandler, PostedHandler

LEMMA StepIInv == IInv /\ [Next]_vars => IInv'
  BY TypeStep, ReadingStep, WritingStep, DelayingStep, ClosingStep, ResetStep DEF IInv

\* Reads, writes, timers and halves of a session agree after every handler.
THEOREM Invariance == Spec => []IInv
  BY InitIInv, StepIInv, PTL DEF Spec

-----------------------------------------------------------------------------
(* The invariants of SessionProperties. *)

\* Every handler keeps the state well-typed; no buffer exceeds its capacity and
\* no delay queue its limit.
THEOREM TypeCorrect == Spec => []TypeOK
  BY Invariance, PTL DEF IInv

\* Whatever a read, a completion, a timer or the manager does, buffered bytes on
\* an open half always have a write in progress.
THEOREM NeverLosesWrite == Spec => []NoLostWrite
  BY Invariance, PTL DEF IInv

\* A connected, open read side has a read outstanding exactly if not paused.
THEOREM ReaderAlwaysArmed == Spec => []ReaderArmed
  BY Invariance, PTL DEF IInv

\* Delayed packets of either direction always have the shared timer.
THEOREM DelayNeverStranded == Spec => []NoStrandedDelay
  BY Invariance, PTL DEF IInv

\* Without stall decisions a paused reader always has a write to wake it.
THEOREM BackpressureEnds ==
  ASSUME "Stall" \notin Decisions
  PROVE  Spec => []PausedReadHasWaker
<1>1. IInv => PausedReadHasWaker
  BY DEF IInv, WakerUnlessStall
<1>. QED BY <1>1, Invariance, PTL

\* After a reset no operation stays in the kernel and no half is open.
THEOREM ResetStaysFinal == Spec => []ResetIsFinal
  BY Invariance, PTL DEF IInv

-----------------------------------------------------------------------------
(* The session implements FourWayClose. *)

\* No handler opens a half connection again.
LEMMA ShrinkStep ==
  TypeOK /\ [Next]_vars => \A d \in Dir : (readOpen'[d] => readOpen[d]) /\ (writeOpen'[d] => writeOpen[d])
<1> SUFFICES ASSUME TypeOK, [Next]_vars
             PROVE  \A d \in Dir : (readOpen'[d] => readOpen[d]) /\ (writeOpen'[d] => writeOpen[d])
  OBVIOUS
<1> USE DEF TypeOK, ChanTypeOK, chanVars, opVars, bufVars, flowVars, idleVars, lifeVars
<1>1. CASE ConnectHandler
  BY <1>1 DEF ConnectHandler, OnConnectComplete, ConnectFails, ConnectSucceeds, ForceClose,
      AbortAll, Aborted, ResetIdleTimer, StartRead
<1>2. CASE \E d \in Dir, res \in {"eof", "err", "aborted"} : OnReadError(d, res)
  BY <1>2 DEF OnReadError, ReadEnds, ReadFails, ReadAborts, CloseRead, CheckFullyClosed,
      ForceClose, AbortAll, Aborted
<1>3. CASE \E d \in Dir, n \in ReadSizes, action \in Decisions : OnRead(d, n, action)
  BY <1>3 DEF OnRead, Process, PushDelayed, StartWrite, CloseWrite, CheckFullyClosed,
      ResetIdleTimer, BufAppend, ShouldPauseReading
<1>4. CASE \E d \in Dir : WriteHandler(d)
  BY <1>4 DEF WriteHandler, OnWrite, WriteFails, WriteSucceeds, CloseWrite,
      CheckFullyClosed, ResetIdleTimer, BufConsume, StartRead, Resumes, More, Finished,
      ShouldResumeReading
<1>5. CASE OnConnectTimeout
  BY <1>5 DEF OnConnectTimeout, ForceClose, AbortAll, Aborted
<1>6. CASE OnIdleTimeout
  BY <1>6 DEF OnIdleTimeout, InitiateShutdown, CancelPending, Aborted, CheckFullyClosed
<1>7. CASE OnDelayExpired
  BY <1>7 DEF OnDelayExpired, FlushDelayQueues, ScheduleDelayFlush, StartWrite, BufAppend,
      Dir
<1>8. CASE Start
  BY <1>8 DEF Start
<1>9. CASE RunShutdown
  BY <1>9 DEF RunShutdown, InitiateShutdown, CancelPending, Aborted, CheckFullyClosed
<1>10. CASE RunForceClose
  BY <1>10 DEF RunForceClose, ForceClose, AbortAll, Aborted
<1>11. CASE KernelDone
  BY <1>11 DEF KernelDone, WriteEnds, ConnectDone, ReadDone, WriteDone
<1>12. CASE ConnectTimerExpires \/ DelayTimerExpires \/ IdleTimerExpires
  BY <1>12 DEF ConnectTimerExpires, DelayTimerExpires, IdleTimerExpires, Expires
<1>13. CASE \E h \in Posts : Post(h)
  BY <1>13 DEF Post, Posts
<1>14. CASE UNCHANGED vars
  BY <1>14 DEF vars
<1>. QED
  BY <1>1, <1>2, <1>3, <1>4, <1>5, <1>6, <1>7, <1>8, <1>9, <1>10, <1>11, <1>12, <1>13, <1>14
     DEF Next, ReadHandler, TimerHandler, PostedHandler

LEMMA OpenIffSome ==
  OpenChannels # {} <=> \E d \in Dir : readOpen[d] \/ writeOpen[d]
<1>1. ASSUME NEW d \in Dir, readOpen[d] PROVE <<"read", d>> \in OpenChannels
  BY <1>1 DEF OpenChannels
<1>2. ASSUME NEW d \in Dir, writeOpen[d] PROVE <<"write", d>> \in OpenChannels
  BY <1>2 DEF OpenChannels
<1>3. ASSUME NEW x \in OpenChannels PROVE \E d \in Dir : readOpen[d] \/ writeOpen[d]
  BY DEF OpenChannels
<1>. QED BY <1>1, <1>2, <1>3

LEMMA CloseStep == IInv /\ [Next]_vars => [FWC!Next]_(FWC!vars)
<1> SUFFICES ASSUME IInv, [Next]_vars PROVE [FWC!Next]_(FWC!vars)
  OBVIOUS
<1> DEFINE closed == OpenChannels \ OpenChannels'
<1>1. IInv'
  BY StepIInv
<1>2. registered \in BOOLEAN /\ registered' \in BOOLEAN
  BY <1>1 DEF IInv, TypeOK, ChanTypeOK
<1>0. RegisteredIffOpen /\ RegisteredIffOpen'
  BY <1>1 DEF IInv
<1>3. registered <=> OpenChannels # {}
  BY <1>0, OpenIffSome DEF RegisteredIffOpen
<1>4. registered' <=> OpenChannels' # {}
  <2>1. (OpenChannels # {} <=> \E d \in Dir : readOpen[d] \/ writeOpen[d])'
    BY OpenIffSome, PTL
  <2>. QED BY <1>0, <2>1 DEF RegisteredIffOpen
<1>5. OpenChannels' \subseteq OpenChannels
  BY ShrinkStep DEF IInv, OpenChannels
<1>6. CASE closed = {}
  <2>1. OpenChannels' = OpenChannels
    BY <1>5, <1>6
  <2>2. registered' = registered
    BY <1>2, <1>3, <1>4, <2>1
  <2>. QED BY <2>1, <2>2 DEF FWC!vars
<1>7. CASE closed # {}
  <2>1. closed \in (SUBSET OpenChannels) \ {{}}
    BY <1>7
  <2>2. OpenChannels' = OpenChannels \ closed
    BY <1>5
  <2>3. registered' = (OpenChannels' # {})
    BY <1>2, <1>4
  <2>. QED BY <2>1, <2>2, <2>3 DEF FWC!Next, FWC!Close
<1>. QED BY <1>6, <1>7

\* The four halves close one by one or together and never reopen, and the
\* manager forgets the session with the last one.
THEOREM Refinement == Spec => Lifecycle
<1>1. Init => FWC!Init
  BY DEF Init, FWC!Init, OpenChannels, Dir
<1>. QED BY <1>1, CloseStep, Invariance, PTL DEF Spec, Lifecycle, FWC!Spec

-----------------------------------------------------------------------------
(* The timers of a session are those of TimerSlots, which SessionTimers     *)
(* implements with ids, a map and late callbacks.                           *)

Slots == INSTANCE TimerSlots

\* Handlers that leave all timers but the delay timer alone.
LEMMA OtherStep ==
  ASSUME \/ \E d \in Dir : \E res \in {"eof", "err", "aborted"} : OnReadError(d, res)
         \/ OnDelayExpired \/ RunShutdown \/ RunForceClose \/ KernelDone
         \/ DelayTimerExpires \/ (\E h \in Posts : Post(h)) \/ UNCHANGED vars
  PROVE  UNCHANGED Slots!slots
BY DEF OnReadError, OnDelayExpired, RunShutdown, RunForceClose, KernelDone, WriteEnds,
       ConnectDone, ReadDone, WriteDone, DelayTimerExpires, Post, vars, idleVars, lifeVars,
       Slots!slots

LEMMA SlotsStep == IInv /\ [Next]_vars => [Slots!Next]_(Slots!slots)
<1> SUFFICES ASSUME IInv, [Next]_vars PROVE [Slots!Next]_(Slots!slots)
  OBVIOUS
<1> USE DEF idleVars, lifeVars
<1>1. CASE Start
  BY <1>1 DEF Start, IInv, Phases, Slots!Next, Slots!ConnectStarts
<1>2. CASE ConnectHandler
  <2>1. PICK res : OnConnectComplete(res)
    BY <1>2 DEF ConnectHandler
  <2>2. Slots!ConnectEnds
    BY <2>1 DEF OnConnectComplete, Slots!ConnectEnds
  <2>3. Slots!ResetIdle \/ UNCHANGED <<idleTimer, orphanIdle, staleIdle>>
    BY <2>1 DEF OnConnectComplete, ConnectFails, ConnectSucceeds, ResetIdleTimer, Slots!ResetIdle
  <2>. QED BY <2>2, <2>3 DEF Slots!Next
<1>3. CASE \E d \in Dir, n \in ReadSizes, action \in Decisions : OnRead(d, n, action)
  BY <1>3 DEF OnRead, ResetIdleTimer, Slots!Next, Slots!ResetIdle
<1>4. CASE \E d \in Dir : WriteHandler(d)
  <2>1. PICK d \in Dir, res \in {"ok", "err", "aborted"} : OnWrite(d, res)
    BY <1>4 DEF WriteHandler
  <2>2. CASE WriteFails(d, res)
    BY <2>1, <2>2 DEF OnWrite, WriteFails, Slots!slots
  <2>3. CASE WriteSucceeds(d, res)
    BY <2>1, <2>3 DEF OnWrite, WriteSucceeds, ResetIdleTimer, Slots!Next, Slots!ResetIdle
  <2>. QED BY <2>1, <2>2, <2>3 DEF OnWrite
<1>5. CASE OnConnectTimeout
  BY <1>5 DEF OnConnectTimeout, Slots!Next, Slots!ConnectFires
<1>6. CASE OnIdleTimeout
  BY <1>6 DEF OnIdleTimeout, Slots!Next, Slots!IdleFires
<1>7. CASE ConnectTimerExpires
  BY <1>7 DEF ConnectTimerExpires, Expires, Slots!Next, Slots!Expires
<1>8. CASE IdleTimerExpires
  BY <1>8 DEF IdleTimerExpires, Expires, Slots!Next, Slots!Expires
<1>. QED
  BY <1>1, <1>2, <1>3, <1>4, <1>5, <1>6, <1>7, <1>8, OtherStep
     DEF Next, ReadHandler, TimerHandler, PostedHandler

\* Every handler of a session does to its connect and idle timers what TimerSlots
\* allows, as the ids, the map and the late callbacks of SessionTimers do
\* (Session.cpp:62-119, 531-581): both models agree on the timers.
THEOREM UsesSlots == Spec => Slots!Spec
<1>1. Init => Slots!Init
  BY DEF Init, Slots!Init
<1>. QED BY <1>1, SlotsStep, Invariance, PTL DEF Spec, Slots!Spec

-----------------------------------------------------------------------------
(* Each direction is one of RelaySizes, as SendPath is byte by byte.        *)

Sizes(d) == INSTANCE RelaySizes WITH
  size <- buf[d], inflight <- inflight[d], busy <- writeBusy[d],
  paused <- readPaused[d], delayed <- delayed[d], open <- writeOpen[d]

\* The flag stands for the one write of a socket that asio allows at a time, and what
\* that write was handed is still queued when it completes.
OneWrite(d) ==
  /\ writeBusy[d] <=> writeOp[d] # "none"
  /\ ~writeBusy[d] => inflight[d] = 0
  /\ inflight[d] <= buf[d]

\* A paused reader has no read that could still complete.
PausedIsQuiet(d) == readPaused[d] => readOp[d] = "none"

CountInv == \A d \in Dir : OneWrite(d) /\ PausedIsQuiet(d)

\* startClientWrite, startServerWrite: a write begins where none is and bytes wait.
LEMMA StartWriteCounts ==
  ASSUME TypeOK, NEW ds, NEW e \in Dir, OneWrite(e), StartWrite(ds),
         buf'[e] \in Nat, buf[e] <= buf'[e]
  PROVE  /\ OneWrite(e)'
         /\ e \notin ds \/ writeBusy[e] =>
              writeBusy'[e] = writeBusy[e] /\ inflight'[e] = inflight[e]
         /\ e \in ds /\ ~writeBusy[e] =>
              /\ writeBusy'[e] = (writeOpen[e] /\ buf'[e] > 0)
              /\ inflight'[e] = IF writeBusy'[e] THEN buf'[e] ELSE 0
<1>1. /\ writeBusy[e] \in BOOLEAN /\ writeOpen[e] \in BOOLEAN
      /\ inflight[e] \in Nat /\ buf[e] \in Nat
  BY DEF TypeOK, ChanTypeOK, DataTypeOK
<1>2. CASE e \in ds /\ writeOpen[e] /\ ~writeBusy[e] /\ buf'[e] > 0
  <2>1. writeBusy'[e] = TRUE /\ writeOp'[e] = "pending" /\ inflight'[e] = buf'[e]
    BY <1>2 DEF StartWrite
  <2>2. OneWrite(e)'
    BY <1>1, <2>1 DEF OneWrite
  <2>. QED BY <1>1, <1>2, <2>1, <2>2
<1>3. CASE ~(e \in ds /\ writeOpen[e] /\ ~writeBusy[e] /\ buf'[e] > 0)
  <2>1. /\ writeBusy'[e] = writeBusy[e] /\ writeOp'[e] = writeOp[e]
        /\ inflight'[e] = inflight[e]
    BY <1>1, <1>3 DEF StartWrite
  <2>2. OneWrite(e)'
    BY <1>1, <2>1 DEF OneWrite
  <2>3. e \in ds /\ ~writeBusy[e] => writeBusy'[e] = FALSE /\ inflight'[e] = 0
    BY <1>1, <2>1 DEF OneWrite
  <2>. QED BY <1>1, <1>3, <2>1, <2>2, <2>3
<1>. QED BY <1>2, <1>3

LEMMA CountOnRead ==
  ASSUME TypeOK, NEW d \in Dir, NEW n \in ReadSizes, NEW action \in Decisions,
         OnRead(d, n, action), NEW e \in Dir, OneWrite(e), PausedIsQuiet(e)
  PROVE  OneWrite(e)' /\ PausedIsQuiet(e)'
<1>1. readOp \in [Dir -> OpState] /\ readPaused \in [Dir -> BOOLEAN] /\ buf \in [Dir -> Nat]
  BY DEF TypeOK, OpTypeOK, DataTypeOK
<1>2. PausedIsQuiet(e)'
  BY <1>1 DEF OnRead, PausedIsQuiet
<1>3. CASE action # "Forward"
  BY <1>2, <1>3 DEF OnRead, Process, OneWrite, bufVars
<1>4. CASE action = "Forward"
  <2>1. n \in Nat /\ buf' = [buf EXCEPT ![d] = BufAppend(@, n)] /\ StartWrite({d})
    BY <1>4 DEF OnRead, Process
  <2>2. buf'[e] \in Nat /\ buf[e] <= buf'[e]
    <3>1. buf[e] \in 0..Capacity
      BY DEF TypeOK, DataTypeOK
    <3>. QED BY <1>1, <2>1, <3>1 DEF BufAppend
  <2>. QED BY <1>2, <2>1, <2>2, StartWriteCounts
<1>. QED BY <1>3, <1>4

LEMMA CountOnWrite ==
  ASSUME TypeOK, NEW d \in Dir, NEW res \in {"ok", "err", "aborted"}, OnWrite(d, res),
         NEW e \in Dir, OneWrite(e), PausedIsQuiet(e)
  PROVE  OneWrite(e)' /\ PausedIsQuiet(e)'
<1>1. /\ writeOp \in [Dir -> OpState] /\ writeBusy \in [Dir -> BOOLEAN]
      /\ readOp \in [Dir -> OpState] /\ readPaused \in [Dir -> BOOLEAN]
      /\ inflight \in [Dir -> Nat] /\ buf \in [Dir -> Nat]
  BY DEF TypeOK, OpTypeOK, DataTypeOK
<1>2. CASE WriteFails(d, res)
  BY <1>1, <1>2 DEF WriteFails, OneWrite, PausedIsQuiet
<1>3. CASE WriteSucceeds(d, res)
  <2>1. /\ buf'[e] = IF e = d THEN BufConsume(buf[e], inflight[e]) ELSE buf[e]
        /\ writeBusy'[e] = IF e = d THEN More(e) ELSE writeBusy[e]
        /\ writeOp'[e] = IF e = d THEN (IF More(e) THEN "pending" ELSE "none") ELSE writeOp[e]
        /\ inflight'[e] = IF e = d THEN (IF More(e) THEN buf'[e] ELSE 0) ELSE inflight[e]
    BY <1>1, <1>3 DEF WriteSucceeds
  <2>2. PausedIsQuiet(e)'
    BY <1>1, <1>3 DEF WriteSucceeds, StartRead, PausedIsQuiet
  <2>3. buf'[e] \in Nat
    BY <1>1, <2>1 DEF BufConsume
  <2>4. CASE e = d /\ More(e)
    BY <2>1, <2>2, <2>3, <2>4 DEF OneWrite
  <2>5. CASE e = d /\ ~More(e)
    BY <2>1, <2>2, <2>3, <2>5 DEF OneWrite
  <2>6. CASE e # d
    BY <2>1, <2>2, <2>6 DEF OneWrite
  <2>. QED BY <2>4, <2>5, <2>6
<1>. QED BY <1>2, <1>3 DEF OnWrite

\* The bytes of direction e that a delay flush moves to its write buffer.
LEMMA FlushEffect ==
  ASSUME TypeOK, OnDelayExpired, NEW e \in Dir
  PROVE  \E k \in 0..delayed[e] :
           /\ delayed'[e] = delayed[e] - k /\ buf'[e] = BufAppend(buf[e], k)
           /\ buf'[e] \in Nat /\ buf[e] <= buf'[e] /\ StartWrite(Dir)
<1>1. PICK c \in 0..delayed["c2s"], r \in 0..delayed["s2c"] :
        FlushDelayQueues([d \in Dir |-> IF d = "c2s" THEN c ELSE r])
  BY DEF OnDelayExpired
<1>. DEFINE k == IF e = "c2s" THEN c ELSE r
<1>2. delayed[e] \in Nat /\ buf[e] \in 0..Capacity
  BY DEF TypeOK, DataTypeOK
<1>3. k \in 0..delayed[e]
  BY DEF Dir
<1>4. delayed'[e] = delayed[e] - k /\ buf'[e] = BufAppend(buf[e], k) /\ StartWrite(Dir)
  BY <1>1 DEF FlushDelayQueues
<1>. HIDE DEF k
<1>5. buf'[e] \in Nat /\ buf[e] <= buf'[e]
  BY <1>2, <1>3, <1>4 DEF BufAppend
<1>. QED BY <1>3, <1>4, <1>5

LEMMA CountOnDelay ==
  ASSUME TypeOK, OnDelayExpired, NEW e \in Dir, OneWrite(e), PausedIsQuiet(e)
  PROVE  OneWrite(e)' /\ PausedIsQuiet(e)'
<1>1. buf'[e] \in Nat /\ buf[e] <= buf'[e] /\ StartWrite(Dir)
  BY FlushEffect
<1>2. OneWrite(e)'
  BY <1>1, StartWriteCounts
<1>. QED BY <1>2 DEF OnDelayExpired, PausedIsQuiet

LEMMA CountStep == TypeOK /\ CountInv /\ [Next]_vars => CountInv'
<1> SUFFICES ASSUME TypeOK, CountInv, [Next]_vars, NEW e \in Dir
             PROVE  OneWrite(e)' /\ PausedIsQuiet(e)'
  BY DEF CountInv
<1> USE DEF TypeOK, OpTypeOK, DataTypeOK, CountInv, OneWrite, PausedIsQuiet, OpState,
            chanVars, opVars, bufVars, flowVars, idleVars, lifeVars
<1>1. CASE ConnectHandler
  BY <1>1 DEF ConnectHandler, OnConnectComplete, ConnectFails, ConnectSucceeds, ForceClose,
      AbortAll, Aborted, StartRead
<1>2. CASE \E d \in Dir, res \in {"eof", "err", "aborted"} : OnReadError(d, res)
  BY <1>2 DEF OnReadError, ReadEnds, ReadFails, ReadAborts, ForceClose, AbortAll, Aborted
<1>3. CASE \E d \in Dir, n \in ReadSizes, action \in Decisions : OnRead(d, n, action)
  <2> HIDE DEF TypeOK, CountInv, OneWrite, PausedIsQuiet
  <2>. QED BY <1>3, CountOnRead DEF CountInv
<1>4. CASE \E d \in Dir : WriteHandler(d)
  <2> HIDE DEF TypeOK, CountInv, OneWrite, PausedIsQuiet
  <2>. QED BY <1>4, CountOnWrite DEF CountInv, WriteHandler
<1>5. CASE OnConnectTimeout
  BY <1>5 DEF OnConnectTimeout, ForceClose, AbortAll, Aborted
<1>6. CASE OnIdleTimeout
  BY <1>6 DEF OnIdleTimeout, InitiateShutdown, CancelPending, Aborted
<1>7. CASE OnDelayExpired
  <2> HIDE DEF TypeOK, CountInv, OneWrite, PausedIsQuiet
  <2>. QED BY <1>7, CountOnDelay DEF CountInv
<1>8. CASE Start
  BY <1>8 DEF Start
<1>9. CASE RunShutdown
  BY <1>9 DEF RunShutdown, InitiateShutdown, CancelPending, Aborted
<1>10. CASE RunForceClose
  BY <1>10 DEF RunForceClose, ForceClose, AbortAll, Aborted
<1>11. CASE KernelDone
  BY <1>11 DEF KernelDone, WriteEnds, ConnectDone, ReadDone, WriteDone, Done
<1>12. CASE ConnectTimerExpires \/ DelayTimerExpires \/ IdleTimerExpires
  BY <1>12 DEF ConnectTimerExpires, DelayTimerExpires, IdleTimerExpires, Expires
<1>13. CASE \E h \in Posts : Post(h)
  BY <1>13 DEF Post
<1>14. CASE UNCHANGED vars
  BY <1>14 DEF vars
<1>. QED
  BY <1>1, <1>2, <1>3, <1>4, <1>5, <1>6, <1>7, <1>8, <1>9, <1>10, <1>11, <1>12, <1>13, <1>14
     DEF Next, ReadHandler, TimerHandler, PostedHandler

\* However reads, flushes and completions interleave, the flag is set exactly while a
\* write is outstanding, so that no second async_write is started on a socket;
\* consume() finds all that a write was handed; and a paused reader reads nothing
\* (Session.cpp:121-145, 371-461).
THEOREM WritesOneAtATime == Spec => []CountInv
<1>1. Init => CountInv
  BY DEF Init, CountInv, OneWrite, PausedIsQuiet, Dir
<1>. QED BY <1>1, CountStep, TypeCorrect, PTL DEF Spec

\* Each handler in turn, seen from a direction.
LEMMA SizesOnRead ==
  ASSUME TypeOK, NEW d \in Dir, NEW n \in ReadSizes, NEW action \in Decisions,
         OnRead(d, n, action), NEW e \in Dir, OneWrite(e), PausedIsQuiet(e)
  PROVE  (\E m \in ReadSizes : Sizes(e)!Read(m)) \/ UNCHANGED Sizes(e)!sizes
<1>1. /\ writeOpen \in [Dir -> BOOLEAN] /\ writeBusy \in [Dir -> BOOLEAN]
      /\ readPaused \in [Dir -> BOOLEAN] /\ readOp \in [Dir -> OpState]
      /\ inflight \in [Dir -> Nat] /\ buf \in [Dir -> Nat] /\ delayed \in [Dir -> Nat]
  BY DEF TypeOK, ChanTypeOK, DataTypeOK, OpTypeOK
<1>2. /\ readPaused' = [readPaused EXCEPT ![d] = @ \/ action = "Stall" \/ ShouldPauseReading(buf'[d])]
      /\ Process(d, n, action) /\ readOp[d] = "ok"
  BY DEF OnRead
<1>3. CASE e = d
  <2>1. ~readPaused[e] /\ readPaused'[e] = (action = "Stall" \/ buf'[e] >= HighWater)
    BY <1>1, <1>2, <1>3 DEF PausedIsQuiet, ShouldPauseReading
  <2>2. CASE action \in {"Drop", "Stall", "HalfClose"}
    <3>1. UNCHANGED bufVars /\ UNCHANGED delayed /\ writeOpen'[e] \in {writeOpen[e], FALSE}
      BY <1>1, <1>2, <1>3, <2>2 DEF Process, CloseWrite, chanVars
    <3>2. readPaused'[e] \in {buf[e] >= HighWater, TRUE}
      <4>1. CASE action = "Stall"
        BY <2>1, <4>1
      <4>2. CASE action # "Stall"
        <5>1. buf'[e] = buf[e]
          BY <3>1 DEF bufVars
        <5>2. readPaused'[e] = (buf[e] >= HighWater)
          BY <2>1, <4>2, <5>1
        <5>. QED BY <5>2
      <4>. QED BY <4>1, <4>2
    <3>3. Sizes(e)!Neither
      BY <3>1, <3>2 DEF Sizes!Neither, bufVars
    <3>. QED BY <2>1, <3>3 DEF Sizes!Read
  <2>3. CASE action = "Delay"
    <3>1. /\ \E kept \in 0..delayed[e] : delayed'[e] = kept + n
          /\ UNCHANGED <<bufVars, writeOpen>>
      BY <1>1, <1>2, <1>3, <2>3 DEF Process, PushDelayed, chanVars
    <3>2. Sizes(e)!Delay(n)
      BY <2>1, <2>3, <3>1 DEF Sizes!Delay, bufVars
    <3>. QED BY <2>1, <3>2 DEF Sizes!Read
  <2>4. CASE action = "Forward"
    <3>1. /\ n \in Nat /\ buf' = [buf EXCEPT ![d] = BufAppend(@, n)] /\ StartWrite({d})
          /\ UNCHANGED <<writeOpen, delayed>>
      BY <1>2, <2>4 DEF Process, chanVars
    <3>2. buf'[e] = BufAppend(buf[e], n)
      BY <1>1, <1>3, <3>1
    <3>3. buf'[e] \in Nat /\ buf[e] <= buf'[e]
      <4>1. buf[e] \in 0..Capacity
        BY DEF TypeOK, DataTypeOK
      <4>. QED BY <3>1, <3>2, <4>1 DEF BufAppend
    <3>4. Sizes(e)!StartIfIdle
      BY <1>1, <1>3, <3>1, <3>3, StartWriteCounts DEF Sizes!StartIfIdle, Sizes!StartWrite
    <3>5. Sizes(e)!Forward(n)
      BY <2>1, <2>4, <3>1, <3>2, <3>4 DEF Sizes!Forward, Sizes!Queue, BufAppend
    <3>. QED BY <2>1, <3>5 DEF Sizes!Read
  <2>. QED BY <2>2, <2>3, <2>4
<1>4. CASE e # d
  <2>1. readPaused'[e] = readPaused[e]
    BY <1>1, <1>2, <1>4
  <2>2. delayed'[e] = delayed[e] /\ writeOpen'[e] = writeOpen[e]
    BY <1>1, <1>2, <1>4 DEF Process, CloseWrite, PushDelayed, chanVars
  <2>3. buf'[e] = buf[e] /\ writeBusy'[e] = writeBusy[e] /\ inflight'[e] = inflight[e]
    <3>1. CASE UNCHANGED bufVars
      BY <3>1 DEF bufVars
    <3>2. CASE action = "Forward"
      <4>1. buf'[e] = buf[e] /\ StartWrite({d})
        BY <1>1, <1>2, <1>4, <3>2 DEF Process
      <4>. QED BY <1>1, <1>4, <4>1, StartWriteCounts
    <3>. QED BY <1>2, <3>1, <3>2 DEF Process
  <2>. QED BY <2>1, <2>2, <2>3 DEF Sizes!sizes
<1>. QED BY <1>3, <1>4

LEMMA SizesOnWrite ==
  ASSUME TypeOK, NEW d \in Dir, NEW res \in {"ok", "err", "aborted"}, OnWrite(d, res),
         NEW e \in Dir, OneWrite(e)
  PROVE  Sizes(e)!WriteDone \/ Sizes(e)!WriteFails \/ UNCHANGED Sizes(e)!sizes
<1>1. /\ writeOpen \in [Dir -> BOOLEAN] /\ writeBusy \in [Dir -> BOOLEAN]
      /\ readPaused \in [Dir -> BOOLEAN] /\ writeOp \in [Dir -> OpState]
      /\ inflight \in [Dir -> Nat] /\ buf \in [Dir -> Nat]
  BY DEF TypeOK, ChanTypeOK, DataTypeOK, OpTypeOK
<1>2. writeOp[d] = res /\ delayed' = delayed
  BY DEF OnWrite
<1>3. CASE e # d
  <2>1. writeOpen'[e] = writeOpen[e] /\ readPaused'[e] = readPaused[e]
    BY <1>1, <1>3 DEF OnWrite, WriteFails, WriteSucceeds, CloseWrite, chanVars
  <2>2. buf'[e] = buf[e] /\ writeBusy'[e] = writeBusy[e] /\ inflight'[e] = inflight[e]
    BY <1>1, <1>3 DEF OnWrite, WriteFails, WriteSucceeds
  <2>. QED BY <1>2, <2>1, <2>2 DEF Sizes!sizes
<1>4. CASE e = d /\ WriteFails(d, res)
  <2>1. writeBusy[e]
    BY <1>2, <1>4 DEF OneWrite
  <2>2. Sizes(e)!WriteFails
    BY <1>1, <1>2, <1>4, <2>1 DEF WriteFails, CloseWrite, Sizes!WriteFails
  <2>. QED BY <2>2
<1>5. CASE e = d /\ WriteSucceeds(d, res)
  <2>1. writeBusy[e] /\ inflight[e] <= buf[e]
    BY <1>1, <1>2, <1>5 DEF OneWrite, WriteSucceeds
  <2>2. buf'[e] = buf[e] - inflight[e] /\ buf'[e] \in Nat
    BY <1>1, <1>5, <2>1 DEF WriteSucceeds, BufConsume
  <2>3. readPaused'[e] = (readPaused[e] /\ buf'[e] > LowWater)
    BY <1>1, <1>5, <2>2 DEF WriteSucceeds, Resumes, ShouldResumeReading
  <2>4. writeBusy'[e] = More(e) /\ inflight'[e] = IF More(e) THEN buf'[e] ELSE 0
    BY <1>1, <1>5 DEF WriteSucceeds
  <2>5. Sizes(e)!StartWrite
    BY <2>4 DEF More, Sizes!StartWrite
  <2>6. writeOpen'[e] = writeOpen[e] \/ (writeOpen'[e] = FALSE /\ buf'[e] = 0)
    BY <1>1, <1>5 DEF WriteSucceeds, Finished, CloseWrite, chanVars
  <2>7. Sizes(e)!WriteDone
    BY <1>2, <2>1, <2>2, <2>3, <2>5, <2>6 DEF Sizes!WriteDone
  <2>. QED BY <2>7
<1>. QED BY <1>3, <1>4, <1>5 DEF OnWrite

LEMMA SizesOnDelay ==
  ASSUME TypeOK, OnDelayExpired, NEW e \in Dir, OneWrite(e)
  PROVE  \E k \in 0..delayed[e] : Sizes(e)!Flush(k)
<1>1. PICK k \in 0..delayed[e] :
        /\ delayed'[e] = delayed[e] - k /\ buf'[e] = BufAppend(buf[e], k)
        /\ buf'[e] \in Nat /\ buf[e] <= buf'[e] /\ StartWrite(Dir)
  BY FlushEffect
<1>2. Sizes(e)!StartIfIdle
  BY <1>1, StartWriteCounts DEF Sizes!StartIfIdle, Sizes!StartWrite
<1>3. Sizes(e)!Flush(k)
  BY <1>1, <1>2 DEF OnDelayExpired, chanVars, Sizes!Flush, Sizes!Queue, BufAppend
<1>. QED BY <1>3

LEMMA SizesStep ==
  ASSUME TypeOK, CountInv, [Next]_vars, NEW e \in Dir
  PROVE  [Sizes(e)!Next]_(Sizes(e)!sizes)
<1>. DEFINE Idle == UNCHANGED Sizes(e)!sizes
            Closes == Sizes(e)!Close
<1>i. TypeOK /\ OneWrite(e) /\ PausedIsQuiet(e)
  BY DEF CountInv
<1>t. /\ writeOpen \in [Dir -> BOOLEAN] /\ writeBusy \in [Dir -> BOOLEAN]
      /\ readPaused \in [Dir -> BOOLEAN] /\ writeOp \in [Dir -> OpState]
      /\ inflight \in [Dir -> Nat] /\ buf \in [Dir -> Nat] /\ delayed \in [Dir -> Nat]
  BY DEF TypeOK, ChanTypeOK, DataTypeOK, OpTypeOK
<1>c. ASSUME UNCHANGED <<bufVars, flowVars>>,
             writeOpen' = writeOpen \/ writeOpen' = [d \in Dir |-> FALSE]
      PROVE  Closes \/ Idle
  BY <1>c DEF bufVars, flowVars, Sizes!Close, Sizes!sizes
<1>1. CASE ConnectHandler
  <2>1. UNCHANGED <<bufVars, flowVars>>
    BY <1>1 DEF ConnectHandler, OnConnectComplete
  <2>2. writeOpen' = writeOpen \/ writeOpen' = [d \in Dir |-> FALSE]
    BY <1>1 DEF ConnectHandler, OnConnectComplete, ConnectFails, ConnectSucceeds, ForceClose,
        chanVars
  <2>. QED BY <1>c, <2>1, <2>2 DEF Sizes!Next
<1>2. CASE \E d \in Dir, res \in {"eof", "err", "aborted"} : OnReadError(d, res)
  <2>1. UNCHANGED <<bufVars, flowVars>>
    BY <1>2 DEF OnReadError
  <2>2. writeOpen' = writeOpen \/ writeOpen' = [d \in Dir |-> FALSE]
    BY <1>2 DEF OnReadError, ReadEnds, ReadFails, ReadAborts, CloseRead, ForceClose, chanVars
  <2>. QED BY <1>c, <2>1, <2>2 DEF Sizes!Next
<1>3. CASE \E d \in Dir, n \in ReadSizes, action \in Decisions : OnRead(d, n, action)
  BY <1>i, <1>3, SizesOnRead DEF Sizes!Next
<1>4. CASE \E d \in Dir : WriteHandler(d)
  BY <1>i, <1>4, SizesOnWrite DEF WriteHandler, Sizes!Next
<1>5. CASE OnConnectTimeout \/ RunForceClose
  BY <1>5, <1>c DEF OnConnectTimeout, RunForceClose, ForceClose, Sizes!Next
<1>6. CASE OnIdleTimeout \/ RunShutdown
  BY <1>6, <1>c DEF OnIdleTimeout, RunShutdown, InitiateShutdown, Sizes!Next
<1>7. CASE OnDelayExpired
  BY <1>i, <1>7, SizesOnDelay DEF Sizes!Next
<1>8. CASE Start \/ KernelDone \/ ConnectTimerExpires \/ IdleTimerExpires
  BY <1>8, <1>c DEF Start, KernelDone, WriteEnds, ConnectDone, ReadDone, WriteDone,
      ConnectTimerExpires, IdleTimerExpires, chanVars, Sizes!Next
<1>9. CASE DelayTimerExpires \/ (\E h \in Posts : Post(h)) \/ UNCHANGED vars
  BY <1>9 DEF DelayTimerExpires, Post, vars, chanVars, bufVars, flowVars, Sizes!sizes
<1>. QED
  BY <1>1, <1>2, <1>3, <1>4, <1>5, <1>6, <1>7, <1>8, <1>9
     DEF Next, ReadHandler, TimerHandler, PostedHandler

\* A direction of a session does with its bytes what RelaySizes says, however the
\* handlers of the other direction, the timers and the manager interleave with it
\* (Session.cpp:147-461); SendPath's bytes do the same (SendPathProofs).
THEOREM CountsSizes == \A d \in Dir : Spec => Sizes(d)!Spec
<1>. SUFFICES ASSUME NEW d \in Dir PROVE Spec => Sizes(d)!Spec
  OBVIOUS
<1>1. Init => Sizes(d)!Init
  BY DEF Init, Sizes!Init
<1>2. TypeOK /\ CountInv /\ [Next]_vars => [Sizes(d)!Next]_(Sizes(d)!sizes)
  BY SizesStep
<1>. QED BY <1>1, <1>2, WritesOneAtATime, TypeCorrect, PTL DEF Spec, Sizes!Spec
==============================================================================
