-------------------------- MODULE SessionProperties --------------------------
(* What a session must guarantee, and what its documentation says it does. *)
EXTENDS Session

-----------------------------------------------------------------------------
(* Safety. *)

\* No lost wakeup: while a side can be written and its buffer holds bytes, a
\* write is in progress, because only its completion sends what is appended
\* meanwhile (startServerWrite returns early on serverWriteInProgress_).
NoLostWrite ==
  \A d \in Dir : writeOpen[d] /\ buf[d] > 0 => writeBusy[d]

\* Once connected, an open read side has a read outstanding exactly when it is
\* not paused: no direction is left without a reader, and resuming a paused one
\* never starts a second read into the same array (clientReadBuf_).
ReaderArmed ==
  \A d \in Dir : upstream = "Connected" /\ readOpen[d] =>
                   (readPaused[d] <=> readOp[d] = "none")

\* Delayed packets always have a timer (or its queued callback) that will
\* release them, although both directions share delayTimerId_.
NoStrandedDelay ==
  \A d \in Dir : delayed[d] > 0 => delayTimer # "off"

\* A paused read whose peer can still be written has a write in progress: the
\* one event that resumes it is on its way (onServerWrite is the only place
\* that clears clientReadPaused_).
PausedReadHasWaker ==
  \A d \in Dir : readPaused[d] /\ writeOpen[d] => writeBusy[d]

\* Once forceReset() has closed the sockets no read or write is left in the kernel
\* and no side of a channel is open.  Only a start() that was posted too late begins
\* anything after that: a connect, which its timeout ends if nothing else does.
ResetIsFinal ==
  reset => /\ ~registered /\ (connectOp = "pending" => connectTimer # "off")
           /\ \A d \in Dir : /\ ~readOpen[d] /\ ~writeOpen[d]
                             /\ readOp[d] # "pending" /\ writeOp[d] # "pending"

-----------------------------------------------------------------------------
(* The session implements the four-way close. *)

OpenChannels == {<<"read", d>> : d \in {e \in Dir : readOpen[e]}}
                  \cup {<<"write", d>> : d \in {e \in Dir : writeOpen[e]}}

FWC == INSTANCE FourWayClose WITH Channels <- {"read", "write"} \X Dir,
                                  open <- OpenChannels, listed <- registered

\* Every handler closes channels only, and the manager forgets the session in
\* the very step that closes its last channel (checkFullyClosed, forceClose).
Lifecycle == FWC!Spec

-----------------------------------------------------------------------------
(* Liveness. *)

\* A session the manager has forgotten is destroyed: every operation that
\* still holds a shared_ptr to it ends and its handler starts no other.
Released == ~registered ~> (~Alive \/ crashed)

\* A connection attempt ends: connected, failed, or the session force-closed.
ConnectResolves ==
  (upstream = "Connecting" /\ connectOp # "none") ~>
    (upstream # "Connecting" \/ ~registered)

\* A side that finished sending while its bytes were being written is relayed:
\* the other side's write half closes too, provided that its peer keeps reading
\* (onServerWrite closes it when the last byte is gone).
BusyHalfCloseRelayed ==
  PeersRead => \A d \in Dir : (~readOpen[d] /\ writeBusy[d]) ~> ~writeOpen[d]

-----------------------------------------------------------------------------
(* What documentation and comments say, and the code does not do. *)


\* main.cpp:162 catches what the program throws and reports it: no exception
\* ends the event loop's thread, which has no handler of its own.
NoUncaughtException == ~crashed
==============================================================================
