-------------------------------- MODULE Proxy --------------------------------
(***************************************************************************)
(* The process around the sessions: the accept loop (ProxyServer.cpp), the   *)
(* admission and ownership of sessions (SessionManager.cpp), the control     *)
(* server's thread (ControlServer.cpp:22-116) and main's shutdown sequence   *)
(* (main.cpp:137-160), on three threads: the event loop's, the control       *)
(* server's and main.  What a session does between start() and its removal   *)
(* from sessions_ is Session.tla; here it only starts, ends and is freed.    *)
(***************************************************************************)
EXTENDS Integers, Sequences, FiniteSets

CONSTANTS
  Session,       \* bound: the sessions ever created
  MaxSessions,   \* ConfigLimits::MAX_SESSIONS
  SoftLimit      \* SOFT_LIMIT_PERCENT of it

ASSUME ProxyAssumption ==
  /\ IsFiniteSet(Session)
  /\ MaxSessions \in Nat /\ SoftLimit \in Nat /\ SoftLimit < MaxSessions

None == "none"   \* not a session

VARIABLES
  mainAt,          \* what the main thread does next
  signalled,       \* g_shutdown
  running,         \* ProxyServer::running_
  acceptorOpen,
  acceptOp,        \* the outstanding async_accept, or how it ended
  ioAt, current,   \* where the event loop's thread is in onAccept, its session
  ioStopped,       \* EventLoop::stop() was called
  controlAt,       \* the control server's thread
  controlStopped,  \* its running_ is false and its io_ stopped
  sessions,        \* SessionManager::sessions_
  created,         \* every session so far
  strand,          \* the handlers posted to each session's strand, in order
  busy,            \* sessions with operations outstanding after start()
  told,            \* sessions initiateShutdown() was posted to
  acceptFailed     \* history: an accept has ended with an error

loopVars    == <<acceptOp, ioAt, current>>
sessionVars == <<sessions, created, strand, busy, told>>
mainVars    == <<mainAt, signalled, running, acceptorOpen, ioStopped>>
controlVars == <<controlAt, controlStopped>>
vars == <<loopVars, sessionVars, mainVars, controlVars, acceptFailed>>

\* ProxyServer::start has armed the first accept; the loop's thread runs.
Init ==
  /\ mainAt = "waiting" /\ signalled = FALSE
  /\ running = TRUE /\ acceptorOpen = TRUE /\ acceptOp = "pending"
  /\ ioAt = "idle" /\ current = None /\ ioStopped = FALSE
  /\ controlAt = "accepting" /\ controlStopped = FALSE
  /\ sessions = {} /\ created = {} /\ strand = [s \in Session |-> <<>>]
  /\ busy = {} /\ told = {}
  /\ acceptFailed = FALSE

-----------------------------------------------------------------------------
(* Sessions as the process sees them. *)

\* A second forceClose behind one that waits changes nothing and is left out.
PostTo(S, handler) ==
  strand' = [s \in Session |->
               IF s \in S /\ ~(handler = "forceClose" /\ \E i \in DOMAIN strand[s] :
                                                           strand[s][i] = handler)
                 THEN Append(strand[s], handler) ELSE strand[s]]

LoopIsFree == ~ioStopped /\ ioAt = "idle"

RunPosted(s) ==
  /\ LoopIsFree /\ strand[s] # <<>>
  /\ strand' = [strand EXCEPT ![s] = Tail(@)]
  /\ LET handler == Head(strand[s]) IN
     /\ busy' = IF handler = "start" THEN busy \cup {s} ELSE busy
     /\ \/ handler = "forceClose" /\ sessions' = sessions \ {s}
        \/ handler # "forceClose" /\ UNCHANGED sessions
        \/ handler = "shutdown" /\ sessions' = sessions \ {s}
  /\ UNCHANGED <<created, told, loopVars, mainVars, controlVars, acceptFailed>>

\* The last half closes in a handler of the session's own.
SessionEnds(s) ==
  /\ LoopIsFree /\ s \in sessions \cap busy
  /\ sessions' = sessions \ {s}
  /\ UNCHANGED <<created, strand, busy, told, loopVars, mainVars, controlVars, acceptFailed>>

\* The last handler of a removed session lets go of it.
LastHandlerRuns(s) ==
  /\ LoopIsFree /\ s \in busy \ sessions
  /\ busy' = busy \ {s}
  /\ UNCHANGED <<sessions, created, strand, told, loopVars, mainVars, controlVars, acceptFailed>>

-----------------------------------------------------------------------------
(* The accept loop. *)

KernelAccepts(res) ==
  /\ acceptOp = "pending" /\ acceptorOpen /\ acceptOp' = res
  /\ res = "ok" => created # Session
  /\ UNCHANGED <<ioAt, current, sessionVars, mainVars, controlVars, acceptFailed>>

Handled == acceptOp' = "none" /\ UNCHANGED <<current, sessionVars, mainVars, controlVars>>

\* onAccept up to its checks: an error ends the loop.
OnAccept ==
  /\ LoopIsFree /\ acceptOp \in {"ok", "error", "aborted"}
  /\ ioAt' = IF acceptOp = "ok" /\ running THEN "creating" ELSE "idle"
  /\ acceptFailed' = (acceptFailed \/ acceptOp = "error")
  /\ Handled

Count == Cardinality(sessions)

AdmitAfterShed(admitted, shed) ==   \* mutant: as if the session shed were gone
  \/ Count < SoftLimit /\ admitted = TRUE /\ shed = {}
  \/ Count >= SoftLimit /\ Count < MaxSessions /\ admitted \in BOOLEAN /\ shed = {}
  \/ Count >= MaxSessions /\ shed \in {{s} : s \in sessions} /\ admitted = TRUE
\* tryAdmit: in between, rand() decides.  The session shed is the one idle
\* longest; none is, if the clock has not moved since all were active.  Its
\* forceClose is posted, so that the count asked for again is the same.
TryAdmit(admitted, shed) ==
  \/ Count < SoftLimit /\ admitted = TRUE /\ shed = {}
  \/ Count >= SoftLimit /\ Count < MaxSessions /\ admitted \in BOOLEAN /\ shed = {}
  \/ Count >= MaxSessions /\ shed \in {{}} \cup {{s} : s \in sessions} /\ admitted = FALSE

RejectedReturns == ioAt' = "idle"   \* mutant
Rejected == ioAt' = "accepting"     \* a rejected connection is logged, no more

\* createSession up to the insertion; only this thread inserts and removes.
CreateSession(s) ==
  /\ ioAt = "creating" /\ s \in Session \ created
  /\ \E admitted \in BOOLEAN, shed \in SUBSET sessions :
       /\ TryAdmit(admitted, shed)
       /\ PostTo(shed, "forceClose")
       /\ IF admitted
            THEN /\ sessions' = sessions \cup {s} /\ created' = created \cup {s}
                 /\ current' = s /\ ioAt' = "posting"
            ELSE Rejected /\ UNCHANGED <<sessions, created, current>>
  /\ UNCHANGED <<acceptOp, busy, told, mainVars, controlVars, acceptFailed>>

PostStart ==
  /\ ioAt = "posting" /\ ioAt' = "accepting" /\ current' = None
  /\ PostTo({current}, "start")
  /\ UNCHANGED <<acceptOp, sessions, created, busy, told, mainVars, controlVars, acceptFailed>>

\* doAccept, its check and its async_accept, which fails on a closed acceptor
DoAccept ==
  /\ ioAt = "accepting" /\ ioAt' = IF running THEN "arming" ELSE "idle"
  /\ UNCHANGED <<acceptOp, current, sessionVars, mainVars, controlVars, acceptFailed>>
ArmAccept ==
  /\ ioAt = "arming" /\ ioAt' = "idle"
  /\ acceptOp' = IF acceptorOpen THEN "pending" ELSE "error"
  /\ UNCHANGED <<current, sessionVars, mainVars, controlVars, acceptFailed>>

-----------------------------------------------------------------------------
(* The control server's thread: it reads a request with blocking calls.     *)

ControlAccepts ==
  /\ controlAt = "accepting" /\ ~controlStopped /\ controlAt' = "reading"
  /\ UNCHANGED <<controlStopped, loopVars, sessionVars, mainVars, acceptFailed>>

\* The request is complete, or its client is gone, and the response is written.
ControlAnswers ==
  /\ controlAt = "reading" /\ controlAt' = "accepting"
  /\ UNCHANGED <<controlStopped, loopVars, sessionVars, mainVars, acceptFailed>>

ControlThreadEnds ==
  /\ controlAt = "accepting" /\ controlStopped /\ controlAt' = "ended"
  /\ UNCHANGED <<controlStopped, loopVars, sessionVars, mainVars, acceptFailed>>

-----------------------------------------------------------------------------
(* The main thread. *)

Signal ==
  /\ ~signalled /\ signalled' = TRUE
  /\ UNCHANGED <<mainAt, running, acceptorOpen, ioStopped, loopVars, sessionVars,
                 controlVars, acceptFailed>>

AfterSwapped(step) ==   \* mutant: the sessions are told before the accept loop is stopped
  CASE step = "waiting"       -> "shutdownAll"
    [] step = "shutdownAll"   -> "stopProxy"
    [] step = "stopProxy"     -> "closeAcceptor"
    [] step = "closeAcceptor" -> "stopControl"
    [] step = "stopControl"   -> "joinControl"
    [] step = "joinControl"   -> "forceCloseAll"
    [] step = "forceCloseAll" -> "stopLoop"
    [] step = "stopLoop"      -> "joinLoop"
    [] step = "joinLoop"      -> "freeManager"
    [] step = "freeManager"   -> "freeLoop"
    [] step = "freeLoop"      -> "done"
After(step) ==
  CASE step = "waiting"       -> "stopProxy"
    [] step = "stopProxy"     -> "closeAcceptor"
    [] step = "closeAcceptor" -> "stopControl"
    [] step = "stopControl"   -> "joinControl"
    [] step = "joinControl"   -> "shutdownAll"
    [] step = "shutdownAll"   -> "forceCloseAll"   \* two seconds later
    [] step = "forceCloseAll" -> "stopLoop"
    [] step = "stopLoop"      -> "joinLoop"
    [] step = "joinLoop"      -> "freeManager"
    [] step = "freeManager"   -> "freeLoop"
    [] step = "freeLoop"      -> "done"

At(step) == mainAt = step /\ mainAt' = After(step) /\ UNCHANGED signalled

SeesSignal ==
  /\ At("waiting") /\ signalled
  /\ UNCHANGED <<running, acceptorOpen, ioStopped, loopVars, sessionVars, controlVars, acceptFailed>>

\* ProxyServer::stop, which onAccept can run between
StopProxy ==
  /\ At("stopProxy") /\ running' = FALSE
  /\ UNCHANGED <<acceptorOpen, ioStopped, loopVars, sessionVars, controlVars, acceptFailed>>
CloseAcceptor ==
  /\ At("closeAcceptor") /\ acceptorOpen' = FALSE
  /\ acceptOp' = IF acceptOp = "pending" THEN "aborted" ELSE acceptOp
  /\ UNCHANGED <<running, ioStopped, ioAt, current, sessionVars, controlVars, acceptFailed>>

StopControl ==
  /\ At("stopControl") /\ controlStopped' = TRUE
  /\ UNCHANGED <<running, acceptorOpen, ioStopped, controlAt, loopVars, sessionVars, acceptFailed>>
JoinControl ==
  /\ At("joinControl") /\ controlAt = "ended"
  /\ UNCHANGED <<running, acceptorOpen, ioStopped, loopVars, sessionVars, controlVars, acceptFailed>>

ShutdownAll ==
  /\ At("shutdownAll")
  /\ PostTo(sessions, "shutdown") /\ told' = told \cup sessions
  /\ UNCHANGED <<running, acceptorOpen, ioStopped, loopVars, sessions, created, busy,
                 controlVars, acceptFailed>>

ForceCloseAll ==
  /\ At("forceCloseAll") /\ PostTo(sessions, "forceClose")
  /\ UNCHANGED <<running, acceptorOpen, ioStopped, loopVars, sessions, created, busy, told,
                 controlVars, acceptFailed>>

StopLoopLater ==   \* mutant: resets the work guard only
  /\ At("stopLoop") /\ ioStopped' = (busy = {})
  /\ UNCHANGED <<running, acceptorOpen, loopVars, sessionVars, controlVars, acceptFailed>>
\* EventLoop::stop: the handler that is running is the last one.
StopLoop ==
  /\ At("stopLoop") /\ ioStopped' = TRUE
  /\ UNCHANGED <<running, acceptorOpen, loopVars, sessionVars, controlVars, acceptFailed>>
JoinLoop ==
  /\ At("joinLoop") /\ ioStopped /\ ioAt = "idle"
  /\ UNCHANGED <<running, acceptorOpen, ioStopped, loopVars, sessionVars, controlVars, acceptFailed>>

\* main's locals are destroyed last to first: the servers and the manager,
\* whose destructor posts forceClose again, ...
FreeManager ==
  /\ At("freeManager") /\ PostTo(sessions, "forceClose") /\ sessions' = {}
  /\ UNCHANGED <<running, acceptorOpen, ioStopped, loopVars, created, busy, told,
                 controlVars, acceptFailed>>
\* ... the Scheduler, and the EventLoop with the handlers it still holds.
FreeLoop ==
  /\ At("freeLoop")
  /\ strand' = [s \in Session |-> <<>>] /\ busy' = {}
  /\ UNCHANGED <<running, acceptorOpen, ioStopped, loopVars, sessions, created, told,
                 controlVars, acceptFailed>>

-----------------------------------------------------------------------------

AcceptLoop ==
  \/ OnAccept \/ (\E s \in Session : CreateSession(s)) \/ PostStart \/ DoAccept \/ ArmAccept

Main ==
  \/ SeesSignal \/ StopProxy \/ CloseAcceptor \/ StopControl \/ JoinControl
  \/ ShutdownAll \/ ForceCloseAll \/ StopLoop \/ JoinLoop \/ FreeManager \/ FreeLoop

Next ==
  \/ AcceptLoop
  \/ \E res \in {"ok", "error"} : KernelAccepts(res)
  \/ \E s \in Session : RunPosted(s) \/ SessionEnds(s) \/ LastHandlerRuns(s)
  \/ ControlAccepts \/ ControlAnswers \/ ControlThreadEnds
  \/ Signal \/ Main

Spec == Init /\ [][Next]_vars

\* Every thread is scheduled; onAccept runs on until it returns.  Nothing makes the
\* clients of either server send, read or go away.
ThreadFairness ==
  WF_vars(AcceptLoop) /\ WF_vars(Main) /\ WF_vars(ControlThreadEnds)

FairSpec == Spec /\ ThreadFairness

-----------------------------------------------------------------------------
(* Properties. *)

Steps == {"waiting", "stopProxy", "closeAcceptor", "stopControl", "joinControl", "shutdownAll",
          "forceCloseAll", "stopLoop", "joinLoop", "freeManager", "freeLoop", "done"}
Handlers == {"start", "shutdown", "forceClose"}

LoopTypeOK ==
  /\ acceptOp \in {"none", "pending", "ok", "error", "aborted"}
  /\ ioAt \in {"idle", "creating", "posting", "accepting", "arming"}
  /\ current \in Session \cup {None}

SessionTypeOK ==
  /\ created \in SUBSET Session /\ sessions \in SUBSET created
  /\ busy \in SUBSET Session /\ told \in SUBSET Session
  /\ strand \in [Session -> Seq(Handlers)]

ThreadTypeOK ==
  /\ mainAt \in Steps
  /\ signalled \in BOOLEAN /\ running \in BOOLEAN /\ acceptorOpen \in BOOLEAN
  /\ ioStopped \in BOOLEAN /\ controlStopped \in BOOLEAN
  /\ controlAt \in {"accepting", "reading", "ended"}

HistoryTypeOK == acceptFailed \in BOOLEAN

\* Types; the manager only knows sessions createSession() has created.
TypeOK == LoopTypeOK /\ SessionTypeOK /\ ThreadTypeOK /\ HistoryTypeOK

\* Admission: no more than MAX_SESSIONS at once, whatever is shed, ends or is
\* force-closed while connections come in.
SessionBound == Count <= MaxSessions

Armed == acceptOp # "none" \/ ioAt # "idle"

\* The accept loop goes on until it is stopped or an accept fails: no outcome of
\* createSession, a rejection least of all, ends it.
AcceptLoopAlive == running /\ ~acceptFailed => Armed

\* stop() comes before shutdownAll(): of the sessions onAccept creates meanwhile,
\* one at most is not told to shut down.
AfterShutdownAll ==
  mainAt \in {"forceCloseAll", "stopLoop", "joinLoop", "freeManager", "freeLoop", "done"}
AtMostOneMissed == AfterShutdownAll => \A s, t \in sessions \ told : s = t

\* "Press Ctrl+C to stop." (main.cpp:127): the signal ends the program.  The code does
\* not see to it, as main joins a thread that reads from a client without a timeout
\* (ControlServer.cpp:32-40, 73-116).
StopsOnSignal == signalled ~> mainAt = "done"

\* What it does see to: if whoever talks to the control server sends a whole request or
\* goes away, the signal ends the program, whatever its sessions and the accept loop
\* are at and whatever is posted to a loop that has stopped.
ControlClientsFinish == WF_vars(ControlAnswers)
Exits == ControlClientsFinish => StopsOnSignal
==============================================================================
