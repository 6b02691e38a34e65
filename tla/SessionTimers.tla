---------------------------- MODULE SessionTimers ----------------------------
(***************************************************************************)
(* A session and its timers in the Scheduler: the connect timeout and the   *)
(* idle timer, which every read and write cancels and schedules again       *)
(* (Session.cpp:62-119, 531-581), down to the ids the session remembers.    *)
(* (The delay timer, never cancelled before the end, is in DelayFlush.)     *)
(* The event loop may run a handler any time after its timer expired.       *)
(***************************************************************************)
EXTENDS Scheduler, FiniteSets

CONSTANTS ConnectTimeout, IdleTimeout   \* ServerConfig's, in ticks
ASSUME TimeoutAssumption == ConnectTimeout \in Nat /\ IdleTimeout \in Nat \ {0}

VARIABLES
  phase,                 \* of the session's connection
  alive,                 \* the Session object exists: a timer's guard can be locked
  reset,                 \* forceClose() has run
  connectId, idleId,     \* connectTimerId_, idleTimerId_; 0 is none
  failures,              \* connectFailures_ of the metrics
  shutDown,              \* onIdleTimeout() has run
  idles,                 \* history: the ids given to idle timers
  quiet, wasQuiet        \* history: ticks since the last activity, up to
                         \* IdleTimeout, and whether they ever got there

sessionVars == <<phase, alive, reset, connectId, idleId, failures, shutDown>>
quietVars   == <<quiet, wasQuiet>>
vars        == <<schedulerVars, sessionVars, idles, quietVars>>

Init ==
  /\ SchedulerInit
  /\ phase = "new" /\ alive = TRUE /\ reset = FALSE
  /\ connectId = 0 /\ idleId = 0 /\ failures = 0 /\ shutDown = FALSE
  /\ idles = {} /\ quiet = 0 /\ wasQuiet = FALSE

-----------------------------------------------------------------------------

Start ==
  /\ phase = "new" /\ phase' = "connecting"
  /\ Schedule({}, ConnectTimeout) /\ connectId' = nextId
  /\ UNCHANGED <<alive, reset, idleId, failures, shutDown, idles, quietVars>>

ScheduleIdleOnly(ids) == Schedule(ids \ {idleId}, IdleTimeout)   \* mutant: no cancel
ScheduleIdle(ids) == Schedule(ids \cup {idleId}, IdleTimeout)

\* resetIdleTimer() in a handler that has cancelled ids
ResetIdleTimer(ids) ==
  /\ ScheduleIdle(ids)
  /\ idleId' = nextId /\ idles' = idles \cup {nextId}
  /\ quiet' = 0 /\ UNCHANGED wasQuiet

ConnectFails ==
  /\ phase = "connecting" /\ phase' = "failed"
  /\ CancelTimers({connectId}) /\ connectId' = 0
  /\ failures' = failures + 1 /\ reset' = TRUE
  /\ UNCHANGED <<alive, idleId, shutDown, idles, quietVars>>

\* (On sockets that were reset this throws: Session.tla.)
ConnectSucceeds ==
  /\ phase = "connecting" /\ ~reset /\ phase' = "connected"
  /\ connectId' = 0 /\ ResetIdleTimer({connectId})
  /\ UNCHANGED <<alive, reset, failures, shutDown>>

\* recordActivity() in onClientRead, onServerRead, onClientWrite or onServerWrite,
\* one of which may still have to run after the session was shut down or reset
Activity ==
  /\ phase = "connected" /\ alive
  /\ ResetIdleTimer({})
  /\ UNCHANGED <<phase, alive, reset, connectId, failures, shutDown>>

\* forceClose() for another reason: a read error, shedding, or forceCloseAll, which
\* can be before start()
ForceClose ==
  /\ phase \in {"new", "connecting", "connected"} /\ alive
  /\ ~reset /\ reset' = TRUE
  /\ UNCHANGED <<schedulerVars, idles, quietVars,
                 phase, alive, connectId, idleId, failures, shutDown>>

OnConnectTimeout ==
  /\ connectId' = 0 /\ failures' = failures + 1 /\ reset' = TRUE
  /\ UNCHANGED <<phase, alive, idleId, shutDown>>

OnIdleTimeout ==
  /\ idleId' = 0 /\ shutDown' = TRUE
  /\ UNCHANGED <<phase, alive, reset, connectId, failures>>

CallAborted(id)   == alive                  \* mutant: the error code is not looked at
\* The handler calls the callback, and the guard can be locked.
Calls(id) == wait[id] = "expired" /\ alive

RunTimer(id) ==
  /\ RunHandler(id)
  /\ \/ ~Calls(id) /\ UNCHANGED sessionVars
     \/ Calls(id) /\ id \in idles /\ OnIdleTimeout
     \/ Calls(id) /\ id \notin idles /\ OnConnectTimeout
  /\ UNCHANGED <<idles, quietVars>>

\* ~Session, once no operation holds the session
Destroy ==
  /\ alive /\ phase \in {"failed", "connected"} /\ alive' = FALSE
  /\ CancelTimers({connectId, idleId})
  /\ UNCHANGED <<phase, reset, connectId, idleId, failures, shutDown, idles, quietVars>>

\* The clock.
Tick ==
  /\ TimePasses
  /\ quiet' = IF phase = "connected" /\ quiet < IdleTimeout THEN quiet + 1 ELSE quiet
  /\ wasQuiet' = (wasQuiet \/ quiet' = IdleTimeout)
  /\ UNCHANGED <<sessionVars, idles>>

TimerExpires(id) == Expire(id) /\ UNCHANGED <<sessionVars, idles, quietVars>>

Next ==
  \/ Start \/ ConnectFails \/ ConnectSucceeds \/ Activity \/ ForceClose \/ Destroy
  \/ \E id \in Id : RunTimer(id) \/ TimerExpires(id)
  \/ Tick

Spec == Init /\ [][Next]_vars

\* The clock goes on, and the event loop runs what expires.
TimerFairness ==
  /\ WF_vars(Tick)
  /\ \A id \in Id : WF_vars(TimerExpires(id)) /\ WF_vars(RunTimer(id))
FairSpec == Spec /\ TimerFairness

-----------------------------------------------------------------------------
(* Properties. *)

\* Types; the map of timers agrees with what became of each (Scheduler.cpp:18, 25, 45).
TypeOK ==
  /\ SchedulerTypeOK
  /\ phase \in {"new", "connecting", "connected", "failed"}
  /\ alive \in BOOLEAN /\ reset \in BOOLEAN /\ shutDown \in BOOLEAN
  /\ connectId \in 0 .. MaxTimers /\ idleId \in 0 .. MaxTimers /\ failures \in Nat
  /\ idles \in SUBSET Id /\ quiet \in 0 .. IdleTimeout /\ wasQuiet \in BOOLEAN

\* A session is shut down as idle (Session.cpp:566-570) only if it once was idle for
\* the whole of idleTimeout: a callback can be late, after new activity, but none
\* comes from a timer that activity cancelled in time.
IdleMeansIdle == shutDown => wasQuiet

\* A session has the ids of all its timers that wait, so that activity and ~Session
\* can cancel them (Session.cpp:45-50, 547-557); the callback of an idle timer that
\* was late is the one thing that makes it forget one.
NothingForgotten ==
  \A id \in Id :
    wait[id] = "waiting" /\ id \notin {connectId, idleId} => shutDown \/ ~alive

\* shakyline_connect_failures_total counts a failed connect once, and twice only if
\* its timer expired before its own handler ran (Session.cpp:100, 562): never
\* because of a timer that was cancelled in time.
FailuresExplained ==
  /\ failures <= 2
  /\ failures = 2 => phase = "failed" /\ \E id \in Id \ idles : wait[id] = "ran"

\* The timers a destroyed session left in the map go when they expire.
MapDrains == ~alive ~> timers = {}

-----------------------------------------------------------------------------
(* The timers as Session.tla has them. *)

Shown(id) == IF ~alive \/ wait[id] \notin {"waiting", "expired"} THEN "off" ELSE wait[id]
Unnamed(state) == {id \in idles \ {idleId} : alive /\ wait[id] = state}

Slots == INSTANCE TimerSlots WITH
  connectTimer <- IF nextId = 1 THEN "off" ELSE Shown(1),
  idleTimer    <- IF idleId = 0 THEN "off" ELSE Shown(idleId),
  orphanIdle   <- Cardinality(Unnamed("waiting")),
  staleIdle    <- Cardinality(Unnamed("expired"))

\* Ids and map do what Session.tla abstracts them to: a slot for each timer and the
\* numbers of idle timers the session no longer names, waiting and expired.
AsInSession == Slots!Spec
==============================================================================
