------------------------- MODULE SessionTimersProofs -------------------------
(***************************************************************************)
(* Proofs about a session and its timers, for any timeouts and any number   *)
(* of timers: the map of the Scheduler agrees with the timers, an idle      *)
(* session is one that was idle, no timer is forgotten, a late callback     *)
(* accounts for the only double count of a failed connect, and ids, map and *)
(* callbacks implement the slots that Session.tla has for its timers.       *)
(***************************************************************************)
EXTENDS SessionTimers, FiniteSetTheorems, TLAPS

\* The first timer is the connect timer, and all others are idle timers.
IdsInv ==
  /\ connectId \in {0, 1} /\ (connectId = 1 => phase = "connecting")
  /\ idleId \in idles \cup {0}
  /\ \A id \in idles : id < nextId
  /\ \A id \in Id : wait[id] # "none" /\ id \notin idles => id = 1
  /\ phase = "new" => nextId = 1
  /\ phase # "new" => nextId > 1
  /\ ~alive => phase \in {"failed", "connected"}

\* Until the session has been idle for IdleTimeout, no idle timer has expired, and
\* the one that waits has at least what is missing to go.
NotIdleYet ==
  /\ quiet = IdleTimeout => wasQuiet
  /\ ~wasQuiet =>
       /\ ~shutDown
       /\ \A id \in idles :
            /\ wait[id] # "expired"
            /\ wait[id] = "waiting" => /\ id = idleId /\ phase = "connected"
                                       /\ due[id] + quiet >= IdleTimeout

ConnectTimerRan == \E id \in Id \ idles : wait[id] = "ran"

FailuresInv ==
  /\ failures <= 2
  /\ failures >= 1 => phase = "failed" \/ ConnectTimerRan
  /\ failures = 2 => phase = "failed" /\ ConnectTimerRan

IInv == TypeOK /\ IdsInv /\ NotIdleYet /\ NothingForgotten /\ FailuresInv

-----------------------------------------------------------------------------
(* The Scheduler. *)

\* cancel() aborts what waits among the ids, and touches nothing else.
LEMMA CancelEffect ==
  ASSUME SchedulerTypeOK, NEW ids
  PROVE  /\ Cancel(ids) \in [Id -> WaitState]
         /\ \A id \in Id :
              /\ id \in ids /\ wait[id] = "waiting" => Cancel(ids)[id] = "aborted"
              /\ ~(id \in ids /\ wait[id] = "waiting") => Cancel(ids)[id] = wait[id]
BY DEF SchedulerTypeOK, Cancel, WaitState

LEMMA CancelTimersEffect ==
  ASSUME SchedulerTypeOK, NEW ids, CancelTimers(ids)
  PROVE  SchedulerTypeOK' /\ wait' = Cancel(ids) /\ nextId' = nextId /\ due' = due
BY CancelEffect DEF CancelTimers, SchedulerTypeOK

LEMMA ScheduleEffect ==
  ASSUME SchedulerTypeOK, NEW ids, NEW delay \in Nat, Schedule(ids, delay)
  PROVE  /\ SchedulerTypeOK' /\ nextId \in Id /\ nextId' = nextId + 1
         /\ wait[nextId] = "none"
         /\ wait'[nextId] = "waiting" /\ due'[nextId] = delay
         /\ \A id \in Id \ {nextId} : wait'[id] = Cancel(ids)[id] /\ due'[id] = due[id]
<1>1. nextId \in Id /\ nextId' = nextId + 1 /\ MaxTimers \in Nat
  BY SchedulerAssumption DEF Schedule
<1>2. wait[nextId] = "none"
  BY <1>1 DEF SchedulerTypeOK, Id
<1>3. wait' \in [Id -> WaitState] /\ due' \in [Id -> Nat]
  BY <1>1, CancelEffect DEF Schedule, SchedulerTypeOK, WaitState
<1>4. /\ wait'[nextId] = "waiting" /\ due'[nextId] = delay
      /\ \A id \in Id \ {nextId} : wait'[id] = Cancel(ids)[id] /\ due'[id] = due[id]
  BY <1>1, CancelEffect DEF Schedule, SchedulerTypeOK
<1>5. timers' = (timers \ ids) \cup {nextId} /\ timers' \in SUBSET Id
  BY <1>1 DEF Schedule, SchedulerTypeOK
<1>6. nextId' \in 1 .. MaxTimers + 1
  BY <1>1 DEF Id
<1>7. ASSUME NEW id \in Id
      PROVE  /\ id >= nextId' <=> wait'[id] = "none"
             /\ wait'[id] = "waiting" => id \in timers'
             /\ wait'[id] \in {"none", "aborted", "ran", "dropped"} => id \notin timers'
  <2>1. CASE id = nextId
    BY <2>1, <1>1, <1>4, <1>5 DEF Id
  <2>2. CASE id # nextId
    <3>1. id >= nextId' <=> id >= nextId
      BY <1>1, <2>2 DEF Id
    <3>2. wait'[id] = Cancel(ids)[id]
      BY <1>4, <2>2
    <3>. QED BY <3>1, <3>2, <2>2, <1>5, CancelEffect DEF SchedulerTypeOK
  <2>. QED BY <2>1, <2>2
<1>. QED BY <1>1, <1>2, <1>3, <1>4, <1>5, <1>6, <1>7 DEF SchedulerTypeOK

LEMMA RunHandlerEffect ==
  ASSUME SchedulerTypeOK, NEW id \in Id, RunHandler(id)
  PROVE  /\ SchedulerTypeOK' /\ nextId' = nextId /\ due' = due
         /\ wait'[id] = IF wait[id] = "expired" THEN "ran" ELSE "dropped"
         /\ wait[id] \in {"expired", "aborted"}
         /\ \A i \in Id \ {id} : wait'[i] = wait[i]
BY DEF RunHandler, SchedulerTypeOK, WaitState, EraseTimer

LEMMA ExpireEffect ==
  ASSUME SchedulerTypeOK, NEW id \in Id, Expire(id)
  PROVE  /\ SchedulerTypeOK' /\ nextId' = nextId /\ due' = due
         /\ wait[id] = "waiting" /\ due[id] = 0 /\ wait'[id] = "expired"
         /\ \A i \in Id \ {id} : wait'[i] = wait[i]
BY DEF Expire, SchedulerTypeOK, WaitState

LEMMA TimePassesEffect ==
  ASSUME SchedulerTypeOK, TimePasses
  PROVE  /\ SchedulerTypeOK' /\ nextId' = nextId /\ wait' = wait
         /\ \A id \in Id : due'[id] = IF due[id] > 0 THEN due[id] - 1 ELSE 0
BY DEF TimePasses, SchedulerTypeOK

-----------------------------------------------------------------------------
(* The steps. *)

LEMMA InitIInv == Init => IInv
<1> SUFFICES ASSUME Init PROVE IInv
  OBVIOUS
<1>1. SchedulerTypeOK
  BY SchedulerAssumption DEF Init, SchedulerInit, SchedulerTypeOK, WaitState, Id
<1>2. TypeOK
  <2>1. 0 \in 0 .. MaxTimers /\ 0 \in 0 .. IdleTimeout /\ 0 \in Nat
    BY TimeoutAssumption, SchedulerAssumption
  <2>. QED BY <1>1, <2>1 DEF Init, TypeOK
<1>3. IdsInv
  BY DEF Init, IdsInv, SchedulerInit
<1>4. NotIdleYet /\ NothingForgotten /\ FailuresInv
  BY TimeoutAssumption DEF Init, NotIdleYet, NothingForgotten, FailuresInv, SchedulerInit
<1>. QED BY <1>2, <1>3, <1>4 DEF IInv

LEMMA StartStep == IInv /\ Start => IInv'
<1> SUFFICES ASSUME IInv, Start PROVE IInv'
  OBVIOUS
<1>1. SchedulerTypeOK /\ nextId = 1 /\ phase = "new" /\ alive
  BY DEF IInv, TypeOK, IdsInv, Start
<1>2. \A id \in Id : wait[id] = "none"
  BY <1>1 DEF SchedulerTypeOK, Id
<1>3. idles = {} /\ idleId = 0 /\ shutDown' = shutDown
  BY <1>1, SchedulerAssumption DEF IInv, TypeOK, IdsInv, Start, Id
<1>4. /\ SchedulerTypeOK' /\ 1 \in Id /\ nextId' = 2 /\ wait'[1] = "waiting"
      /\ \A id \in Id \ {1} : wait'[id] = "none"
  BY <1>1, <1>2, ScheduleEffect, CancelEffect, TimeoutAssumption DEF Start
<1>5. TypeOK'
  BY <1>1, <1>4, SchedulerAssumption DEF IInv, TypeOK, Start, quietVars, Id
<1>6. IdsInv'
  BY <1>1, <1>3, <1>4 DEF Start, IdsInv
<1>7. NotIdleYet' /\ NothingForgotten'
  BY <1>1, <1>3, <1>4 DEF IInv, NotIdleYet, NothingForgotten, Start, quietVars
<1>8. FailuresInv'
  BY <1>1, <1>2, <1>4 DEF IInv, FailuresInv, ConnectTimerRan, Start, TypeOK
<1>. QED BY <1>5, <1>6, <1>7, <1>8 DEF IInv

\* A timer that has run stays so, and no other can take its place.
LEMMA RanKept ==
  ASSUME IInv, NEW ids, \A id \in Id : wait[id] # "none" => wait'[id] = Cancel(ids)[id],
         \A id \in idles' : id \in idles \/ wait[id] = "none",
         ConnectTimerRan
  PROVE  ConnectTimerRan'
BY CancelEffect DEF IInv, TypeOK, ConnectTimerRan

LEMMA ConnectFailsStep == IInv /\ ConnectFails => IInv'
<1> SUFFICES ASSUME IInv, ConnectFails PROVE IInv'
  OBVIOUS
<1>1. /\ SchedulerTypeOK' /\ wait' = Cancel({connectId}) /\ nextId' = nextId /\ due' = due
      /\ SchedulerTypeOK /\ phase = "connecting"
  BY CancelTimersEffect DEF IInv, TypeOK, ConnectFails
<1>2. \A id \in Id : /\ wait'[id] = wait[id] \/ (wait[id] = "waiting" /\ wait'[id] = "aborted")
                     /\ wait'[id] = "waiting" => id # connectId
  BY <1>1, CancelEffect
<1>3. /\ idles' = idles /\ idleId' = idleId /\ alive' = alive /\ shutDown' = shutDown
      /\ quiet' = quiet /\ wasQuiet' = wasQuiet /\ connectId' = 0 /\ phase' = "failed"
  BY DEF ConnectFails, quietVars
<1>4. TypeOK' /\ IdsInv'
  <2>1. 0 \in 0 .. MaxTimers /\ failures' \in Nat /\ reset' \in BOOLEAN
    BY SchedulerAssumption DEF IInv, TypeOK, ConnectFails
  <2>2. TypeOK'
    BY <1>1, <1>3, <2>1 DEF IInv, TypeOK
  <2>3. \A id \in Id : wait'[id] # "none" => wait[id] # "none"
    BY <1>2
  <2>. QED BY <2>2, <2>3, <1>1, <1>3 DEF IInv, IdsInv
<1>5. NothingForgotten'
  BY <1>1, <1>2 DEF IInv, NothingForgotten, ConnectFails
<1>6. NotIdleYet'
  BY <1>1, <1>2 DEF IInv, TypeOK, NotIdleYet, ConnectFails, quietVars
<1>7. ConnectTimerRan => ConnectTimerRan'
  BY <1>1, RanKept DEF ConnectFails
<1>8. FailuresInv'
  BY <1>1, <1>7 DEF IInv, TypeOK, FailuresInv, ConnectFails
<1>. QED BY <1>4, <1>5, <1>6, <1>8 DEF IInv

\* resetIdleTimer(), with the connect timer cancelled or gone
LEMMA ResetStep ==
  ASSUME IInv, NEW ids, ResetIdleTimer(ids), phase' = "connected", connectId' = 0,
         connectId \in ids \cup {0}, phase # "new", phase # "failed",
         UNCHANGED <<alive, reset, failures, shutDown>>
  PROVE  IInv'
<1>1. SchedulerTypeOK /\ Schedule(ids \cup {idleId}, IdleTimeout) /\ IdleTimeout \in Nat \ {0}
  BY TimeoutAssumption DEF IInv, TypeOK, ResetIdleTimer, ScheduleIdle
<1>2. /\ SchedulerTypeOK' /\ nextId \in Id /\ nextId' = nextId + 1 /\ wait[nextId] = "none"
      /\ wait'[nextId] = "waiting" /\ due'[nextId] = IdleTimeout
      /\ \A id \in Id \ {nextId} :
            wait'[id] = Cancel(ids \cup {idleId})[id] /\ due'[id] = due[id]
  BY <1>1, ScheduleEffect
<1>3. \A id \in Id \ {nextId} :
        /\ wait'[id] = wait[id] \/ (wait[id] = "waiting" /\ wait'[id] = "aborted")
        /\ wait'[id] = "waiting" => wait[id] = "waiting" /\ id \notin ids /\ id # idleId
  BY <1>1, <1>2, CancelEffect
<1>4. idleId' = nextId /\ idles' = idles \cup {nextId} /\ quiet' = 0 /\ wasQuiet' = wasQuiet
  BY DEF ResetIdleTimer
<1>5. nextId > 1 /\ nextId \in Nat
  BY <1>2 DEF IInv, IdsInv, Id
<1>6. TypeOK'
  BY <1>1, <1>2, <1>4, SchedulerAssumption DEF IInv, TypeOK, Id
<1>7. IdsInv'
  <2>1. \A id \in idles' : id < nextId'
    BY <1>2, <1>4, <1>5 DEF IInv, IdsInv, TypeOK, Id
  <2>2. \A id \in Id : wait'[id] # "none" /\ id \notin idles' => id = 1
    BY <1>3, <1>4 DEF IInv, IdsInv
  <2>. QED BY <2>1, <2>2, <1>2, <1>4, <1>5 DEF IInv, IdsInv
<1>8. NothingForgotten'
  BY <1>3, <1>4 DEF IInv, NothingForgotten, IdsInv, Id
<1>9. NotIdleYet'
  <2>1. ~wasQuiet => \A id \in idles : wait'[id] \notin {"waiting", "expired"}
    BY <1>2, <1>3 DEF IInv, TypeOK, NotIdleYet, IdsInv
  <2>2. quiet' = IdleTimeout => wasQuiet'
    BY <1>1, <1>4
  <2>. QED BY <2>1, <2>2, <1>1, <1>2, <1>4 DEF IInv, NotIdleYet
<1>10. ConnectTimerRan => ConnectTimerRan'
  BY <1>2, <1>4, RanKept
<1>11. FailuresInv'
  BY <1>10 DEF IInv, FailuresInv
<1>. QED BY <1>6, <1>7, <1>8, <1>9, <1>11 DEF IInv

LEMMA ConnectSucceedsStep == IInv /\ ConnectSucceeds => IInv'
BY ResetStep DEF ConnectSucceeds

LEMMA ActivityStep == IInv /\ Activity => IInv'
<1> SUFFICES ASSUME IInv, Activity PROVE IInv'
  OBVIOUS
<1>1. connectId = 0
  BY DEF IInv, IdsInv, Activity
<1>. QED BY <1>1, ResetStep DEF Activity

\* Nothing of the session's timers changes in forceClose().
LEMMA ForceCloseStep == IInv /\ ForceClose => IInv'
<1> SUFFICES ASSUME IInv, ForceClose PROVE IInv'
  OBVIOUS
<1>1. /\ UNCHANGED <<nextId, timers, wait, due, idles, quiet, wasQuiet,
                     phase, alive, connectId, idleId, failures, shutDown>>
      /\ reset' = TRUE
  BY DEF ForceClose, schedulerVars, quietVars
<1>2. TypeOK'
  BY <1>1 DEF IInv, TypeOK, SchedulerTypeOK
<1>3. IdsInv' /\ NotIdleYet'
  BY <1>1 DEF IInv, IdsInv, NotIdleYet
<1>4. NothingForgotten' /\ FailuresInv'
  BY <1>1 DEF IInv, NothingForgotten, FailuresInv, ConnectTimerRan
<1>. QED BY <1>2, <1>3, <1>4 DEF IInv

LEMMA DestroyStep == IInv /\ Destroy => IInv'
<1> SUFFICES ASSUME IInv, Destroy PROVE IInv'
  OBVIOUS
<1>1. /\ SchedulerTypeOK' /\ wait' = Cancel({connectId, idleId}) /\ nextId' = nextId
      /\ due' = due /\ SchedulerTypeOK
  BY CancelTimersEffect DEF IInv, TypeOK, Destroy
<1>2. \A id \in Id : wait'[id] = wait[id] \/ (wait[id] = "waiting" /\ wait'[id] = "aborted")
  BY <1>1, CancelEffect
<1>3. /\ UNCHANGED <<idles, quiet, wasQuiet, phase, reset, connectId, idleId, failures, shutDown>>
      /\ alive' = FALSE /\ phase \in {"failed", "connected"}
  BY DEF Destroy, quietVars
<1>4. TypeOK'
  BY <1>1, <1>3 DEF IInv, TypeOK
<1>5. IdsInv'
  <2>1. \A id \in Id : wait'[id] # "none" => wait[id] # "none"
    BY <1>2
  <2>. QED BY <2>1, <1>1, <1>3 DEF IInv, IdsInv
<1>6. NothingForgotten'
  BY <1>3 DEF NothingForgotten
<1>7. NotIdleYet'
  <2>1. idles \subseteq Id
    BY DEF IInv, TypeOK
  <2>. QED BY <2>1, <1>1, <1>2, <1>3 DEF IInv, NotIdleYet
<1>8. ConnectTimerRan => ConnectTimerRan'
  BY <1>1, <1>3, RanKept
<1>9. FailuresInv'
  BY <1>3, <1>8 DEF IInv, FailuresInv
<1>. QED BY <1>4, <1>5, <1>6, <1>7, <1>9 DEF IInv

\* The handler of a timer: nobody is called, or one of the session's callbacks.
LEMMA RunTimerStep == ASSUME IInv, NEW id \in Id, RunTimer(id) PROVE IInv'
<1>1. /\ SchedulerTypeOK' /\ nextId' = nextId /\ due' = due
      /\ wait'[id] = IF wait[id] = "expired" THEN "ran" ELSE "dropped"
      /\ wait[id] \in {"expired", "aborted"}
      /\ \A i \in Id \ {id} : wait'[i] = wait[i]
  BY RunHandlerEffect DEF IInv, TypeOK, RunTimer
<1>2. UNCHANGED <<idles, quiet, wasQuiet>>
  BY DEF RunTimer, quietVars
<1>3. /\ \A i \in Id : wait'[i] \in {"waiting", "expired"} => wait'[i] = wait[i]
      /\ \A i \in Id : wait'[i] # "none" => wait[i] # "none"
      /\ \A i \in Id : wait[i] = "ran" => wait'[i] = "ran"
  BY <1>1
<1>4. ConnectTimerRan => ConnectTimerRan'
  BY <1>2, <1>3 DEF ConnectTimerRan
<1>5. idles \subseteq Id /\ 0 \in 0 .. MaxTimers
  BY SchedulerAssumption DEF IInv, TypeOK
<1>6. CASE UNCHANGED sessionVars
  <2>1. UNCHANGED <<phase, alive, reset, connectId, idleId, failures, shutDown>>
    BY <1>6 DEF sessionVars
  <2>2. TypeOK'
    BY <1>1, <1>2, <2>1 DEF IInv, TypeOK
  <2>3. IdsInv'
    BY <1>1, <1>2, <1>3, <2>1 DEF IInv, IdsInv
  <2>4. NothingForgotten'
    BY <1>3, <2>1 DEF IInv, NothingForgotten
  <2>5. NotIdleYet'
    BY <1>1, <1>2, <1>3, <1>5, <2>1 DEF IInv, NotIdleYet
  <2>6. FailuresInv'
    BY <1>4, <2>1 DEF IInv, FailuresInv
  <2>. QED BY <2>2, <2>3, <2>4, <2>5, <2>6 DEF IInv
<1>7. CASE Calls(id) /\ id \in idles /\ OnIdleTimeout
  <2>1. /\ UNCHANGED <<phase, alive, reset, connectId, failures>>
        /\ idleId' = 0 /\ shutDown' = TRUE /\ wait[id] = "expired"
    BY <1>7 DEF OnIdleTimeout, Calls
  <2>2. TypeOK'
    BY <1>1, <1>2, <1>5, <2>1 DEF IInv, TypeOK
  <2>3. IdsInv'
    BY <1>1, <1>2, <1>3, <2>1 DEF IInv, IdsInv
  <2>4. wasQuiet
    BY <1>7, <2>1 DEF IInv, NotIdleYet
  <2>5. NothingForgotten' /\ NotIdleYet'
    BY <1>2, <2>1, <2>4 DEF NothingForgotten, NotIdleYet, IInv, TypeOK
  <2>6. FailuresInv'
    BY <1>4, <2>1 DEF IInv, FailuresInv
  <2>. QED BY <2>2, <2>3, <2>5, <2>6 DEF IInv
<1>8. CASE Calls(id) /\ id \notin idles /\ OnConnectTimeout
  <2>1. /\ UNCHANGED <<phase, alive, idleId, shutDown>>
        /\ connectId' = 0 /\ failures' = failures + 1 /\ reset' = TRUE
        /\ wait[id] = "expired" /\ failures \in Nat
    BY <1>8 DEF OnConnectTimeout, Calls, IInv, TypeOK
  <2>2. TypeOK'
    BY <1>1, <1>2, <1>5, <2>1 DEF IInv, TypeOK
  <2>3. IdsInv'
    BY <1>1, <1>2, <1>3, <2>1 DEF IInv, IdsInv
  <2>4. id = 1 /\ wait'[id] = "ran"
    BY <1>1, <1>8, <2>1 DEF IInv, IdsInv
  <2>5. NothingForgotten'
    <3>1. ASSUME NEW i \in Id, wait'[i] = "waiting", i \notin {connectId', idleId'},
                 ~shutDown', alive'
          PROVE FALSE
      <4>1. wait[i] = "waiting" /\ i # id
        BY <1>1, <1>3, <2>4, <3>1
      <4>2. i = connectId
        BY <4>1, <2>1, <3>1 DEF IInv, NothingForgotten
      <4>. QED BY <4>1, <4>2, <2>4, SchedulerAssumption DEF IInv, IdsInv, Id
    <3>. QED BY <3>1 DEF NothingForgotten
  <2>6. NotIdleYet'
    BY <1>1, <1>2, <1>3, <1>5, <2>1 DEF IInv, NotIdleYet
  <2>7. ~ConnectTimerRan /\ ConnectTimerRan'
    BY <1>2, <1>8, <2>1, <2>4 DEF ConnectTimerRan, IInv, IdsInv
  <2>8. FailuresInv'
    BY <2>1, <2>7 DEF IInv, FailuresInv
  <2>. QED BY <2>2, <2>3, <2>5, <2>6, <2>8 DEF IInv
<1>. QED BY <1>6, <1>7, <1>8 DEF RunTimer

LEMMA TimerExpiresStep == ASSUME IInv, NEW id \in Id, TimerExpires(id) PROVE IInv'
<1>1. /\ SchedulerTypeOK' /\ nextId' = nextId /\ due' = due
      /\ wait[id] = "waiting" /\ due[id] = 0 /\ wait'[id] = "expired"
      /\ \A i \in Id \ {id} : wait'[i] = wait[i]
  BY ExpireEffect DEF IInv, TypeOK, TimerExpires
<1>2. UNCHANGED <<phase, alive, reset, connectId, idleId, failures, shutDown,
                  idles, quiet, wasQuiet>>
  BY DEF TimerExpires, sessionVars, quietVars
<1>3. TypeOK'
  BY <1>1, <1>2 DEF IInv, TypeOK
<1>4. IdsInv'
  <2>1. \A i \in Id : wait'[i] # "none" => wait[i] # "none"
    BY <1>1
  <2>. QED BY <2>1, <1>1, <1>2 DEF IInv, IdsInv
<1>5. NothingForgotten'
  <2>1. \A i \in Id : wait'[i] = "waiting" => wait[i] = "waiting"
    BY <1>1
  <2>. QED BY <2>1, <1>2 DEF IInv, NothingForgotten
<1>6. NotIdleYet'
  <2>1. idles \subseteq Id /\ quiet \in 0 .. IdleTimeout /\ IdleTimeout \in Nat
    BY TimeoutAssumption DEF IInv, TypeOK
  <2>2. CASE id \in idles /\ ~wasQuiet
    <3>1. due[id] + quiet >= IdleTimeout /\ (quiet = IdleTimeout => wasQuiet)
      BY <1>1, <2>2 DEF IInv, NotIdleYet
    <3>. QED BY <1>1, <2>1, <2>2, <3>1
  <2>3. CASE id \notin idles \/ wasQuiet
    BY <1>1, <1>2, <2>1, <2>3 DEF IInv, NotIdleYet
  <2>. QED BY <2>2, <2>3
<1>7. ConnectTimerRan => ConnectTimerRan'
  BY <1>1, <1>2 DEF ConnectTimerRan
<1>8. FailuresInv'
  BY <1>2, <1>7 DEF IInv, FailuresInv
<1>. QED BY <1>3, <1>4, <1>5, <1>6, <1>8 DEF IInv

LEMMA TickStep == IInv /\ Tick => IInv'
<1> SUFFICES ASSUME IInv, Tick PROVE IInv'
  OBVIOUS
<1>1. /\ SchedulerTypeOK' /\ nextId' = nextId /\ wait' = wait
      /\ \A id \in Id : due'[id] = IF due[id] > 0 THEN due[id] - 1 ELSE 0
  BY TimePassesEffect DEF IInv, TypeOK, Tick
<1>2. UNCHANGED <<phase, alive, reset, connectId, idleId, failures, shutDown, idles>>
  BY DEF Tick, sessionVars
<1>3. /\ quiet \in 0 .. IdleTimeout /\ IdleTimeout \in Nat \ {0} /\ wasQuiet \in BOOLEAN
      /\ \A id \in Id : due[id] \in Nat
  BY TimeoutAssumption DEF IInv, TypeOK, SchedulerTypeOK
<1>4. /\ quiet' = IF phase = "connected" /\ quiet < IdleTimeout THEN quiet + 1 ELSE quiet
      /\ wasQuiet' = (wasQuiet \/ quiet' = IdleTimeout)
  BY DEF Tick
<1>5. TypeOK'
  <2>1. quiet' \in 0 .. IdleTimeout
    BY <1>3, <1>4
  <2>2. wasQuiet' \in BOOLEAN
    BY <1>4
  <2>. QED BY <1>1, <1>2, <2>1, <2>2 DEF IInv, TypeOK
<1>6. IdsInv' /\ NothingForgotten' /\ FailuresInv'
  BY <1>1, <1>2 DEF IInv, IdsInv, NothingForgotten, FailuresInv, ConnectTimerRan
<1>7. NotIdleYet'
  <2>1. ASSUME ~wasQuiet', NEW id \in idles, wait[id] = "waiting"
        PROVE due'[id] + quiet' >= IdleTimeout
    <3>1. id \in Id /\ phase = "connected" /\ due[id] + quiet >= IdleTimeout
      BY <1>4, <2>1 DEF IInv, TypeOK, NotIdleYet
    <3>2. due[id] \in Nat /\ due'[id] = IF due[id] > 0 THEN due[id] - 1 ELSE 0
      BY <3>1, <1>1, <1>3
    <3>3. quiet < IdleTimeout => quiet' = quiet + 1
      BY <3>1, <1>4
    <3>4. quiet # IdleTimeout
      BY <1>4, <2>1 DEF IInv, NotIdleYet
    <3>. QED BY <1>3, <3>1, <3>2, <3>3, <3>4
  <2>. QED BY <2>1, <1>1, <1>2, <1>4 DEF IInv, NotIdleYet
<1>. QED BY <1>5, <1>6, <1>7 DEF IInv

LEMMA StutterStep == IInv /\ UNCHANGED vars => IInv'
<1> SUFFICES ASSUME IInv, UNCHANGED vars PROVE IInv'
  OBVIOUS
<1>1. UNCHANGED <<nextId, timers, wait, due, phase, alive, reset, connectId, idleId,
                  failures, shutDown, idles, quiet, wasQuiet>>
  BY DEF vars, schedulerVars, sessionVars, quietVars
<1>2. TypeOK'
  BY <1>1 DEF IInv, TypeOK, SchedulerTypeOK
<1>3. IdsInv' /\ NotIdleYet'
  BY <1>1 DEF IInv, IdsInv, NotIdleYet
<1>4. NothingForgotten' /\ FailuresInv'
  BY <1>1 DEF IInv, NothingForgotten, FailuresInv, ConnectTimerRan
<1>. QED BY <1>2, <1>3, <1>4 DEF IInv

LEMMA NextIInv == IInv /\ [Next]_vars => IInv'
BY StartStep, ConnectFailsStep, ConnectSucceedsStep, ActivityStep, ForceCloseStep,
   DestroyStep, RunTimerStep, TimerExpiresStep, TickStep, StutterStep DEF Next

-----------------------------------------------------------------------------
(* The timers as Session.tla has them. *)

\* What the refinement needs besides: while it is connecting, the session has no idle
\* timer, and a connect timer that waits has the id that the session would cancel.
ModeInv ==
  /\ phase \in {"new", "connecting", "failed"} => idles = {}
  /\ 1 \notin idles
  /\ nextId > 1 /\ alive /\ wait[1] = "waiting" => connectId = 1

\* The slots, and the timers behind the two numbers.
ConnectSlot == IF nextId = 1 THEN "off" ELSE Shown(1)
IdleSlot    == IF idleId = 0 THEN "off" ELSE Shown(idleId)
Orphans     == Unnamed("waiting")
Stales      == Unnamed("expired")

LEMMA IdIsFinite == \A s \in SUBSET Id : IsFiniteSet(s) /\ Cardinality(s) \in Nat
<1>1. IsFiniteSet(Id)
  BY FS_Interval, SchedulerAssumption DEF Id
<1>. QED BY <1>1, FS_Subset, FS_CardinalityType

LEMMA IdsAre ==
  ASSUME IInv
  PROVE  /\ TypeOK /\ SchedulerTypeOK /\ idles \subseteq Id /\ MaxTimers \in Nat
         /\ nextId \in Nat /\ nextId >= 1 /\ 0 \notin Id /\ (nextId > 1 => 1 \in Id)
<1>1. TypeOK /\ SchedulerTypeOK /\ idles \subseteq Id
  BY DEF IInv, TypeOK
<1>2. nextId \in 1 .. MaxTimers + 1 /\ MaxTimers \in Nat
  BY <1>1, SchedulerAssumption DEF SchedulerTypeOK
<1>. QED BY <1>1, <1>2 DEF Id

LEMMA InitMode == Init => ModeInv
BY DEF Init, SchedulerInit, ModeInv

LEMMA StepMode == IInv /\ IInv' /\ ModeInv /\ [Next]_vars => ModeInv'
<1> SUFFICES ASSUME IInv, IInv', ModeInv, [Next]_vars PROVE ModeInv'
  OBVIOUS
<1>0. /\ SchedulerTypeOK /\ TypeOK /\ (nextId > 1 => 1 \in Id) /\ MaxTimers \in Nat
      /\ idles \subseteq Id
  BY IdsAre
<1>1. CASE Start
  <2>1. nextId = 1 /\ nextId' = 2 /\ connectId' = 1 /\ idles' = idles /\ phase = "new"
    BY <1>0, <1>1, ScheduleEffect, TimeoutAssumption DEF IInv, IdsInv, Start
  <2>. QED BY <1>1, <2>1 DEF ModeInv, Start
<1>2. CASE ConnectFails
  <2>1. wait' = Cancel({connectId}) /\ nextId' = nextId /\ idles' = idles /\ phase = "connecting"
        /\ alive' = alive
    BY <1>0, <1>2, CancelTimersEffect DEF ConnectFails
  <2>2. ~(nextId' > 1 /\ alive' /\ wait'[1] = "waiting")
    BY <1>0, <2>1, CancelEffect DEF ModeInv
  <2>. QED BY <2>1, <2>2 DEF ModeInv
<1>3. ASSUME NEW ids, ResetIdleTimer(ids), phase \in {"connecting", "connected"},
             phase' = "connected", connectId' = 0, connectId \in ids \cup {0}, alive' = alive
      PROVE  ModeInv'
  <2>1. Schedule(ids \cup {idleId}, IdleTimeout) /\ IdleTimeout \in Nat /\ nextId > 1
        /\ idles' = idles \cup {nextId}
    BY <1>3, TimeoutAssumption DEF ResetIdleTimer, ScheduleIdle, IInv, IdsInv
  <2>2. /\ nextId \in Id /\ nextId' = nextId + 1
        /\ \A id \in Id \ {nextId} : wait'[id] = Cancel(ids \cup {idleId})[id]
    BY <1>0, <2>1, ScheduleEffect
  <2>3. 1 # nextId /\ 1 \in Id
    BY <1>0, <2>1
  <2>4. wait'[1] = "waiting" => wait[1] = "waiting" /\ 1 \notin ids
    BY <1>0, <2>2, <2>3, CancelEffect
  <2>. QED BY <1>3, <2>1, <2>3, <2>4 DEF ModeInv
<1>4. CASE ConnectSucceeds
  BY <1>3, <1>4 DEF ConnectSucceeds
<1>5. CASE Activity
  <2>1. connectId = 0
    BY <1>5 DEF Activity, IInv, IdsInv
  <2>. QED BY <1>3, <1>5, <2>1 DEF Activity
<1>6. CASE ForceClose
  BY <1>6 DEF ForceClose, ModeInv, schedulerVars
<1>7. CASE Destroy
  BY <1>7 DEF Destroy, ModeInv
<1>8. ASSUME NEW id \in Id, RunTimer(id) PROVE ModeInv'
  <2>1. /\ nextId' = nextId /\ wait'[id] \in {"ran", "dropped"}
        /\ \A i \in Id \ {id} : wait'[i] = wait[i]
    BY <1>0, <1>8, RunHandlerEffect DEF RunTimer
  <2>2. idles' = idles /\ phase' = phase /\ alive' = alive
    BY <1>8 DEF RunTimer, sessionVars, OnIdleTimeout, OnConnectTimeout
  <2>3. id # 1 => connectId' = connectId
    BY <1>8 DEF RunTimer, sessionVars, OnIdleTimeout, OnConnectTimeout, Calls, IInv, IdsInv
  <2>. QED BY <1>0, <2>1, <2>2, <2>3 DEF ModeInv
<1>9. ASSUME NEW id \in Id, TimerExpires(id) PROVE ModeInv'
  <2>1. /\ nextId' = nextId /\ wait'[id] = "expired"
        /\ \A i \in Id \ {id} : wait'[i] = wait[i]
    BY <1>0, <1>9, ExpireEffect DEF TimerExpires
  <2>. QED BY <1>0, <1>9, <2>1 DEF TimerExpires, sessionVars, ModeInv
<1>10. CASE Tick
  BY <1>0, <1>10, TimePassesEffect DEF Tick, sessionVars, ModeInv
<1>11. CASE UNCHANGED vars
  BY <1>11 DEF vars, schedulerVars, sessionVars, ModeInv
<1>. QED BY <1>1, <1>2, <1>4, <1>5, <1>6, <1>7, <1>8, <1>9, <1>10, <1>11 DEF Next

\* Behind the slots: what no one but the scheduler knows of the idle timers.
LEMMA SlotsAre ==
  ASSUME IInv, ModeInv
  PROVE  /\ nextId > 1 => 1 \in Id
         /\ idleId # 0 => idleId \in idles /\ idleId \in Id /\ idleId # 1
         /\ Orphans \subseteq Id /\ Stales \subseteq Id
         /\ \A id \in idles : id \in Id /\ id # 1 /\ wait[id] \in WaitState
         /\ idles = {} => idleId = 0 /\ Orphans = {} /\ Stales = {}
<1>1. nextId > 1 => 1 \in Id
  BY IdsAre
<1>2. idles \subseteq Id /\ (idleId # 0 => idleId \in idles) /\ 1 \notin idles
  BY DEF IInv, TypeOK, IdsInv, ModeInv
<1>3. \A id \in idles : wait[id] \in WaitState
  BY <1>2, IdsAre DEF SchedulerTypeOK
<1>. QED BY <1>1, <1>2, <1>3 DEF Orphans, Stales, Unnamed

LEMMA InitSlots == Init => Slots!Init
<1> SUFFICES ASSUME Init PROVE Slots!Init
  OBVIOUS
<1>1. Unnamed("waiting") = {} /\ Unnamed("expired") = {}
  BY DEF Init, Unnamed
<1>. QED BY <1>1, FS_EmptySet DEF Init, SchedulerInit, Slots!Init

\* Handlers that leave the timers as they are
LEMMA SameSlots ==
  ASSUME nextId' = nextId, idleId' = idleId, idles' = idles, alive' = alive,
         IInv, ModeInv, NEW id \in Id,
         ~alive \/ (wait[id] \notin {"waiting", "expired"} /\ wait'[id] \notin {"waiting", "expired"}),
         \A i \in Id \ {id} : wait'[i] = wait[i]
  PROVE  UNCHANGED Slots!slots
<1>1. Shown(1)' = Shown(1) \/ nextId = 1
  <2>1. nextId > 1 \/ nextId = 1
    BY DEF IInv, IdsInv
  <2>. QED BY <2>1, SlotsAre DEF Shown
<1>2. Shown(idleId)' = Shown(idleId) \/ idleId = 0
  BY SlotsAre DEF Shown
<1>3. Unnamed("waiting")' = Unnamed("waiting") /\ Unnamed("expired")' = Unnamed("expired")
  <2>1. ASSUME NEW i \in idles, alive
        PROVE  /\ wait'[i] = "waiting" <=> wait[i] = "waiting"
               /\ wait'[i] = "expired" <=> wait[i] = "expired"
    BY <2>1, SlotsAre
  <2>. QED BY <2>1 DEF Unnamed
<1>. QED BY <1>1, <1>2, <1>3 DEF Slots!slots

LEMMA StartSlots == IInv /\ ModeInv /\ Start => Slots!ConnectStarts
<1> SUFFICES ASSUME IInv, ModeInv, Start PROVE Slots!ConnectStarts
  OBVIOUS
<1>1. /\ nextId = 1 /\ nextId' = 2 /\ wait'[1] = "waiting" /\ alive /\ alive' = alive
      /\ idles = {} /\ idles' = {} /\ idleId' = idleId
  BY ScheduleEffect, TimeoutAssumption DEF IInv, TypeOK, IdsInv, Start, ModeInv
<1>2. idleId = 0
  BY <1>1, SlotsAre
<1>3. Shown(1)' = "waiting"
  BY <1>1 DEF Shown
<1>4. Unnamed("waiting")' = Unnamed("waiting") /\ Unnamed("expired")' = Unnamed("expired")
  BY <1>1 DEF Unnamed
<1>. QED BY <1>1, <1>2, <1>3, <1>4 DEF Slots!ConnectStarts

LEMMA ConnectFailsSlots ==
  IInv /\ ModeInv /\ ConnectFails =>
    Slots!ConnectEnds /\ UNCHANGED <<IdleSlot, Cardinality(Orphans), Cardinality(Stales)>>
<1> SUFFICES ASSUME IInv, ModeInv, ConnectFails
             PROVE  Slots!ConnectEnds
                    /\ UNCHANGED <<IdleSlot, Cardinality(Orphans), Cardinality(Stales)>>
  OBVIOUS
<1>1. /\ phase = "connecting" /\ wait' = Cancel({connectId}) /\ nextId' = nextId
      /\ idles = {} /\ idles' = {} /\ idleId' = idleId /\ alive /\ alive' = alive
      /\ nextId > 1 /\ nextId' > 1 /\ SchedulerTypeOK
  BY CancelTimersEffect DEF IInv, TypeOK, IdsInv, ConnectFails, ModeInv
<1>2. idleId = 0 /\ 1 \in Id
  BY <1>1, SlotsAre
<1>3. Shown(1)' = IF Shown(1) = "waiting" THEN "off" ELSE Shown(1)
  <2>1. wait'[1] = IF wait[1] = "waiting" THEN "aborted" ELSE wait[1]
    BY <1>1, <1>2, CancelEffect DEF ModeInv
  <2>. QED BY <1>1, <2>1 DEF Shown
<1>4. Slots!ConnectEnds
  BY <1>1, <1>3 DEF Slots!ConnectEnds
<1>5. UNCHANGED <<IdleSlot, Orphans, Stales>>
  BY <1>1, <1>2 DEF IdleSlot, Orphans, Stales, Unnamed
<1>. QED BY <1>4, <1>5

\* resetIdleTimer(): the timer the session names is withdrawn, or has become stale.
LEMMA ResetSlots ==
  ASSUME IInv, ModeInv, NEW ids, ids \cap idles = {}, ResetIdleTimer(ids), nextId > 1, alive, alive'
  PROVE  /\ Slots!ResetIdle /\ nextId' > 1 /\ 1 \in Id
         /\ wait'[1] = Cancel(ids)[1]
<1>1. /\ Schedule(ids \cup {idleId}, IdleTimeout) /\ IdleTimeout \in Nat /\ SchedulerTypeOK
      /\ idleId' = nextId /\ idles' = idles \cup {nextId} /\ nextId \in Nat
  BY TimeoutAssumption DEF ResetIdleTimer, ScheduleIdle, IInv, TypeOK, SchedulerTypeOK
<1>2. /\ nextId \in Id /\ nextId' = nextId + 1 /\ wait[nextId] = "none"
      /\ wait'[nextId] = "waiting"
      /\ \A id \in Id \ {nextId} : wait'[id] = Cancel(ids \cup {idleId})[id]
  BY <1>1, ScheduleEffect
<1>3. /\ 1 \in Id /\ 1 # nextId /\ (idleId # 0 => idleId \in idles /\ idleId \in Id /\ idleId # 1)
      /\ nextId \notin idles /\ nextId # 0
  BY <1>1, SlotsAre DEF IInv, IdsInv
<1>4. wait'[1] = Cancel(ids)[1]
  BY <1>1, <1>2, <1>3, CancelEffect
<1>5. Shown(idleId)' = "waiting"
  BY <1>1, <1>2 DEF Shown
<1>6. \A id \in idles : wait'[id] = IF id = idleId /\ wait[id] = "waiting" THEN "aborted" ELSE wait[id]
  <2> SUFFICES ASSUME NEW id \in idles
               PROVE  wait'[id] = IF id = idleId /\ wait[id] = "waiting" THEN "aborted" ELSE wait[id]
    OBVIOUS
  <2>1. id \in Id \ {nextId} /\ id \notin ids
    BY <1>3, IdsAre
  <2>2. wait'[id] = Cancel(ids \cup {idleId})[id]
    BY <1>2, <2>1
  <2>3. /\ id = idleId /\ wait[id] = "waiting" => Cancel(ids \cup {idleId})[id] = "aborted"
        /\ ~(id = idleId /\ wait[id] = "waiting") => Cancel(ids \cup {idleId})[id] = wait[id]
    BY <1>1, <2>1, CancelEffect
  <2>. QED BY <2>2, <2>3
<1>7. /\ Orphans' = {id \in idles : wait'[id] = "waiting"}
      /\ Stales' = {id \in idles : wait'[id] = "expired"}
  BY <1>1, <1>3 DEF Orphans, Stales, Unnamed
<1>8. /\ Orphans = {id \in idles \ {idleId} : wait[id] = "waiting"}
      /\ Stales = {id \in idles \ {idleId} : wait[id] = "expired"}
  BY DEF Orphans, Stales, Unnamed
<1>9. Orphans' = Orphans
  BY <1>6, <1>7, <1>8
<1>10. ASSUME idleId # 0, wait[idleId] = "expired"
      PROVE  Stales' = Stales \cup {idleId} /\ idleId \notin Stales
  BY <1>3, <1>6, <1>7, <1>8, <1>10
<1>11. ASSUME ~(idleId # 0 /\ wait[idleId] = "expired") PROVE Stales' = Stales
  <2>1. \A id \in idles : id # 0
    BY IdsAre
  <2>. QED BY <1>6, <1>7, <1>8, <1>11, <2>1
<1>12. Cardinality(Stales)' = IF IdleSlot = "expired" THEN Cardinality(Stales) + 1 ELSE Cardinality(Stales)
  <2>1. IdleSlot = "expired" <=> (idleId # 0 /\ wait[idleId] = "expired")
    BY DEF IdleSlot, Shown
  <2>2. IsFiniteSet(Stales)
    BY SlotsAre, IdIsFinite
  <2>. QED BY <1>10, <1>11, <2>1, <2>2, FS_AddElement
<1>13. Slots!ResetIdle
  BY <1>1, <1>3, <1>5, <1>9, <1>12 DEF Slots!ResetIdle, Orphans, Stales, IdleSlot
<1>. QED BY <1>1, <1>2, <1>3, <1>4, <1>13

LEMMA ConnectSucceedsSlots ==
  IInv /\ ModeInv /\ ConnectSucceeds => Slots!ConnectEnds /\ Slots!ResetIdle
<1> SUFFICES ASSUME IInv, ModeInv, ConnectSucceeds PROVE Slots!ConnectEnds /\ Slots!ResetIdle
  OBVIOUS
<1>1. /\ ResetIdleTimer({connectId}) /\ phase = "connecting" /\ idles = {}
      /\ nextId > 1 /\ alive /\ alive' /\ SchedulerTypeOK
  BY DEF ConnectSucceeds, IInv, IdsInv, TypeOK, ModeInv
<1>2. Slots!ResetIdle /\ nextId' > 1 /\ 1 \in Id /\ wait'[1] = Cancel({connectId})[1]
  BY <1>1, ResetSlots
<1>3. wait'[1] = IF wait[1] = "waiting" THEN "aborted" ELSE wait[1]
  BY <1>1, <1>2, CancelEffect DEF ModeInv
<1>4. Shown(1)' = IF Shown(1) = "waiting" THEN "off" ELSE Shown(1)
  BY <1>1, <1>3 DEF Shown
<1>. QED BY <1>1, <1>2, <1>4 DEF Slots!ConnectEnds

LEMMA ActivitySlots ==
  IInv /\ ModeInv /\ Activity => Slots!ResetIdle /\ UNCHANGED ConnectSlot
<1> SUFFICES ASSUME IInv, ModeInv, Activity PROVE Slots!ResetIdle /\ UNCHANGED ConnectSlot
  OBVIOUS
<1>1. /\ ResetIdleTimer({}) /\ nextId > 1 /\ alive /\ alive' /\ SchedulerTypeOK
  BY DEF Activity, IInv, IdsInv, TypeOK
<1>2. Slots!ResetIdle /\ nextId' > 1 /\ 1 \in Id /\ wait'[1] = Cancel({})[1]
  BY <1>1, ResetSlots
<1>3. wait'[1] = wait[1]
  BY <1>1, <1>2, CancelEffect
<1>. QED BY <1>1, <1>2, <1>3 DEF ConnectSlot, Shown

LEMMA DestroySlots == Destroy => Slots!Dies
<1> SUFFICES ASSUME Destroy PROVE Slots!Dies
  OBVIOUS
<1>1. alive' = FALSE
  BY DEF Destroy
<1>2. Unnamed("waiting")' = {} /\ Unnamed("expired")' = {}
  BY <1>1 DEF Unnamed
<1>3. Shown(1)' = "off" /\ Shown(idleId)' = "off"
  BY <1>1 DEF Shown
<1>. QED BY <1>2, <1>3, FS_EmptySet DEF Slots!Dies

\* A callback is that of the slot, or that of a timer the session no longer names: then
\* the one it does name, if it waits, has become one more that it does not.
LEMMA RunTimerSlots ==
  ASSUME IInv, ModeInv, NEW id \in Id, RunTimer(id)
  PROVE  Slots!ConnectFires \/ Slots!IdleFires \/ UNCHANGED Slots!slots
<1>1. /\ nextId' = nextId /\ idles' = idles /\ alive' = alive
      /\ wait'[id] = IF wait[id] = "expired" THEN "ran" ELSE "dropped"
      /\ wait[id] \in {"expired", "aborted"}
      /\ \A i \in Id \ {id} : wait'[i] = wait[i]
  BY RunHandlerEffect DEF RunTimer, IInv, TypeOK, sessionVars, OnIdleTimeout, OnConnectTimeout
<1>2. /\ nextId > 1 => 1 \in Id
      /\ idleId # 0 => idleId \in idles /\ idleId \in Id /\ idleId # 1
      /\ \A i \in idles : i \in Id /\ i # 1
      /\ IsFiniteSet(Orphans) /\ IsFiniteSet(Stales)
      /\ Cardinality(Orphans) \in Nat /\ Cardinality(Stales) \in Nat
      /\ 0 \notin Id /\ nextId >= 1 /\ nextId \in Nat
  BY SlotsAre, IdIsFinite, IdsAre
<1>3. CASE ~Calls(id) /\ UNCHANGED sessionVars
  <2>1. idleId' = idleId /\ (~alive \/ wait[id] = "aborted")
    BY <1>1, <1>3 DEF sessionVars, Calls
  <2>2. ~alive \/ (wait[id] \notin {"waiting", "expired"} /\ wait'[id] \notin {"waiting", "expired"})
    BY <1>1, <2>1
  <2>. QED BY <1>1, <2>1, <2>2, SameSlots
<1>4. CASE Calls(id) /\ id \notin idles /\ OnConnectTimeout
  <2>1. /\ idleId' = idleId /\ alive /\ wait[id] = "expired" /\ wait'[id] = "ran"
        /\ id = 1 /\ nextId > 1
    BY <1>1, <1>2, <1>4 DEF Calls, OnConnectTimeout, IInv, IdsInv, TypeOK, SchedulerTypeOK
  <2>2. Shown(1) = "expired" /\ Shown(1)' = "off"
    BY <1>1, <2>1 DEF Shown
  <2>3. UNCHANGED <<IdleSlot, Orphans, Stales>>
    BY <1>1, <1>2, <2>1 DEF IdleSlot, Orphans, Stales, Unnamed, Shown
  <2>4. Slots!ConnectFires
    BY <1>1, <2>1, <2>2, <2>3 DEF Slots!ConnectFires, IdleSlot, Orphans, Stales
  <2>. QED BY <2>4
<1>5. CASE Calls(id) /\ id \in idles /\ OnIdleTimeout
  <2>1. idleId' = 0 /\ alive /\ wait[id] = "expired" /\ wait'[id] = "ran" /\ id # 1
    BY <1>1, <1>2, <1>5 DEF Calls, OnIdleTimeout
  <2>2. UNCHANGED ConnectSlot /\ IdleSlot' = "off"
    BY <1>1, <1>2, <2>1 DEF ConnectSlot, IdleSlot, Shown
  <2>3. CASE id = idleId
    <3>1. IdleSlot = "expired"
      BY <1>2, <2>1, <2>3 DEF IdleSlot, Shown
    <3>2. UNCHANGED <<Orphans, Stales>>
      BY <1>1, <1>2, <2>1, <2>3 DEF Orphans, Stales, Unnamed
    <3>3. Slots!IdleFires
      BY <2>2, <3>1, <3>2 DEF Slots!IdleFires, ConnectSlot, IdleSlot, Orphans, Stales
    <3>. QED BY <3>3
  <2>4. CASE id # idleId
    <3>1. id \in Stales
      BY <1>5, <2>1, <2>4 DEF Stales, Unnamed
    <3>2. /\ IdleSlot = "waiting" <=> (idleId # 0 /\ wait[idleId] = "waiting")
          /\ IdleSlot = "expired" <=> (idleId # 0 /\ wait[idleId] = "expired")
          /\ IdleSlot # "waiting" \/ IdleSlot # "expired"
      BY <2>1 DEF IdleSlot, Shown
    <3>3. /\ Orphans' = IF IdleSlot = "waiting" THEN Orphans \cup {idleId} ELSE Orphans
          /\ idleId \notin Orphans /\ idleId \notin Stales
          /\ Stales' = IF IdleSlot = "expired" THEN (Stales \ {id}) \cup {idleId} ELSE Stales \ {id}
      <4>1. \A i \in idles : wait'[i] = IF i = id THEN "ran" ELSE wait[i]
        BY <1>1, <1>2, <2>1
      <4>2. \A i \in idles : i # 0
        BY <1>2
      <4>3. idleId = 0 \/ (idleId \in idles /\ idleId # id)
        BY <1>2, <2>4
      <4>. QED BY <1>1, <1>5, <2>1, <2>4, <3>2, <4>1, <4>2, <4>3 DEF Orphans, Stales, Unnamed
    <3>4. /\ Cardinality(Stales \ {id}) = Cardinality(Stales) - 1 /\ Cardinality(Stales) > 0
          /\ IsFiniteSet(Stales \ {id})
      <4>1. Cardinality(Stales) # 0
        BY <1>2, <3>1, FS_EmptySet
      <4>. QED BY <1>2, <3>1, <4>1, FS_RemoveElement
    <3>5. /\ Cardinality((Stales \ {id}) \cup {idleId}) = Cardinality(Stales)
          /\ Cardinality(Orphans \cup {idleId}) = Cardinality(Orphans) + 1
      <4>1. idleId \notin Stales \ {id}
        BY <3>3
      <4>2. Cardinality((Stales \ {id}) \cup {idleId}) = Cardinality(Stales \ {id}) + 1
        BY <3>4, <4>1, FS_AddElement
      <4>3. Cardinality(Orphans \cup {idleId}) = Cardinality(Orphans) + 1
        BY <1>2, <3>3, FS_AddElement
      <4>. QED BY <1>2, <3>4, <4>2, <4>3
    <3>6. /\ Cardinality(Stales)' = IF IdleSlot = "expired" THEN Cardinality(Stales)
                                                           ELSE Cardinality(Stales) - 1
          /\ Cardinality(Orphans)' = IF IdleSlot = "waiting" THEN Cardinality(Orphans) + 1
                                                            ELSE Cardinality(Orphans)
      BY <3>3, <3>4, <3>5
    <3>7. Slots!IdleFires
      BY <2>2, <3>4, <3>6 DEF Slots!IdleFires, ConnectSlot, IdleSlot, Orphans, Stales
    <3>. QED BY <3>7
  <2>. QED BY <2>3, <2>4
<1>. QED BY <1>3, <1>4, <1>5 DEF RunTimer

LEMMA TimerExpiresSlots ==
  ASSUME IInv, ModeInv, NEW id \in Id, TimerExpires(id)
  PROVE  Slots!Expires \/ UNCHANGED Slots!slots
<1>1. /\ nextId' = nextId /\ idles' = idles /\ alive' = alive /\ idleId' = idleId
      /\ wait[id] = "waiting" /\ wait'[id] = "expired"
      /\ \A i \in Id \ {id} : wait'[i] = wait[i]
  BY ExpireEffect DEF TimerExpires, IInv, TypeOK, sessionVars
<1>2. /\ nextId > 1 => 1 \in Id
      /\ idleId # 0 => idleId \in idles /\ idleId \in Id /\ idleId # 1
      /\ \A i \in idles : i \in Id /\ i # 1
      /\ IsFiniteSet(Orphans) /\ IsFiniteSet(Stales)
      /\ Cardinality(Orphans) \in Nat /\ Cardinality(Stales) \in Nat
      /\ nextId >= 1 /\ nextId \in Nat /\ 0 \notin Id
  BY SlotsAre, IdIsFinite, IdsAre
<1>3. CASE ~alive
  BY <1>1, <1>3, SameSlots
<1>4. CASE alive /\ id = 1
  <2>1. nextId # 1
    BY <1>1, <1>2, <1>4 DEF IInv, TypeOK, SchedulerTypeOK
  <2>2. Shown(1) = "waiting" /\ Shown(1)' = "expired"
    BY <1>1, <1>4 DEF Shown
  <2>3. UNCHANGED <<IdleSlot, Orphans, Stales>>
    BY <1>1, <1>2, <1>4 DEF IdleSlot, Orphans, Stales, Unnamed, Shown
  <2>4. Slots!Expires
    BY <1>1, <2>1, <2>2, <2>3 DEF Slots!Expires, IdleSlot, Orphans, Stales
  <2>. QED BY <2>4
<1>5. CASE alive /\ id = idleId
  <2>1. IdleSlot = "waiting" /\ IdleSlot' = "expired" /\ UNCHANGED ConnectSlot
    BY <1>1, <1>2, <1>5 DEF IdleSlot, ConnectSlot, Shown
  <2>2. UNCHANGED <<Orphans, Stales>>
    BY <1>1, <1>2, <1>5 DEF Orphans, Stales, Unnamed
  <2>3. Slots!Expires
    BY <2>1, <2>2 DEF Slots!Expires, ConnectSlot, IdleSlot, Orphans, Stales
  <2>. QED BY <2>3
<1>6. CASE alive /\ id \notin {1, idleId}
  <2>1. id \in idles
    BY <1>1, <1>6 DEF IInv, IdsInv
  <2>2. /\ id \in Orphans /\ Orphans' = Orphans \ {id}
        /\ id \notin Stales /\ Stales' = Stales \cup {id}
    BY <1>1, <1>2, <1>6, <2>1 DEF Orphans, Stales, Unnamed
  <2>3. UNCHANGED <<ConnectSlot, IdleSlot>>
    BY <1>1, <1>2, <1>6 DEF ConnectSlot, IdleSlot, Shown
  <2>4. /\ Cardinality(Orphans) > 0 /\ Cardinality(Orphans)' = Cardinality(Orphans) - 1
        /\ Cardinality(Stales)' = Cardinality(Stales) + 1
    <3>1. Cardinality(Orphans) # 0
      BY <1>2, <2>2, FS_EmptySet
    <3>2. Cardinality(Orphans \ {id}) = Cardinality(Orphans) - 1
      BY <1>2, <2>2, FS_RemoveElement
    <3>3. Cardinality(Stales \cup {id}) = Cardinality(Stales) + 1
      BY <1>2, <2>2, FS_AddElement
    <3>. QED BY <1>2, <2>2, <3>1, <3>2, <3>3
  <2>5. Slots!Expires
    BY <2>3, <2>4 DEF Slots!Expires, ConnectSlot, IdleSlot, Orphans, Stales
  <2>. QED BY <2>5
<1>. QED BY <1>3, <1>4, <1>5, <1>6

\* What the clock, forceClose() and stuttering leave alone
LEMMA QuietSlots ==
  UNCHANGED <<nextId, wait, alive, idleId, idles>> => UNCHANGED Slots!slots
BY DEF Slots!slots, Shown, Unnamed

LEMMA NextSlots == IInv /\ ModeInv /\ [Next]_vars => [Slots!Next]_Slots!slots
<1> SUFFICES ASSUME IInv, ModeInv, [Next]_vars PROVE Slots!Next \/ UNCHANGED Slots!slots
  OBVIOUS
<1>1. CASE Start
  BY <1>1, StartSlots DEF Slots!Next
<1>2. CASE ConnectFails
  BY <1>2, ConnectFailsSlots DEF Slots!Next, IdleSlot, Orphans, Stales
<1>3. CASE ConnectSucceeds
  BY <1>3, ConnectSucceedsSlots DEF Slots!Next
<1>4. CASE Activity
  BY <1>4, ActivitySlots DEF Slots!Next, ConnectSlot
<1>5. CASE ForceClose
  BY <1>5, QuietSlots DEF ForceClose, schedulerVars
<1>6. CASE Destroy
  BY <1>6, DestroySlots DEF Slots!Next
<1>7. ASSUME NEW id \in Id, RunTimer(id) PROVE Slots!Next \/ UNCHANGED Slots!slots
  BY <1>7, RunTimerSlots DEF Slots!Next
<1>8. ASSUME NEW id \in Id, TimerExpires(id) PROVE Slots!Next \/ UNCHANGED Slots!slots
  BY <1>8, TimerExpiresSlots DEF Slots!Next
<1>9. CASE Tick
  BY <1>9, QuietSlots DEF Tick, TimePasses, sessionVars
<1>10. CASE UNCHANGED vars
  BY <1>10, QuietSlots DEF vars, schedulerVars, sessionVars
<1>. QED BY <1>1, <1>2, <1>3, <1>4, <1>5, <1>6, <1>7, <1>8, <1>9, <1>10 DEF Next

-----------------------------------------------------------------------------
(* The theorems. *)

\* Session and Scheduler agree on the timers after every handler, on time or late.
THEOREM Invariance == Spec => []IInv
BY InitIInv, NextIInv, PTL DEF Spec

\* The map has every timer that waits and none that was cancelled or has run, and an
\* id is given out once (Scheduler.cpp:5-27, 29-47).
THEOREM TypeCorrect == Spec => []TypeOK
<1>1. IInv => TypeOK
  BY DEF IInv
<1>. QED BY <1>1, Invariance, PTL

\* onIdleTimeout() runs only in a session that was idle for the whole of idleTimeout,
\* however its activity and the late callbacks interleave (Session.cpp:547-579).
THEOREM ShutDownMeansIdle == Spec => []IdleMeansIdle
<1>1. IInv => IdleMeansIdle
  BY DEF IInv, NotIdleYet, IdleMeansIdle
<1>. QED BY <1>1, Invariance, PTL

\* No timer that waits is out of the session's reach, unless an idle timer's callback
\* came late (Session.cpp:45-50, 532, 549, 567).
THEOREM NoneForgotten == Spec => []NothingForgotten
<1>1. IInv => NothingForgotten
  BY DEF IInv
<1>. QED BY <1>1, Invariance, PTL

\* A failed connect is counted twice only after a connect timer that expired before the
\* connect's own handler ran (Session.cpp:97-103, 559-564).
THEOREM FailuresCounted == Spec => []FailuresExplained
<1>1. IInv => FailuresExplained
  BY DEF IInv, FailuresInv, ConnectTimerRan, FailuresExplained
<1>. QED BY <1>1, Invariance, PTL

\* For any number of timers and any timeouts, ids, map and queued handlers come down to
\* the slots and numbers that Session.tla has (Session.cpp:62-119, 531-581,
\* Scheduler.cpp:5-47): each handler is a step of TimerSlots, or none of its slots
\* changes.
THEOREM TimersAreSlots == Spec => AsInSession
<1>1. IInv /\ IInv' /\ ModeInv /\ [Next]_vars => ModeInv'
  BY StepMode
<1>. QED BY <1>1, Invariance, InitMode, InitSlots, NextSlots, PTL DEF Spec, AsInSession, Slots!Spec
==============================================================================
