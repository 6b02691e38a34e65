------------------------------ MODULE Scheduler ------------------------------
(***************************************************************************)
(* The timers of the process (src/src/Scheduler.cpp): a map from ids to     *)
(* asio timers and, for each timer, one async_wait.  Every caller is on the *)
(* event loop's thread, so that an operation is one step of its caller; the *)
(* handler of a timer is queued when it expires and runs later.  A cancel   *)
(* that comes in between takes the timer out of the map and leaves the      *)
(* queued handler as it is: asio aborts waiting operations only.            *)
(***************************************************************************)
EXTENDS Naturals

CONSTANT MaxTimers   \* bound: timers scheduled
ASSUME SchedulerAssumption == MaxTimers \in Nat

Id == 1 .. MaxTimers

VARIABLES
  nextId,   \* nextId_
  timers,   \* the keys of timers_
  wait,     \* the async_wait of each timer
  due       \* ticks until the timer expires

schedulerVars == <<nextId, timers, wait, due>>

WaitState == {"none", "waiting", "expired", "aborted", "ran", "dropped"}

SchedulerInit ==
  /\ nextId = 1 /\ timers = {}
  /\ wait = [id \in Id |-> "none"] /\ due = [id \in Id |-> 0]

-----------------------------------------------------------------------------

\* cancel() of the ids, of which those no longer in the map do nothing
CancelExpired(ids) ==   \* mutant: as if cancel() withdrew a queued handler
  [id \in Id |-> IF id \in ids \cap timers /\ wait[id] \in {"waiting", "expired"}
                   THEN "aborted" ELSE wait[id]]
CancelNothing(ids) == wait   \* mutant: erased from the map, not cancelled
Cancel(ids) ==
  [id \in Id |-> IF id \in ids \cap timers /\ wait[id] = "waiting"
                   THEN "aborted" ELSE wait[id]]

\* The timers a handler leaves: it cancels some, and may schedule one after that.
CancelTimers(ids) ==
  /\ wait' = Cancel(ids) /\ timers' = timers \ ids
  /\ UNCHANGED <<nextId, due>>

Schedule(ids, delay) ==
  /\ nextId \in Id /\ nextId' = nextId + 1
  /\ wait' = [Cancel(ids) EXCEPT ![nextId] = "waiting"]
  /\ timers' = (timers \ ids) \cup {nextId}
  /\ due' = [due EXCEPT ![nextId] = delay]

Expire(id) ==
  /\ wait[id] = "waiting" /\ due[id] = 0
  /\ wait' = [wait EXCEPT ![id] = "expired"]
  /\ UNCHANGED <<nextId, timers, due>>

EraseAborted(id) ==   \* mutant: a handler that runs its callback leaves the entry
  IF wait[id] = "aborted" THEN timers \ {id} ELSE timers
EraseTimer(id) == timers \ {id}

\* The handler of async_wait; the callback, which an aborted wait drops, is the
\* caller's.
RunHandler(id) ==
  /\ wait[id] \in {"expired", "aborted"}
  /\ wait' = [wait EXCEPT ![id] = IF @ = "expired" THEN "ran" ELSE "dropped"]
  /\ timers' = EraseTimer(id)
  /\ UNCHANGED <<nextId, due>>

TimePasses ==
  /\ due' = [id \in Id |-> IF due[id] > 0 THEN due[id] - 1 ELSE 0]
  /\ UNCHANGED <<nextId, timers, wait>>

-----------------------------------------------------------------------------

\* Types; an id that was never given out is in no use, a timer that waits can be
\* found in the map, and one that was cancelled or has run cannot.
SchedulerTypeOK ==
  /\ nextId \in 1 .. MaxTimers + 1 /\ timers \in SUBSET Id
  /\ wait \in [Id -> WaitState] /\ due \in [Id -> Nat]
  /\ \A id \in Id :
       /\ id >= nextId <=> wait[id] = "none"
       /\ wait[id] = "waiting" => id \in timers
       /\ wait[id] \in {"none", "aborted", "ran", "dropped"} => id \notin timers
==============================================================================
