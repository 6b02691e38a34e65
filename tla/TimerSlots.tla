------------------------------ MODULE TimerSlots ------------------------------
(***************************************************************************)
(* What Session.tla assumes of the Scheduler: abstractly, a session has two *)
(* timers that are off, waiting or expired, and idle timers it has replaced *)
(* too late (stale) or forgotten (orphans).                                 *)
(***************************************************************************)
EXTENDS Naturals

VARIABLES connectTimer, idleTimer, orphanIdle, staleIdle

slots == <<connectTimer, idleTimer, orphanIdle, staleIdle>>

Init == connectTimer = "off" /\ idleTimer = "off" /\ orphanIdle = 0 /\ staleIdle = 0

ConnectStarts ==
  /\ connectTimer = "off" /\ connectTimer' = "waiting"
  /\ UNCHANGED <<idleTimer, orphanIdle, staleIdle>>

\* A connect that ends cancels its timer, unless that has expired.
ConnectEnds == connectTimer' = IF connectTimer = "waiting" THEN "off" ELSE connectTimer

ResetIdle ==
  /\ idleTimer' = "waiting"
  /\ staleIdle' = IF idleTimer = "expired" THEN staleIdle + 1 ELSE staleIdle
  /\ UNCHANGED orphanIdle

\* The next three have the form they have in Session.tla.
Expires ==
  \/ connectTimer = "waiting" /\ connectTimer' = "expired"
     /\ UNCHANGED <<idleTimer, orphanIdle, staleIdle>>
  \/ idleTimer = "waiting" /\ idleTimer' = "expired"
     /\ UNCHANGED <<connectTimer, orphanIdle, staleIdle>>
  \/ /\ orphanIdle > 0 /\ orphanIdle' = orphanIdle - 1 /\ staleIdle' = staleIdle + 1
     /\ UNCHANGED <<connectTimer, idleTimer>>

ConnectFires ==
  /\ connectTimer = "expired" /\ connectTimer' = "off"
  /\ UNCHANGED <<idleTimer, orphanIdle, staleIdle>>

IdleFires ==
  /\ idleTimer' = "off"
  /\ \/ idleTimer = "expired" /\ UNCHANGED <<orphanIdle, staleIdle>>
     \/ /\ staleIdle > 0
        /\ staleIdle'  = IF idleTimer = "expired" THEN staleIdle ELSE staleIdle - 1
        /\ orphanIdle' = IF idleTimer = "waiting" THEN orphanIdle + 1 ELSE orphanIdle
  /\ UNCHANGED connectTimer

\* The session is destroyed: no callback finds it.
Dies ==
  /\ connectTimer' = "off" /\ idleTimer' = "off" /\ orphanIdle' = 0 /\ staleIdle' = 0

Next ==
  \/ ConnectStarts
  \/ ConnectEnds /\ (ResetIdle \/ UNCHANGED <<idleTimer, orphanIdle, staleIdle>>)
  \/ ResetIdle /\ UNCHANGED connectTimer
  \/ Expires \/ ConnectFires \/ IdleFires \/ Dies

Spec == Init /\ [][Next]_slots
==============================================================================
