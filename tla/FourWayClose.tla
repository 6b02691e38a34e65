----------------------------- MODULE FourWayClose -----------------------------
(***************************************************************************)
(* What a session promises about its life: four half connections that close *)
(* one by one or together and never reopen, and a session that stays with  *)
(* its manager exactly as long as one of them is open ("Session state for  *)
(* 4-way half-close tracking", src/include/shakyline/Session.hpp:19).       *)
(***************************************************************************)
EXTENDS Naturals

CONSTANT Channels

VARIABLES
  open,    \* the half connections still open
  listed   \* the manager knows the session

vars == <<open, listed>>

Init == open = Channels /\ listed = TRUE

\* Some half connections close; with the last one the manager forgets the session.
Close ==
  \E S \in (SUBSET open) \ {{}} :
    /\ open' = open \ S
    /\ listed' = (open' # {})

Next == Close

Spec == Init /\ [][Next]_vars
==============================================================================
