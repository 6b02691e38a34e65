------------------------------- MODULE Control -------------------------------
(***************************************************************************)
(* Profiles at run time: what the control server's thread stores for a      *)
(* request (ControlServer.cpp:118-243, Config.cpp) and what the sessions on *)
(* the event loop's thread go on using from their start (Session.cpp:62-65). *)
(*                                                                         *)
(* A knob is one number of a profile.  Latency and drop rate have a key for *)
(* each direction and a convenience key for both; the others only the       *)
(* former.  A key that is absent reads as zero.  A rate is a float, counted *)
(* here in steps of a roll's resolution, and can be no number; the others   *)
(* are words of 32 bits.                                                    *)
(***************************************************************************)
EXTENDS Integers, FiniteSetsExt

CONSTANTS
  Knob, Convenient,   \* the knobs, and those with a convenience key
  NaN,                \* what std::stof makes of "nan"
  HalfWord,           \* 2^31
  KnobLimit,          \* ConfigLimits: MAX_LATENCY_MS, MAX_RATE, ...
  Bodies,             \* what clients post
  Name,               \* profile names
  Session,            \* bound: the sessions
  UpdateLimit,        \* CONFIG_UPDATE_RATE_LIMIT
  Second,             \* ticks in a second
  LastVersion         \* bound: profiles stored

Dir == {"c2s", "s2c"}
Word == 2 * HalfWord
RateKnob == {"drop", "halfClose", "stall", "corrupt"}

\* The numbers of a body; any other text makes parsing it throw.
Body == {b \in [Dir \cup {"both"} -> [Knob -> Int \cup {NaN}]] :
           \A key \in Dir \cup {"both"}, k \in Knob : b[key][k] = NaN => k \in RateKnob}
Window == 0 .. Second - 1

ASSUME ControlAssumption ==
  /\ NaN \notin Int /\ HalfWord \in Nat \ {0}
  /\ Convenient \subseteq Knob /\ KnobLimit \in [Knob -> Nat] /\ Bodies \subseteq Body
  /\ "default" \in Name /\ LastVersion \in Nat
  /\ UpdateLimit \in Nat \ {0} /\ Second \in Nat \ {0}

VARIABLES
  profiles,      \* profiles_; no entry reads as one without faults
  nextVersion,
  sinceUpdate,   \* ticks since lastUpdate_, up to a second
  updateCount,
  started, current,   \* the sessions started, and the currentProfile_ of each
  recent         \* history: updates let through, by age in ticks

rateVars    == <<sinceUpdate, updateCount, recent>>
storeVars   == <<profiles, nextVersion>>
sessionVars == <<started, current>>
vars == <<rateVars, storeVars, sessionVars>>

Profile == [knobs : [Dir -> [Knob -> Nat \cup {NaN}]], version : Nat]
NoKnobs == [k \in Knob |-> 0]
NoFaults == [knobs |-> [d \in Dir |-> NoKnobs], version |-> 0]

\* lastUpdate_ is the clock's epoch, long ago.
Init ==
  /\ profiles = [n \in Name |-> NoFaults] /\ nextVersion = 1
  /\ sinceUpdate = Second /\ updateCount = 0 /\ recent = [age \in Window |-> 0]
  /\ started = {} /\ current = [s \in Session |-> NoFaults]

-----------------------------------------------------------------------------
(* The rate limit. *)

AtMost(n, limit) == IF n < limit THEN n ELSE limit

Recorded == recent' = [recent EXCEPT ![0] = @ + 1]

CheckRateLimitFromZero ==   \* mutant: the update that opens the window is not counted
  /\ \/ sinceUpdate >= Second /\ sinceUpdate' = 0 /\ updateCount' = 0
     \/ /\ sinceUpdate < Second /\ updateCount < UpdateLimit
        /\ updateCount' = updateCount + 1 /\ UNCHANGED sinceUpdate
  /\ Recorded
\* checkRateLimit() returning true
CheckRateLimit ==
  /\ \/ sinceUpdate >= Second /\ sinceUpdate' = 0 /\ updateCount' = 1
     \/ /\ sinceUpdate < Second /\ updateCount < UpdateLimit
        /\ updateCount' = updateCount + 1 /\ UNCHANGED sinceUpdate
  /\ Recorded

Tick ==
  /\ sinceUpdate' = AtMost(sinceUpdate + 1, Second)
  /\ recent' = [age \in Window |-> IF age = 0 THEN 0 ELSE recent[age - 1]]
  /\ UNCHANGED <<updateCount, storeVars, sessionVars>>

-----------------------------------------------------------------------------
(* Requests. *)

\* parseFloat, and parseUint, which narrows what std::stoul made of the text, be it
\* negative or too large for a word.
Read(k, n) == IF k \in RateKnob THEN n ELSE n % Word

\* handlePostProfile: the convenience key is read when the c2s one is zero, and
\* then it is the value of both directions.
Parsed(body) ==
  [d \in Dir |-> [k \in Knob |->
     Read(k, IF k \in Convenient /\ Read(k, body["c2s"][k]) = 0 THEN body["both"][k]
                                                               ELSE body[d][k])]]

\* std::min and std::clamp; NaN is neither below nor above any bound.
Clamp(n, limit) == IF n = NaN THEN NaN ELSE IF n < 0 THEN 0 ELSE AtMost(n, limit)

ValidateC2S(knobs) ==   \* mutant: one direction only
  [knobs EXCEPT !["c2s"] = [k \in Knob |-> Clamp(@[k], KnobLimit[k])]]
Validate(knobs) == [d \in Dir |-> [k \in Knob |-> Clamp(knobs[d][k], KnobLimit[k])]]

SameVersion == UNCHANGED nextVersion   \* mutant: load() for fetch_add()
NewVersion == nextVersion' = nextVersion + 1

\* setProfile, under its lock
SetProfile(name, knobs) ==
  /\ profiles' = [profiles EXCEPT ![name] = [knobs |-> Validate(knobs), version |-> nextVersion]]
  /\ NewVersion

PostProfile(name, body) ==
  /\ nextVersion <= LastVersion
  /\ CheckRateLimit
  /\ SetProfile(name, Parsed(body))
  /\ UNCHANGED sessionVars

\* A body that does not parse, or a path that is no profile's, has used up its
\* place in the window.
RejectUpdate == CheckRateLimit /\ UNCHANGED <<storeVars, sessionVars>>

DeleteProfile(name) ==
  /\ CheckRateLimit
  /\ profiles' = [profiles EXCEPT ![name] = NoFaults]
  /\ UNCHANGED <<nextVersion, sessionVars>>

-----------------------------------------------------------------------------
(* Sessions. *)

\* Session::start, which reads the profile, once: every packet of the session is
\* decided with this copy.
Start(s) ==
  /\ s \notin started /\ started' = started \cup {s}
  /\ current' = [current EXCEPT ![s] = profiles["default"]]
  /\ UNCHANGED <<rateVars, storeVars>>

-----------------------------------------------------------------------------

Next ==
  \/ \E name \in Name, body \in Bodies : PostProfile(name, body)
  \/ \E name \in Name : DeleteProfile(name)
  \/ RejectUpdate
  \/ Tick
  \/ \E s \in Session : Start(s)

Spec == Init /\ [][Next]_vars

-----------------------------------------------------------------------------
(* Properties. *)

\* Types; updateCount_ stays within CONFIG_UPDATE_RATE_LIMIT although
\* checkRateLimit() starts a window at one.
TypeOK ==
  /\ profiles \in [Name -> Profile] /\ nextVersion \in Nat
  /\ sinceUpdate \in 0..Second /\ updateCount \in 0..UpdateLimit
  /\ recent \in [Window -> Nat]
  /\ started \in SUBSET Session /\ current \in [Session -> Profile]

InUse == {profiles[n] : n \in Name} \cup {current[s] : s \in Session}

\* DelayQueue.hpp:11 "profile version binding": a version stands for one profile,
\* among all that are stored or that a session goes on using after they are
\* replaced or deleted.
VersionIdentifiesProfile == \A p, o \in InUse : p.version = o.version => p = o

\* validate() bounds what a session can be given, in both directions and from both
\* sides, unless it is a rate that is no number.
KnobOK(k, n) == n \in 0 .. KnobLimit[k] \/ (n = NaN /\ k \in RateKnob)
WithinLimits == \A p \in InUse, d \in Dir, k \in Knob : KnobOK(k, p.knobs[d][k])

\* A window opens with an update, so that two of them share a second with one
\* update less than two windows hold.
OfAge(age) == recent[age]
UpdatesInASecond == MapThenSumSet(OfAge, Window)
UpdatesBounded == UpdatesInASecond <= 2 * UpdateLimit - 1
==============================================================================
