---------------------------- MODULE ControlProofs ----------------------------
(***************************************************************************)
(* Proofs about Control for any knobs, limits, bodies, names and sessions:  *)
(* a version stands for one profile and every profile is within the limits; *)
(* and about the engine that decides with these profiles, for any number of *)
(* packets: no two draws are the same, its arithmetic is what a profile     *)
(* says, and it decides by the profile of the start; and about the rate     *)
(* limit, for any limit and any number of ticks in a second: how many       *)
(* updates can fall into one.                                               *)
(***************************************************************************)
EXTENDS Faults, FiniteSetTheorems, Sums, TLAPS

StoreTypeOK ==
  /\ profiles \in [Name -> Profile] /\ nextVersion \in Nat

RateTypeOK ==
  sinceUpdate \in 0..Second /\ updateCount \in 0..UpdateLimit /\ recent \in [Window -> Nat]

SessionTypeOK ==
  /\ started \in SUBSET Session /\ current \in [Session -> Profile]

\* Version 0 is the profile of who finds none; every other one has been given out.
VersionsGivenOut ==
  /\ nextVersion > 0
  /\ \A p \in InUse : p.version < nextVersion /\ (p.version = 0 => p = NoFaults)

IInv == /\ StoreTypeOK /\ RateTypeOK /\ SessionTypeOK
        /\ VersionsGivenOut /\ VersionIdentifiesProfile /\ WithinLimits

-----------------------------------------------------------------------------
(* Profiles. *)

\* Profiles as clients may post them: a number or none for a rate, a word for others.
Unchecked == [Dir -> [Knob -> Int \cup {NaN}]]
OnlyRatesNaN(knobs) == \A d \in Dir, k \in Knob : knobs[d][k] = NaN => k \in RateKnob

LEMMA NoFaultsIsAProfile ==
  /\ NoFaults \in Profile /\ NoFaults.version = 0
  /\ \A d \in Dir, k \in Knob : KnobOK(k, NoFaults.knobs[d][k])
<1>1. \A k \in Knob : KnobLimit[k] \in Nat
  BY ControlAssumption
<1>2. \A d \in Dir, k \in Knob : NoFaults.knobs[d][k] = 0
  BY DEF NoFaults, NoKnobs
<1>3. \A d \in Dir, k \in Knob : KnobOK(k, NoFaults.knobs[d][k])
  BY <1>1, <1>2 DEF KnobOK
<1>4. NoFaults \in Profile /\ NoFaults.version = 0
  BY DEF NoFaults, NoKnobs, Profile
<1>. QED BY <1>3, <1>4

LEMMA ValidateEffect ==
  ASSUME NEW knobs \in Unchecked, OnlyRatesNaN(knobs)
  PROVE  /\ Validate(knobs) \in [Dir -> [Knob -> Nat \cup {NaN}]]
         /\ \A d \in Dir, k \in Knob : KnobOK(k, Validate(knobs)[d][k])
<1>1. ASSUME NEW d \in Dir, NEW k \in Knob
      PROVE  /\ Clamp(knobs[d][k], KnobLimit[k]) \in Nat \cup {NaN}
             /\ KnobOK(k, Clamp(knobs[d][k], KnobLimit[k]))
  <2>1. KnobLimit[k] \in Nat
    BY ControlAssumption
  <2>2. CASE knobs[d][k] = NaN
    BY <2>2 DEF OnlyRatesNaN, Clamp, KnobOK
  <2>3. CASE knobs[d][k] # NaN
    <3>1. knobs[d][k] \in Int
      BY <2>3 DEF Unchecked
    <3>2. Clamp(knobs[d][k], KnobLimit[k]) \in 0 .. KnobLimit[k]
      BY <2>1, <2>3, <3>1 DEF Clamp, AtMost
    <3>. QED BY <2>1, <3>2 DEF KnobOK
  <2>. QED BY <2>2, <2>3
<1>. QED BY <1>1 DEF Validate

\* What is read of a body, narrowed to words or not.
LEMMA ParsedType == \A body \in Body : Parsed(body) \in Unchecked /\ OnlyRatesNaN(Parsed(body))
<1> SUFFICES ASSUME NEW body \in Body
             PROVE  Parsed(body) \in Unchecked /\ OnlyRatesNaN(Parsed(body))
  OBVIOUS
<1>1. ASSUME NEW key \in Dir \cup {"both"}, NEW k \in Knob
      PROVE  /\ Read(k, body[key][k]) \in Int \cup {NaN}
             /\ Read(k, body[key][k]) = NaN => k \in RateKnob
  <2>1. body[key][k] \in Int \cup {NaN} /\ (body[key][k] = NaN => k \in RateKnob)
    BY DEF Body
  <2>2. CASE k \in RateKnob
    BY <2>1, <2>2 DEF Read
  <2>3. CASE k \notin RateKnob
    <3>1. body[key][k] \in Int /\ Word \in Nat \ {0}
      BY <2>1, <2>3, ControlAssumption DEF Word
    <3>2. body[key][k] % Word \in Int
      BY <3>1
    <3>. QED BY <2>3, <3>2, ControlAssumption DEF Read
  <2>. QED BY <2>2, <2>3
<1>2. ASSUME NEW d \in Dir, NEW k \in Knob
      PROVE  /\ Parsed(body)[d][k] \in Int \cup {NaN}
             /\ Parsed(body)[d][k] = NaN => k \in RateKnob
  <2>1. \E key \in Dir \cup {"both"} : Parsed(body)[d][k] = Read(k, body[key][k])
    BY DEF Parsed, Dir
  <2>. QED BY <1>1, <2>1
<1>3. Parsed(body) = [d \in Dir |-> [k \in Knob |-> Parsed(body)[d][k]]]
  BY DEF Parsed
<1> HIDE DEF Parsed
<1>. QED BY <1>2, <1>3 DEF Unchecked, OnlyRatesNaN

\* What a POST stores: a profile, within the limits, with the next version.
LEMMA Posted ==
  ASSUME StoreTypeOK, NEW name \in Name, NEW body \in Bodies, PostProfile(name, body)
  PROVE  \E p \in Profile :
           /\ p.version = nextVersion
           /\ \A d \in Dir, k \in Knob : KnobOK(k, p.knobs[d][k])
           /\ profiles' = [profiles EXCEPT ![name] = p]
<1>1. body \in Body
  BY ControlAssumption
<1>2. Parsed(body) \in Unchecked /\ OnlyRatesNaN(Parsed(body))
  BY <1>1, ParsedType
<1> DEFINE p == [knobs |-> Validate(Parsed(body)), version |-> nextVersion]
<1>3. p \in Profile /\ \A d \in Dir, k \in Knob : KnobOK(k, p.knobs[d][k])
  BY <1>2, ValidateEffect DEF StoreTypeOK, Profile
<1>4. profiles' = [profiles EXCEPT ![name] = p]
  BY DEF PostProfile, SetProfile
<1>. QED BY <1>3, <1>4

-----------------------------------------------------------------------------
(* The invariant. *)

LEMMA InitIInv == Init => IInv
<1> SUFFICES ASSUME Init PROVE IInv
  OBVIOUS
<1> USE NoFaultsIsAProfile DEF Init
<1>1. StoreTypeOK /\ SessionTypeOK
  BY DEF StoreTypeOK, SessionTypeOK
<1>2. RateTypeOK
  BY ControlAssumption DEF RateTypeOK, Window
<1>3. \A p \in InUse : p = NoFaults
  BY DEF InUse
<1>4. VersionsGivenOut /\ VersionIdentifiesProfile /\ WithinLimits
  BY <1>3 DEF VersionsGivenOut, VersionIdentifiesProfile, WithinLimits
<1>. QED BY <1>1, <1>2, <1>4 DEF IInv

LEMMA RateType ==
  ASSUME RateTypeOK, CheckRateLimit \/ Tick \/ UNCHANGED rateVars
  PROVE  RateTypeOK'
<1>1. CASE CheckRateLimit
  <2>1. sinceUpdate' \in 0..Second /\ updateCount' \in 0..UpdateLimit
    BY <1>1, ControlAssumption DEF CheckRateLimit, RateTypeOK
  <2>2. 0 \in Window /\ recent \in [Window -> Nat] /\ recent' = [recent EXCEPT ![0] = @ + 1]
    BY <1>1, ControlAssumption DEF CheckRateLimit, RateTypeOK, Recorded, Window
  <2>3. recent' \in [Window -> Nat]
    BY <2>2
  <2>. QED BY <2>1, <2>3 DEF RateTypeOK
<1>2. CASE Tick
  <2>1. sinceUpdate' \in 0..Second /\ updateCount' \in 0..UpdateLimit
    BY <1>2, ControlAssumption DEF Tick, RateTypeOK, AtMost
  <2>2. \A age \in Window \ {0} : age - 1 \in Window
    BY ControlAssumption DEF Window
  <2>3. recent' \in [Window -> Nat]
    BY <1>2, <2>2 DEF Tick, RateTypeOK
  <2>. QED BY <2>1, <2>3 DEF RateTypeOK
<1>3. CASE UNCHANGED rateVars
  BY <1>3 DEF rateVars, RateTypeOK
<1>. QED BY <1>1, <1>2, <1>3

LEMMA InUseTyped == StoreTypeOK /\ SessionTypeOK => InUse \subseteq Profile
BY DEF StoreTypeOK, SessionTypeOK, InUse

\* Of the profiles in use, a step brings in none but the one without faults ...
LEMMA Kept ==
  ASSUME VersionsGivenOut, VersionIdentifiesProfile, WithinLimits,
         nextVersion' = nextVersion, InUse' \subseteq InUse \cup {NoFaults}
  PROVE  VersionsGivenOut' /\ VersionIdentifiesProfile' /\ WithinLimits'
<1> DEFINE Old == InUse \cup {NoFaults}
<1>1. \A p \in Old : p.version < nextVersion /\ (p.version = 0 => p = NoFaults)
  BY NoFaultsIsAProfile DEF VersionsGivenOut
<1>2. \A p, o \in Old : p.version = o.version => p = o
  BY <1>1, NoFaultsIsAProfile DEF VersionIdentifiesProfile, VersionsGivenOut
<1>3. \A p \in Old, d \in Dir, k \in Knob : KnobOK(k, p.knobs[d][k])
  BY NoFaultsIsAProfile DEF WithinLimits
<1>4. VersionsGivenOut'
  BY <1>1 DEF VersionsGivenOut
<1>5. VersionIdentifiesProfile' /\ WithinLimits'
  BY <1>2, <1>3 DEF VersionIdentifiesProfile, WithinLimits
<1>. QED BY <1>4, <1>5

\* ... or one with a new version, which no other has.
LEMMA OneMore ==
  ASSUME VersionsGivenOut, VersionIdentifiesProfile, WithinLimits,
         InUse \subseteq Profile, nextVersion \in Nat, nextVersion' = nextVersion + 1,
         NEW new \in Profile, new.version = nextVersion,
         \A d \in Dir, k \in Knob : KnobOK(k, new.knobs[d][k]),
         InUse' \subseteq InUse \cup {new}
  PROVE  VersionsGivenOut' /\ VersionIdentifiesProfile' /\ WithinLimits'
<1>1. nextVersion > 0
  BY DEF VersionsGivenOut
<1>2. \A p \in InUse : p.version \in Nat /\ p.version < nextVersion
  BY DEF VersionsGivenOut, Profile
<1>3. \A p \in InUse : p.version < nextVersion + 1 /\ p.version # new.version
  BY <1>2
<1>4. \A p \in InUse \cup {new} : p.version < nextVersion + 1 /\ (p.version = 0 => p = NoFaults)
  BY <1>1, <1>3 DEF VersionsGivenOut
<1>5. VersionsGivenOut'
  BY <1>1, <1>4 DEF VersionsGivenOut
<1>6. VersionIdentifiesProfile'
  BY <1>3 DEF VersionIdentifiesProfile
<1>7. WithinLimits'
  BY DEF WithinLimits
<1>. QED BY <1>5, <1>6, <1>7

LEMMA StepIInv == IInv /\ [Next]_vars => IInv'
<1> SUFFICES ASSUME IInv, [Next]_vars PROVE IInv'
  OBVIOUS
<1> USE NoFaultsIsAProfile DEF IInv, rateVars, storeVars, sessionVars
<1>1. InUse \subseteq Profile
  BY InUseTyped
<1>2. ASSUME NEW name \in Name, NEW body \in Bodies, PostProfile(name, body) PROVE IInv'
  <2>1. PICK p \in Profile :
          /\ p.version = nextVersion
          /\ \A d \in Dir, k \in Knob : KnobOK(k, p.knobs[d][k])
          /\ profiles' = [profiles EXCEPT ![name] = p]
    BY <1>2, Posted
  <2>2. nextVersion \in Nat /\ nextVersion' = nextVersion + 1
    BY <1>2 DEF PostProfile, SetProfile, NewVersion, StoreTypeOK
  <2>3. StoreTypeOK' /\ SessionTypeOK'
    <3>1. profiles' \in [Name -> Profile]
      BY <2>1 DEF StoreTypeOK
    <3>2. SessionTypeOK'
      BY <1>2 DEF PostProfile, SessionTypeOK
    <3>. QED BY <2>2, <3>1, <3>2 DEF StoreTypeOK
  <2>4. RateTypeOK'
    BY <1>2, RateType DEF PostProfile
  <2>5. UNCHANGED current
    BY <1>2 DEF PostProfile
  <2>6. InUse' \subseteq InUse \cup {p}
    BY <2>1, <2>5 DEF InUse, StoreTypeOK
  <2>7. VersionsGivenOut' /\ VersionIdentifiesProfile' /\ WithinLimits'
    BY <1>1, <2>1, <2>2, <2>6, OneMore
  <2>. QED BY <2>3, <2>4, <2>7
<1>3. ASSUME NEW name \in Name, DeleteProfile(name) PROVE IInv'
  <2>1. StoreTypeOK' /\ SessionTypeOK'
    BY <1>3 DEF DeleteProfile, StoreTypeOK, SessionTypeOK
  <2>2. RateTypeOK'
    BY <1>3, RateType DEF DeleteProfile
  <2>3. InUse' \subseteq InUse \cup {NoFaults} /\ nextVersion' = nextVersion
    BY <1>3 DEF DeleteProfile, InUse, StoreTypeOK
  <2>. QED BY <2>1, <2>2, <2>3, Kept
<1>4. ASSUME RejectUpdate \/ Tick \/ UNCHANGED vars PROVE IInv'
  <2>1. UNCHANGED storeVars /\ UNCHANGED sessionVars
    BY <1>4 DEF RejectUpdate, Tick, vars
  <2>2. StoreTypeOK' /\ SessionTypeOK'
    BY <2>1 DEF StoreTypeOK, SessionTypeOK
  <2>3. RateTypeOK'
    BY <1>4, RateType DEF RejectUpdate, vars
  <2>4. InUse' \subseteq InUse \cup {NoFaults} /\ nextVersion' = nextVersion
    BY <2>1 DEF InUse
  <2>. QED BY <2>2, <2>3, <2>4, Kept
<1>5. ASSUME NEW s \in Session, Start(s) PROVE IInv'
  <2>1. profiles["default"] \in Profile /\ profiles["default"] \in InUse
    BY ControlAssumption DEF StoreTypeOK, InUse
  <2>2. StoreTypeOK' /\ SessionTypeOK'
    BY <1>5, <2>1 DEF Start, StoreTypeOK, SessionTypeOK
  <2>3. RateTypeOK'
    BY <1>5, RateType DEF Start
  <2>4. InUse' \subseteq InUse \cup {NoFaults} /\ nextVersion' = nextVersion
    BY <1>5, <2>1 DEF Start, InUse, SessionTypeOK
  <2>. QED BY <2>2, <2>3, <2>4, Kept
<1>. QED BY <1>2, <1>3, <1>4, <1>5 DEF Next

-----------------------------------------------------------------------------
(* The theorems. *)

\* The profiles given out, those stored and those in use agree after every request.
THEOREM Invariance == Spec => []IInv
BY InitIInv, StepIInv, PTL DEF Spec

\* Every variable keeps its type; the window's count never passes the limit.
THEOREM TypeCorrect == Spec => []TypeOK
<1>1. IInv => TypeOK
  BY DEF IInv, StoreTypeOK, RateTypeOK, SessionTypeOK, TypeOK
<1>. QED BY <1>1, Invariance, PTL

\* setProfile gives every profile a version of its own: whoever still uses a
\* profile that was replaced or deleted is told apart by its version.
THEOREM VersionsAreProfiles == Spec => []VersionIdentifiesProfile
<1>1. IInv => VersionIdentifiesProfile
  BY DEF IInv
<1>. QED BY <1>1, Invariance, PTL

\* No session is given a profile beyond the limits validate() sets.
THEOREM LimitsHold == Spec => []WithinLimits
<1>1. IInv => WithinLimits
  BY DEF IInv
<1>. QED BY <1>1, Invariance, PTL

-----------------------------------------------------------------------------
(* The rate limit.  Younger(r, n) is how many of the updates r are less than *)
(* n ticks old: a sum, which steps change as sums change (Sums).            *)

Younger(r, n) == SumOf(r, 0 .. n - 1)

\* The window of a second, and the part of it that is less than n ticks old.
LEMMA Windows ==
  /\ Second \in Nat /\ Second > 0 /\ UpdateLimit \in Nat /\ UpdateLimit > 0
  /\ 0 \in Window /\ Window = 0 .. Second - 1
  /\ \A n \in 0 .. Second : IsFiniteSet(0 .. n - 1) /\ 0 .. n - 1 \in SUBSET Window
<1>1. Second \in Nat /\ Second > 0 /\ UpdateLimit \in Nat /\ UpdateLimit > 0
  BY ControlAssumption
<1>2. ASSUME NEW n \in 0 .. Second PROVE IsFiniteSet(0 .. n - 1) /\ 0 .. n - 1 \in SUBSET Window
  <2>1. 0 \in Int /\ n - 1 \in Int
    OBVIOUS
  <2>2. IsFiniteSet(0 .. n - 1)
    BY <2>1, FS_Interval
  <2>3. 0 .. n - 1 \in SUBSET Window
    BY <1>1 DEF Window
  <2>. QED BY <2>2, <2>3
<1>. QED BY <1>1, <1>2 DEF Window

LEMMA YoungerType ==
  ASSUME NEW r \in [Window -> Nat], NEW n \in 0 .. Second
  PROVE  Younger(r, n) \in Nat
BY Windows, SumType DEF Younger

\* One tick further back.
LEMMA YoungerOlder ==
  ASSUME NEW r \in [Window -> Nat], NEW n \in Window
  PROVE  Younger(r, n + 1) = Younger(r, n) + r[n]
<1>. DEFINE Before == 0 .. n - 1
<1>1. n \in 0 .. Second /\ 0 .. (n + 1) - 1 = Before \cup {n} /\ n \notin Before
  BY Windows
<1>2. IsFiniteSet(Before) /\ (\A a \in Before : r[a] \in Nat) /\ r[n] \in Nat
  BY <1>1, Windows
<1>3. Younger(r, n + 1) = SumOf(r, Before \cup {n}) /\ Younger(r, n) = SumOf(r, Before)
  BY <1>1 DEF Younger
<1> HIDE DEF Before
<1>4. SumOf(r, Before \cup {n}) = SumOf(r, Before) + r[n]
  BY <1>1, <1>2, SumAdd
<1>. QED BY <1>3, <1>4

\* An update is one more of whatever age is asked for.
LEMMA YoungerRecorded ==
  ASSUME NEW r \in [Window -> Nat], NEW n \in 1 .. Second
  PROVE  Younger([r EXCEPT ![0] = @ + 1], n) = Younger(r, n) + 1
<1>. DEFINE q == [r EXCEPT ![0] = @ + 1]
            Rest == 1 .. n - 1
<1>1. /\ q \in [Window -> Nat] /\ q[0] = r[0] + 1
      /\ \A a \in Rest : q[a] = r[a] /\ r[a] \in Nat
      /\ r[0] \in Nat /\ \A a \in Rest : q[a] \in Nat
  BY Windows
<1>2. IsFiniteSet(Rest)
  <2>1. 1 \in Int /\ n - 1 \in Int
    OBVIOUS
  <2>. QED BY <2>1, FS_Interval
<1>3. 0 .. n - 1 = Rest \cup {0} /\ 0 \notin Rest
  OBVIOUS
<1>4. Younger(q, n) = SumOf(q, Rest \cup {0}) /\ Younger(r, n) = SumOf(r, Rest \cup {0})
  BY <1>3 DEF Younger
<1> HIDE DEF q, Rest
<1>5. /\ SumOf(q, Rest \cup {0}) = SumOf(q, Rest) + q[0]
      /\ SumOf(r, Rest \cup {0}) = SumOf(r, Rest) + r[0]
  BY <1>1, <1>2, <1>3, SumAdd
<1>6. SumOf(q, Rest) = SumOf(r, Rest) /\ SumOf(r, Rest) \in Nat
  BY <1>1, <1>2, SumAgree, SumType
<1>7. SumOf(q, Rest \cup {0}) = SumOf(r, Rest \cup {0}) + 1
  BY <1>1, <1>5, <1>6
<1>. QED BY <1>4, <1>7 DEF q

\* A tick makes every update one tick older.
LEMMA YoungerShifted ==
  ASSUME NEW r \in [Window -> Nat], NEW n \in Window
  PROVE  Younger([age \in Window |-> IF age = 0 THEN 0 ELSE r[age - 1]], n + 1) = Younger(r, n)
<1>. DEFINE q == [age \in Window |-> IF age = 0 THEN 0 ELSE r[age - 1]]
            h == [a \in 0 .. n - 1 |-> a + 1]
            Before == 0 .. n - 1
            Later == {h[a] : a \in Before}
<1>1. n \in Nat /\ n < Second /\ n \in 0 .. Second
  BY Windows
<1>2. /\ \A a \in Before : h[a] = a + 1 /\ q[h[a]] = r[a] /\ r[a] \in Nat
      /\ \A a, b \in Before : h[a] = h[b] => a = b
      /\ IsFiniteSet(Before)
  BY <1>1, Windows
<1>3. q[0] = 0
  BY Windows
<1>4. 0 .. (n + 1) - 1 = Later \cup {0} /\ 0 \notin Later
  <2>1. ASSUME NEW i \in 0 .. n, i # 0 PROVE i \in Later
    <3>1. i - 1 \in 0 .. n - 1 /\ h[i - 1] = i
      BY <1>1, <2>1
    <3>. QED BY <3>1
  <2>2. ASSUME NEW i \in Later PROVE i \in 0 .. n /\ i # 0
    BY <1>1
  <2>3. 0 .. (n + 1) - 1 = 0 .. n /\ 0 \in 0 .. n
    BY <1>1
  <2> HIDE DEF Later
  <2>. QED BY <2>1, <2>2, <2>3
<1>5. \A a \in Later : q[a] \in Nat
  <2> HIDE DEF q, h, Before
  <2>. QED BY <1>2
<1>9. Younger(q, n + 1) = SumOf(q, Later \cup {0}) /\ Younger(r, n) = SumOf(r, Before)
  <2> HIDE DEF Later
  <2>. QED BY <1>4 DEF Younger
<1> HIDE DEF q, h, Before
<1>6. IsFiniteSet(Later) /\ SumOf(q, Later) = SumOf(r, Before)
  <2>1. /\ \A a \in Before : r[a] \in Nat
        /\ \A a, b \in Before : h[a] = h[b] => a = b
        /\ \A a \in Before : q[h[a]] = r[a]
        /\ IsFiniteSet(Before)
    BY <1>2
  <2>. QED BY <2>1, SumImage
<1> HIDE DEF Later
<1>7. SumOf(q, Later \cup {0}) = SumOf(q, Later) + q[0] /\ SumOf(q, Later) \in Nat
  BY <1>3, <1>4, <1>5, <1>6, SumAdd, SumType
<1>8. SumOf(q, Later \cup {0}) = SumOf(r, Before)
  BY <1>3, <1>6, <1>7
<1>. QED BY <1>9, <1>8 DEF q

\* The window that is open began with an update, and has let no more through than it
\* counts; before it, less than a window was.  A window that is over leaves less than
\* it had, as the update it began with is too old.
RateInv ==
  /\ sinceUpdate < Second =>
       /\ recent[sinceUpdate] >= 1
       /\ Younger(recent, sinceUpdate + 1) <= updateCount
       /\ Younger(recent, Second) <= Younger(recent, sinceUpdate + 1) + UpdateLimit - 1
  /\ sinceUpdate = Second =>
       recent[0] = 0 /\ Younger(recent, Second) <= UpdateLimit - 1

LEMMA InitRate == Init => RateInv
<1> SUFFICES ASSUME Init PROVE RateInv
  OBVIOUS
<1>1. /\ sinceUpdate = Second /\ recent = [age \in Window |-> 0] /\ recent \in [Window -> Nat]
      /\ \A age \in Window : recent[age] = 0
  BY Windows DEF Init
<1>2. Younger(recent, Second) = 0
  <2>. DEFINE P == {s \in SUBSET Window : SumOf(recent, s) = 0}
  <2>0. IsFiniteSet(Window)
    <3>1. 0 \in Int /\ Second - 1 \in Int
      BY Windows
    <3>. QED BY <3>1, Windows, FS_Interval
  <2>1. {} \in P
    BY SumEmpty
  <2>2. ASSUME NEW s \in SUBSET Window, NEW x \in Window, s \in P PROVE s \cup {x} \in P
    <3>1. CASE x \in s
      <4>1. s \cup {x} = s
        BY <3>1
      <4>. QED BY <2>2, <4>1
    <3>2. CASE x \notin s
      <4>1. IsFiniteSet(s)
        BY <2>0, FS_Subset
      <4>2. SumOf(recent, s \cup {x}) = SumOf(recent, s) + recent[x]
        BY <1>1, <3>2, <4>1, SumAdd
      <4>. QED BY <1>1, <2>2, <4>2
    <3>. QED BY <3>1, <3>2
  <2>4. Window \in P
    <3> HIDE DEF P
    <3>. QED BY <2>0, <2>1, <2>2, InductiveSubsets
  <2>. QED BY <2>4, Windows DEF Younger
<1>. QED BY <1>1, <1>2, Windows DEF RateInv

LEMMA RateStep ==
  ASSUME RateTypeOK, RateInv, CheckRateLimit \/ Tick \/ UNCHANGED rateVars
  PROVE  RateInv'
<1>0. /\ recent \in [Window -> Nat] /\ sinceUpdate \in 0 .. Second
      /\ updateCount \in 0 .. UpdateLimit
      /\ Second \in Nat /\ Second > 0 /\ UpdateLimit \in Nat /\ UpdateLimit > 0
      /\ 0 \in Window /\ recent[0] \in Nat
  BY Windows DEF RateTypeOK
<1>1. CASE CheckRateLimit
  <2>. DEFINE q == [recent EXCEPT ![0] = @ + 1]
  <2>1. recent' = q /\ q \in [Window -> Nat] /\ q[0] = recent[0] + 1
        /\ \A a \in Window : q[a] \in Nat /\ recent[a] \in Nat /\ q[a] >= recent[a]
    BY <1>0, <1>1 DEF CheckRateLimit, Recorded
  <2>2. \A n \in 1 .. Second : Younger(q, n) = Younger(recent, n) + 1 /\ Younger(recent, n) \in Nat
    <3>. TAKE n \in 1 .. Second
    <3>1. Younger(q, n) = Younger(recent, n) + 1
      BY <1>0, YoungerRecorded
    <3>2. n \in 0 .. Second
      BY <1>0
    <3>. QED BY <1>0, <3>1, <3>2, YoungerType
  <2>3. Second \in 1 .. Second /\ 1 \in 1 .. Second
    BY <1>0
  <2> HIDE DEF q
  <2>4. CASE sinceUpdate >= Second /\ sinceUpdate' = 0 /\ updateCount' = 1
    <3>1. sinceUpdate = Second /\ recent[0] = 0 /\ Younger(recent, Second) <= UpdateLimit - 1
      BY <1>0, <2>4 DEF RateInv
    <3>2. Younger(recent, 1) = 0
      <4>1. Younger(recent, 0 + 1) = Younger(recent, 0) + recent[0]
        BY <1>0, YoungerOlder
      <4>2. Younger(recent, 0) = 0
        <5>1. 0 .. 0 - 1 = {}
          OBVIOUS
        <5>. QED BY <5>1, SumEmpty DEF Younger
      <4>. QED BY <3>1, <4>1, <4>2
    <3>3. Younger(q, 1) = 1 /\ Younger(q, Second) <= UpdateLimit
      BY <1>0, <2>2, <2>3, <3>1, <3>2
    <3>. QED BY <1>0, <2>1, <2>4, <3>1, <3>3 DEF RateInv
  <2>5. CASE /\ sinceUpdate < Second /\ updateCount < UpdateLimit
             /\ updateCount' = updateCount + 1 /\ UNCHANGED sinceUpdate
    <3>1. /\ recent[sinceUpdate] >= 1
          /\ Younger(recent, sinceUpdate + 1) <= updateCount
          /\ Younger(recent, Second) <= Younger(recent, sinceUpdate + 1) + UpdateLimit - 1
      BY <2>5 DEF RateInv
    <3>2. sinceUpdate + 1 \in 1 .. Second /\ sinceUpdate \in Window
      BY <1>0, <2>5, Windows
    <3>3. /\ Younger(q, sinceUpdate + 1) = Younger(recent, sinceUpdate + 1) + 1
          /\ Younger(q, Second) = Younger(recent, Second) + 1
          /\ Younger(recent, sinceUpdate + 1) \in Nat /\ Younger(recent, Second) \in Nat
      BY <2>2, <2>3, <3>2
    <3>4. q[sinceUpdate] >= 1
      BY <2>1, <3>1, <3>2
    <3>5. /\ Younger(q, sinceUpdate + 1) <= updateCount + 1
          /\ Younger(q, Second) <= Younger(q, sinceUpdate + 1) + UpdateLimit - 1
      BY <1>0, <3>1, <3>3
    <3>. QED BY <1>0, <2>1, <2>5, <3>4, <3>5 DEF RateInv
  <2>. QED BY <1>1, <2>4, <2>5 DEF CheckRateLimit
<1>2. CASE Tick
  <2>. DEFINE q == [age \in Window |-> IF age = 0 THEN 0 ELSE recent[age - 1]]
  <2>1. recent' = q /\ updateCount' = updateCount /\ sinceUpdate' = AtMost(sinceUpdate + 1, Second)
    BY <1>2 DEF Tick
  <2>2. \A n \in Window : Younger(q, n + 1) = Younger(recent, n)
    BY <1>0, YoungerShifted
  <2>3. q[0] = 0 /\ \A a \in Window : a + 1 \in Window => q[a + 1] = recent[a]
    BY <1>0, Windows
  <2> HIDE DEF q
  <2>4. Second - 1 \in Window /\ Younger(q, Second) = Younger(recent, Second - 1)
    BY <1>0, <2>2, Windows
  <2>5. /\ Younger(recent, Second) = Younger(recent, Second - 1) + recent[Second - 1]
        /\ Younger(recent, Second - 1) \in Nat /\ Younger(recent, Second) \in Nat
        /\ recent[Second - 1] \in Nat
    <3>1. (Second - 1) + 1 = Second /\ Second - 1 \in 0 .. Second /\ Second \in 0 .. Second
      BY <1>0
    <3>. QED BY <1>0, <2>4, <3>1, YoungerOlder, YoungerType
  <2>6. CASE sinceUpdate < Second - 1
    <3>1. /\ sinceUpdate' = sinceUpdate + 1 /\ sinceUpdate' < Second
          /\ sinceUpdate \in Window /\ sinceUpdate + 1 \in Window
      BY <1>0, <2>1, <2>6, Windows DEF AtMost
    <3>2. q[sinceUpdate + 1] >= 1
      BY <1>0, <2>3, <2>6, <3>1 DEF RateInv
    <3>3. Younger(q, (sinceUpdate + 1) + 1) = Younger(recent, sinceUpdate + 1)
      BY <2>2, <3>1
    <3>4. /\ Younger(recent, sinceUpdate + 1) <= updateCount
          /\ Younger(recent, Second) <= Younger(recent, sinceUpdate + 1) + UpdateLimit - 1
      BY <1>0, <2>6 DEF RateInv
    <3>5. Younger(recent, sinceUpdate + 1) \in Nat
      BY <1>0, <3>1, Windows, YoungerType
    <3>6. /\ Younger(q, (sinceUpdate + 1) + 1) <= updateCount
          /\ Younger(q, Second) <= Younger(q, (sinceUpdate + 1) + 1) + UpdateLimit - 1
      BY <1>0, <2>4, <2>5, <3>3, <3>4, <3>5
    <3>. QED BY <1>0, <2>1, <3>1, <3>2, <3>6 DEF RateInv
  <2>7. CASE sinceUpdate = Second - 1
    <3>1. sinceUpdate' = Second
      BY <1>0, <2>1, <2>7 DEF AtMost
    <3>2. recent[Second - 1] >= 1 /\ Younger(recent, Second) <= updateCount
      <4>1. (Second - 1) + 1 = Second /\ sinceUpdate < Second
        BY <1>0, <2>7
      <4>. QED BY <2>7, <4>1 DEF RateInv
    <3>3. Younger(q, Second) <= UpdateLimit - 1
      BY <1>0, <2>4, <2>5, <3>2
    <3>. QED BY <1>0, <2>1, <2>3, <3>1, <3>3 DEF RateInv
  <2>8. CASE sinceUpdate = Second
    <3>1. sinceUpdate' = Second
      BY <1>0, <2>1, <2>8 DEF AtMost
    <3>2. Younger(recent, Second) <= UpdateLimit - 1
      BY <2>8 DEF RateInv
    <3>3. Younger(q, Second) <= UpdateLimit - 1
      BY <1>0, <2>4, <2>5, <3>2
    <3>. QED BY <1>0, <2>1, <2>3, <3>1, <3>3 DEF RateInv
  <2>. QED BY <1>0, <2>6, <2>7, <2>8
<1>3. CASE UNCHANGED rateVars
  BY <1>3 DEF rateVars, RateInv
<1>. QED BY <1>1, <1>2, <1>3

LEMMA RateInvBounds == RateTypeOK /\ RateInv => UpdatesBounded
<1> SUFFICES ASSUME RateTypeOK, RateInv PROVE UpdatesBounded
  OBVIOUS
<1>0. /\ recent \in [Window -> Nat] /\ sinceUpdate \in 0 .. Second
      /\ updateCount \in 0 .. UpdateLimit
      /\ Second \in Nat /\ Second > 0 /\ UpdateLimit \in Nat /\ UpdateLimit > 0
  BY Windows DEF RateTypeOK
<1>1. UpdatesInASecond = SumOf(recent, Window)
  BY DEF UpdatesInASecond, SumOf, MapThenSumSet, MapThenFoldSet, OfAge
<1>2. UpdatesInASecond = Younger(recent, Second)
  BY <1>1, Windows DEF Younger
<1>3. Younger(recent, Second) <= 2 * UpdateLimit - 1
  <2>1. Younger(recent, Second) \in Nat
    BY <1>0, YoungerType
  <2>2. CASE sinceUpdate < Second
    <3>1. Younger(recent, sinceUpdate + 1) \in Nat
      BY <1>0, <2>2, YoungerType
    <3>. QED BY <1>0, <2>1, <2>2, <3>1 DEF RateInv
  <2>3. CASE sinceUpdate = Second
    BY <1>0, <2>1, <2>3 DEF RateInv
  <2>. QED BY <1>0, <2>2, <2>3
<1>. QED BY <1>2, <1>3 DEF UpdatesBounded

\* Every step of the system is a step of the rate limiter, the clock's or none.
LEMMA RateSteps == [Next]_vars => CheckRateLimit \/ Tick \/ UNCHANGED rateVars
BY DEF Next, vars, PostProfile, DeleteProfile, RejectUpdate, Start

\* checkRateLimit() lets through less than twice UPDATE_LIMIT in any second, however
\* requests fall about the seconds' ends.
THEOREM RateIsLimited == Spec => []UpdatesBounded
<1>1. IInv => RateTypeOK
  BY DEF IInv
<1>2. RateTypeOK /\ RateInv /\ [Next]_vars => RateInv'
  BY RateStep, RateSteps
<1>. QED BY <1>1, <1>2, Invariance, InitRate, RateInvBounds, PTL DEF Spec

-----------------------------------------------------------------------------
(* The engine. *)

\* The engine changes nothing of the control plane.
LEMMA ControlAlone == FaultSpec => Spec
<1>1. FaultInit => Init
  BY DEF FaultInit
<1>2. [FaultNext]_allVars => [Next]_vars
  BY DEF FaultNext, Decide, allVars
<1>. QED BY <1>1, <1>2, PTL DEF FaultSpec, Spec

\* What is drawn so far: sub-seeds of packets that have their number.
DrawInv ==
  /\ pktSeq \in [Session -> [Dir -> Nat]]
  /\ \A key \in drawn :
       \E s \in Session, d \in Dir, seq \in Nat, draw \in Draw :
         seq <= pktSeq[s][d] /\ key = Key(s, d, SubSeed(seq, draw))
  /\ ~repeated

\* Seven sub-seeds a packet leave no gap and do not overlap.
LEMMA SubSeedInjective ==
  ASSUME NEW seq \in Nat, NEW seq2 \in Nat, NEW draw \in Draw, NEW draw2 \in Draw,
         SubSeed(seq, draw) = SubSeed(seq2, draw2)
  PROVE  seq = seq2 /\ draw = draw2
BY DEF SubSeed, Draw

LEMMA DecideDraws ==
  ASSUME DrawInv, NEW s \in Session, NEW d \in Dir, Decide(s, d)
  PROVE  DrawInv'
<1> DEFINE next == pktSeq[s][d] + 1
           key == Keys(s, d, next)
<1>1. /\ pktSeq' = [pktSeq EXCEPT ![s][d] = @ + 1]
      /\ drawn' = drawn \cup {key[i] : i \in Draw}
      /\ repeated' = (repeated \/ \E i \in Draw : \/ key[i] \in drawn
                                                  \/ \E j \in Draw \ {i} : key[i] = key[j])
  BY DEF Decide, Numbered
<1>2. /\ pktSeq' \in [Session -> [Dir -> Nat]] /\ pktSeq'[s][d] = next /\ next \in Nat
      /\ \A s2 \in Session, d2 \in Dir : pktSeq[s2][d2] \in Nat /\ pktSeq[s2][d2] <= pktSeq'[s2][d2]
  BY <1>1 DEF DrawInv
<1>3. \A i \in Draw : key[i] = Key(s, d, SubSeed(next, i))
  BY DEF Keys
<1> HIDE DEF next, key
<1>4. ASSUME NEW i \in Draw PROVE key[i] \notin drawn
  <2> SUFFICES ASSUME key[i] \in drawn PROVE FALSE
    OBVIOUS
  <2>1. PICK s2 \in Session, d2 \in Dir, seq2 \in Nat, draw2 \in Draw :
          seq2 <= pktSeq[s2][d2] /\ key[i] = Key(s2, d2, SubSeed(seq2, draw2))
    BY DEF DrawInv
  <2>2. s2 = s /\ d2 = d /\ SubSeed(next, i) = SubSeed(seq2, draw2)
    BY <1>3, <2>1 DEF Key
  <2>3. next = seq2
    BY <1>2, <2>2, SubSeedInjective
  <2>4. pktSeq[s][d] \in Nat /\ seq2 <= pktSeq[s][d]
    BY <1>2, <2>1, <2>2
  <2>. QED BY <2>3, <2>4 DEF next
<1>5. ASSUME NEW i \in Draw, NEW j \in Draw \ {i} PROVE key[i] # key[j]
  <2>1. SubSeed(next, i) # SubSeed(next, j)
    BY <1>2, SubSeedInjective
  <2>. QED BY <1>3, <2>1 DEF Key
<1>6. \A k \in drawn' :
        \E s2 \in Session, d2 \in Dir, seq2 \in Nat, draw2 \in Draw :
          seq2 <= pktSeq'[s2][d2] /\ k = Key(s2, d2, SubSeed(seq2, draw2))
  <2>1. ASSUME NEW i \in Draw
        PROVE  next <= pktSeq'[s][d] /\ key[i] = Key(s, d, SubSeed(next, i))
    BY <1>2, <1>3
  <2>2. ASSUME NEW k \in drawn
        PROVE  \E s2 \in Session, d2 \in Dir, seq2 \in Nat, draw2 \in Draw :
                 seq2 <= pktSeq'[s2][d2] /\ k = Key(s2, d2, SubSeed(seq2, draw2))
    <3>1. PICK s2 \in Session, d2 \in Dir, seq2 \in Nat, draw2 \in Draw :
            seq2 <= pktSeq[s2][d2] /\ k = Key(s2, d2, SubSeed(seq2, draw2))
      BY <2>2 DEF DrawInv
    <3>2. pktSeq[s2][d2] \in Nat /\ pktSeq'[s2][d2] \in Nat /\ pktSeq[s2][d2] <= pktSeq'[s2][d2]
      BY <1>2
    <3>3. seq2 <= pktSeq'[s2][d2]
      BY <3>1, <3>2
    <3>. QED BY <3>1, <3>3
  <2>. QED BY <1>1, <1>2, <2>1, <2>2
<1>7. ~repeated'
  BY <1>1, <1>4, <1>5 DEF DrawInv
<1>. QED BY <1>2, <1>6, <1>7 DEF DrawInv

LEMMA FaultDraws == FaultSpec => []DrawInv
<1>1. FaultInit => DrawInv
  BY DEF FaultInit, DrawInv
<1>2. ASSUME DrawInv, UNCHANGED packetVars PROVE DrawInv'
  BY <1>2 DEF DrawInv, packetVars
<1>3. ASSUME DrawInv, [FaultNext]_allVars PROVE DrawInv'
  BY <1>2, <1>3, DecideDraws DEF FaultNext, allVars, faultVars
<1>. QED BY <1>1, <1>3, PTL DEF FaultSpec

\* "This ensures decisions are independent" (AnomalyEngine.cpp:16-17): no two draws,
\* of one packet or of two, hash the same key, however many packets of however many
\* sessions are decided.
THEOREM FreshDraws == FaultSpec => []DrawsAreFresh
<1>1. DrawInv => DrawsAreFresh
  BY DEF DrawInv, DrawsAreFresh
<1>. QED BY <1>1, FaultDraws, PTL

-----------------------------------------------------------------------------
(* The engine's arithmetic. *)

LEMMA ModSmall ==
  ASSUME NEW n \in Int, NEW m \in Nat \ {0}
  PROVE  /\ n % m \in 0 .. m - 1
         /\ 0 <= n /\ n < m => n % m = n
         /\ -m <= n /\ n < 0 => n % m = n + m
<1>1. n % m \in 0 .. m - 1
  OBVIOUS
<1>2. ASSUME 0 <= n, n < m PROVE n % m = n
  BY <1>2
<1>3. ASSUME -m <= n, n < 0 PROVE n % m = n + m
  BY <1>3
<1>. QED BY <1>1, <1>2, <1>3

\* 32 bits hold what is in their range.
LEMMA SignedExact ==
  ASSUME NEW n \in Int, -HalfWord <= n, n < HalfWord
  PROVE  Signed(n) = n
<1>1. HalfWord \in Nat \ {0} /\ Word \in Nat \ {0} /\ Word = 2 * HalfWord
  BY ControlAssumption DEF Word
<1>2. CASE n >= 0
  <2>1. n % Word = n
    BY <1>1, <1>2, ModSmall
  <2>. QED BY <2>1 DEF Signed
<1>3. CASE n < 0
  <2>1. -Word <= n
    BY <1>1
  <2>2. n % Word = n + Word
    BY <1>1, <1>3, <2>1, ModSmall
  <2>. QED BY <1>1, <1>3, <2>2 DEF Signed
<1>. QED BY <1>2, <1>3

\* What decide() adds to the latency and takes off it, for one hash.
LEMMA DelayExact ==
  ASSUME NEW k, k["latency"] \in Nat, k["jitter"] \in Nat \ {0},
         k["latency"] <= KnobLimit["latency"], k["jitter"] <= KnobLimit["jitter"],
         NEW h \in Nat
  PROVE  /\ h % (2 * k["jitter"] + 1) \in 0 .. 2 * k["jitter"]
         /\ DelayMs(k, h) = Positive(k["latency"] + (h % (2 * k["jitter"] + 1)) - k["jitter"])
<1> DEFINE lat == k["latency"]
           jit == k["jitter"]
           span == 2 * jit + 1
           roll == h % span
<1>1. /\ lat \in Nat /\ jit \in Nat \ {0} /\ HalfWord \in Nat \ {0} /\ Word = 2 * HalfWord
      /\ lat + 2 * jit < HalfWord
  <2>1. KnobLimit["latency"] \in Nat /\ KnobLimit["jitter"] \in Nat
    BY FaultAssumption, ControlAssumption
  <2>2. HalfWord \in Nat \ {0} /\ KnobLimit["latency"] + 2 * KnobLimit["jitter"] < HalfWord
    BY FaultAssumption, ControlAssumption
  <2>. QED BY <2>1, <2>2 DEF Word
<1> HIDE DEF lat, jit
<1>2. span \in Nat \ {0} /\ span < Word
  BY <1>1
<1>3. roll \in 0 .. 2 * jit
  BY <1>1, <1>2, ModSmall
<1>4. JitterSpan(jit) = span
  <2>1. jit * 2 + 1 = span /\ Word \in Nat \ {0} /\ span \in Int /\ 0 <= span
    BY <1>1, <1>2
  <2> HIDE DEF span
  <2>2. span % Word = span
    BY <1>2, <2>1, ModSmall
  <2>. QED BY <2>1, <2>2 DEF JitterSpan
<1> HIDE DEF span, roll
<1>5. /\ Signed(lat) = lat /\ Signed(roll) = roll /\ Signed(jit) = jit
      /\ Signed(lat + roll - jit) = lat + roll - jit
  BY <1>1, <1>3, SignedExact
<1>6. DelayMs(k, h) = Positive(Signed(Signed(lat) + Signed(roll) - Signed(jit)))
  BY <1>1, <1>4 DEF DelayMs, roll, lat, jit
<1>7. DelayMs(k, h) = Positive(lat + roll - jit)
  BY <1>5, <1>6
<1>. QED BY <1>3, <1>7 DEF span, roll, lat, jit

\* The delays of a profile within the limits: all of a symmetric range, and no other.
LEMMA Delays ==
  ASSUME NEW k, k["latency"] \in Nat, k["jitter"] \in Nat,
         k["latency"] <= KnobLimit["latency"], k["jitter"] <= KnobLimit["jitter"]
  PROVE  DelayWithinProfile(k)
<1> DEFINE lat == k["latency"]
           jit == k["jitter"]
           range == lat - jit .. lat + jit
<1>1. lat \in Nat /\ jit \in Nat
  OBVIOUS
<1>2. /\ Hash \subseteq Nat
      /\ \A n \in 0 .. 2 * jit : n \in Hash
  <2>1. KnobLimit["jitter"] \in Nat /\ jit <= KnobLimit["jitter"]
    BY FaultAssumption, ControlAssumption
  <2>2. 0 .. 2 * KnobLimit["jitter"] \subseteq Hash /\ Hash \subseteq Nat
    BY FaultAssumption
  <2> HIDE DEF jit
  <2>. QED BY <1>1, <2>1, <2>2
<1>3. CASE jit = 0
  <2>1. \A h \in Hash : DelayMs(k, h) = lat
    BY <1>3 DEF DelayMs
  <2>2. 0 \in Hash
    BY <1>1, <1>2
  <2>3. {DelayMs(k, h) : h \in Hash} = {lat}
    BY <2>1, <2>2
  <2> HIDE DEF lat, jit
  <2>4. \A ms \in range : ms = lat /\ Positive(ms) = lat
    BY <1>1, <1>3 DEF Positive
  <2>5. lat \in range
    BY <1>1, <1>3
  <2>6. {Positive(ms) : ms \in range} = {lat}
    BY <2>4, <2>5
  <2>. QED BY <2>3, <2>6 DEF DelayWithinProfile, lat, jit
<1>4. CASE jit # 0
  <2>1. \A h \in Hash : /\ h % (2 * jit + 1) \in 0 .. 2 * jit
                        /\ DelayMs(k, h) = Positive(lat + (h % (2 * jit + 1)) - jit)
    BY <1>1, <1>2, <1>4, DelayExact
  <2> HIDE DEF lat, jit
  <2>2. \A h \in Hash : \E ms \in range : DelayMs(k, h) = Positive(ms)
    <3>1. TAKE h \in Hash
    <3> DEFINE roll == h % (2 * jit + 1)
    <3>2. roll \in 0 .. 2 * jit /\ DelayMs(k, h) = Positive(lat + roll - jit)
      BY <2>1
    <3> HIDE DEF roll
    <3>3. lat + roll - jit \in range
      BY <1>1, <3>2
    <3>. QED BY <3>2, <3>3
  <2>3. \A ms \in range : \E h \in Hash : DelayMs(k, h) = Positive(ms)
    <3>1. TAKE ms \in range
    <3> DEFINE h == ms - (lat - jit)
    <3>2. h \in 0 .. 2 * jit /\ lat + h - jit = ms
      BY <1>1
    <3> HIDE DEF h
    <3>3. h \in Hash
      BY <1>2, <3>2
    <3>4. h % (2 * jit + 1) = h
      <4>1. 2 * jit + 1 \in Nat \ {0} /\ h \in Int /\ 0 <= h /\ h < 2 * jit + 1
        BY <1>1, <3>2
      <4>. QED BY <4>1, ModSmall
    <3>5. DelayMs(k, h) = Positive(ms)
      BY <2>1, <3>2, <3>3, <3>4
    <3>. QED BY <3>3, <3>5
  <2> HIDE DEF range
  <2>4. {DelayMs(k, h) : h \in Hash} = {Positive(ms) : ms \in range}
    BY <2>2, <2>3
  <2>. QED BY <2>4 DEF DelayWithinProfile, range, lat, jit
<1>. QED BY <1>3, <1>4

\* As many of the equally likely rolls are below a rate as the rate says.
LEMMA Shares == ASSUME NEW rate \in (0 .. MaxRate) \cup {NaN} PROVE RateIsShare(rate)
<1>1. CASE rate = NaN
  <2>1. {roll \in 0 .. MaxRate - 1 : Strikes(rate, roll)} = {}
    BY <1>1 DEF Strikes
  <2>. QED BY <1>1, <2>1, FS_EmptySet DEF RateIsShare
<1>2. CASE rate \in 0 .. MaxRate
  <2>1. MaxRate \in Nat \ {0} /\ rate # NaN
    BY <1>2, FaultAssumption, ControlAssumption
  <2>2. \A roll \in 0 .. MaxRate - 1 : roll % MaxRate = roll
    <3>1. TAKE roll \in 0 .. MaxRate - 1
    <3>2. roll \in Int /\ 0 <= roll /\ roll < MaxRate
      BY <2>1
    <3>. QED BY <2>1, <3>2, ModSmall
  <2>3. {roll \in 0 .. MaxRate - 1 : Strikes(rate, roll)} = 0 .. rate - 1
    BY <1>2, <2>1, <2>2 DEF Strikes
  <2>4. Cardinality(0 .. rate - 1) = rate
    <3>1. 0 \in Int /\ rate - 1 \in Int
      BY <1>2
    <3>2. Cardinality(0 .. rate - 1) = IF 0 > rate - 1 THEN 0 ELSE (rate - 1) - 0 + 1
      BY <3>1, FS_Interval
    <3>. QED BY <1>2, <3>2
  <2>. QED BY <2>1, <2>3, <2>4 DEF RateIsShare
<1>. QED BY <1>1, <1>2

\* Of a profile in use, the words and the rates are what decide() can take.
LEMMA Worded ==
  ASSUME WithinLimits, NEW p \in InUse, NEW d \in Dir, NEW n \in {"latency", "jitter"}
  PROVE  p.knobs[d][n] \in Nat /\ p.knobs[d][n] <= KnobLimit[n]
<1>1. n \in Knob /\ n \notin RateKnob /\ KnobLimit[n] \in Nat
  BY FaultAssumption, ControlAssumption DEF RateKnob
<1>2. p.knobs[d][n] \in 0 .. KnobLimit[n]
  BY <1>1 DEF WithinLimits, KnobOK
<1>. QED BY <1>1, <1>2

LEMMA Rates ==
  ASSUME WithinLimits, NEW p \in InUse, NEW d \in Dir, NEW n \in RateKnob
  PROVE  Value(p.knobs[d], n) \in (0 .. MaxRate) \cup {NaN}
<1>1. CASE n \in Knob
  <2>1. KnobOK(n, p.knobs[d][n]) /\ KnobLimit[n] = MaxRate
    BY <1>1, FaultAssumption DEF WithinLimits
  <2>. QED BY <1>1, <2>1 DEF Value, KnobOK
<1>2. CASE n \notin Knob
  <2>1. Value(p.knobs[d], n) = 0 /\ 0 \in 0 .. MaxRate
    BY <1>2, FaultAssumption DEF Value
  <2>. QED BY <2>1
<1>. QED BY <1>1, <1>2

\* decide() does with a profile in use what the profile says: 32-bit arithmetic gives
\* every delay of latency +- jitter and no other, and each fault strikes at its rate
\* (AnomalyEngine.cpp:20-78), for all limits that leave room for the jitter.
THEOREM AsConfigured == FaultSpec => []FaultsAsConfigured
<1>1. ASSUME IInv PROVE FaultsAsConfigured
  <2>1. InUse \subseteq Profile
    BY <1>1, InUseTyped DEF IInv
  <2>2. ASSUME NEW p \in InUse, NEW d \in Dir
        PROVE  DelayWithinProfile(p.knobs[d])
    <3>1. "latency" \in Knob /\ "jitter" \in Knob
      BY FaultAssumption
    <3>2. \A n \in {"latency", "jitter"} : p.knobs[d][n] \in Nat /\ p.knobs[d][n] <= KnobLimit[n]
      BY <1>1, <3>1, Worded DEF IInv
    <3>. QED BY <3>2, Delays
  <2>3. ASSUME NEW p \in InUse, NEW d \in Dir, NEW n \in RateKnob
        PROVE  RateIsShare(Value(p.knobs[d], n))
    BY <1>1, Rates, Shares DEF IInv
  <2>. QED BY <2>2, <2>3 DEF FaultsAsConfigured
<1>. QED BY <1>1, Invariance, ControlAlone, PTL

\* A fault strikes only if its rate is positive, and always if it is one.
LEMMA StruckOnlyIf ==
  ASSUME NEW k, NEW f \in Struck(k), NEW n \in RateKnob,
         Value(k, n) \in (0 .. MaxRate) \cup {NaN}
  PROVE  /\ n \in f => Possible(Value(k, n))
         /\ n \notin f => Value(k, n) # MaxRate
<1>1. PICK h \in Hash : n \in f <=> Strikes(Value(k, n), h)
  BY DEF Struck
<1>2. MaxRate \in Nat \ {0} /\ h \in Nat /\ NaN \notin Int
  BY FaultAssumption, ControlAssumption
<1>3. n \in f => Possible(Value(k, n))
  BY <1>1 DEF Strikes, Possible
<1>4. ASSUME Value(k, n) = MaxRate PROVE n \in f
  <2>1. h % MaxRate \in 0 .. MaxRate - 1
    BY <1>2, ModSmall
  <2>2. Strikes(MaxRate, h)
    BY <1>2, <2>1 DEF Strikes
  <2>. QED BY <1>1, <1>4, <2>2
<1>. QED BY <1>3, <1>4

\* How long the delay can be: none only if the jitter takes all of the latency away.
LEMMA DelayOnlyIf ==
  ASSUME NEW k, k["latency"] \in Nat, k["jitter"] \in Nat,
         k["latency"] <= KnobLimit["latency"], k["jitter"] <= KnobLimit["jitter"],
         NEW h \in Hash
  PROVE  IF DelayMs(k, h) > 0 THEN k["latency"] + k["jitter"] > 0
                              ELSE k["latency"] <= k["jitter"]
<1>1. PICK ms \in k["latency"] - k["jitter"] .. k["latency"] + k["jitter"] :
        DelayMs(k, h) = Positive(ms)
  <2>1. DelayWithinProfile(k)
    BY Delays
  <2>. QED BY <2>1 DEF DelayWithinProfile
<1>2. CASE ms > 0
  BY <1>1, <1>2 DEF Positive
<1>3. CASE ~(ms > 0)
  BY <1>1, <1>3 DEF Positive
<1>. QED BY <1>2, <1>3

LEMMA FateExpected ==
  ASSUME WithinLimits, NEW p \in InUse, NEW d \in Dir, NEW fate \in Fates(p.knobs[d])
  PROVE  Expected(p.knobs[d], fate)
<1> DEFINE k == p.knobs[d]
<1>1. /\ k["latency"] \in Nat /\ k["latency"] <= KnobLimit["latency"]
      /\ k["jitter"] \in Nat /\ k["jitter"] <= KnobLimit["jitter"]
  BY Worded
<1>2. \A n \in RateKnob : Value(k, n) \in (0 .. MaxRate) \cup {NaN}
  BY Rates
<1> HIDE DEF k
<1>3. PICK f \in Struck(k), h \in Hash : fate = FateOf(f, DelayMs(k, h))
  BY DEF Fates, k
<1>4. ASSUME NEW n \in RateKnob
      PROVE  (n \in f => Possible(Value(k, n))) /\ (n \notin f => Value(k, n) # MaxRate)
  BY <1>2, <1>3, StruckOnlyIf
<1>5. /\ IF "drop" \in f THEN Possible(Value(k, "drop")) ELSE Value(k, "drop") # MaxRate
      /\ IF "halfClose" \in f THEN Possible(Value(k, "halfClose")) ELSE Value(k, "halfClose") # MaxRate
      /\ IF "stall" \in f THEN Possible(Value(k, "stall")) ELSE Value(k, "stall") # MaxRate
  <2>1. "drop" \in RateKnob /\ "halfClose" \in RateKnob /\ "stall" \in RateKnob
    BY DEF RateKnob
  <2>. QED BY <1>4, <2>1, Zenon
<1>6. Expected(k, fate)
  <2>1. CASE "drop" \in f
    <3>1. fate = "Drop" /\ Possible(Value(k, "drop"))
      BY <1>3, <1>5, <2>1 DEF FateOf
    <3>. QED BY <3>1 DEF Expected
  <2>2. CASE "drop" \notin f /\ "halfClose" \in f
    <3>1. fate = "HalfClose" /\ Possible(Value(k, "halfClose"))
      BY <1>3, <1>5, <2>2 DEF FateOf
    <3>2. Spared(k, {"drop"})
      BY <1>5, <2>2 DEF Spared
    <3>. QED BY <3>1, <3>2 DEF Expected
  <2>3. CASE "drop" \notin f /\ "halfClose" \notin f /\ "stall" \in f
    <3>1. fate = "Stall" /\ Possible(Value(k, "stall"))
      BY <1>3, <1>5, <2>3 DEF FateOf
    <3>2. Spared(k, {"drop", "halfClose"})
      BY <1>5, <2>3 DEF Spared
    <3>. QED BY <3>1, <3>2 DEF Expected
  <2>4. CASE "drop" \notin f /\ "halfClose" \notin f /\ "stall" \notin f
    <3>1. Spared(k, {"drop", "halfClose", "stall"})
      BY <1>5, <2>4 DEF Spared
    <3>2. fate = IF DelayMs(k, h) > 0 THEN "Delay" ELSE "Forward"
      BY <1>3, <2>4 DEF FateOf
    <3>3. IF DelayMs(k, h) > 0 THEN k["latency"] + k["jitter"] > 0
                               ELSE k["latency"] <= k["jitter"]
      BY <1>1, DelayOnlyIf
    <3>4. CASE DelayMs(k, h) > 0
      BY <3>1, <3>2, <3>3, <3>4 DEF Expected
    <3>5. CASE ~(DelayMs(k, h) > 0)
      BY <3>1, <3>2, <3>3, <3>5 DEF Expected
    <3>. QED BY <3>4, <3>5
  <2>. QED BY <2>1, <2>2, <2>3, <2>4
<1>. QED BY <1>6 DEF k

\* Sessions go on using what the store held when they started; the last packet was
\* one of such a session.
StartInv ==
  /\ atStart \in [Session -> Profile]
  /\ \A s \in started : current[s] = atStart[s]
  /\ last.session # "none" =>
       /\ last.session \in started /\ last.dir \in Dir
       /\ last.fate \in Fates(atStart[last.session].knobs[last.dir])

LEMMA StepStart ==
  ASSUME IInv, StartInv, [FaultNext]_allVars
  PROVE  StartInv'
<1>1. /\ current \in [Session -> Profile] /\ started \in SUBSET Session
      /\ profiles["default"] \in Profile
  BY ControlAssumption DEF IInv, SessionTypeOK, StoreTypeOK
<1>2. ASSUME NEW s \in Session, NEW d \in Dir, Decide(s, d) PROVE StartInv'
  <2>1. PICK fate \in Fates(current[s].knobs[d]) :
          last' = [session |-> s, dir |-> d, fate |-> fate]
    BY <1>2 DEF Decide, ProfileOf
  <2>2. s \in started /\ started' = started /\ current' = current /\ atStart' = atStart
    BY <1>2 DEF Decide, vars, sessionVars
  <2>3. fate \in Fates(atStart[s].knobs[d])
    BY <2>1, <2>2 DEF StartInv
  <2>4. last'.session = s /\ last'.dir = d /\ last'.fate = fate
    BY <2>1
  <2>. QED BY <2>2, <2>3, <2>4 DEF StartInv
<1>3. CASE /\ Next /\ UNCHANGED packetVars
           /\ atStart' = [s \in Session |-> IF s \in started' \ started THEN profiles["default"]
                                                                  ELSE atStart[s]]
  <2>1. atStart' \in [Session -> Profile] /\ UNCHANGED last
    BY <1>1, <1>3 DEF StartInv, packetVars
  <2>2. ASSUME NEW s \in Session, Start(s) PROVE StartInv'
    <3>1. /\ s \notin started /\ started' = started \cup {s}
          /\ current'[s] = profiles["default"]
          /\ \A s2 \in Session \ {s} : current'[s2] = current[s2]
      BY <1>1, <2>2 DEF Start
    <3>2. atStart'[s] = profiles["default"] /\ \A s2 \in started : atStart'[s2] = atStart[s2]
      BY <1>1, <1>3, <3>1
    <3>. QED BY <1>1, <2>1, <3>1, <3>2 DEF StartInv
  <2>3. ASSUME UNCHANGED sessionVars PROVE StartInv'
    <3>1. started' = started /\ current' = current
      BY <2>3 DEF sessionVars
    <3>2. \A s \in started : atStart'[s] = atStart[s]
      BY <1>1, <1>3, <3>1
    <3>. QED BY <2>1, <3>1, <3>2 DEF StartInv
  <2>4. (\E s \in Session : Start(s)) \/ UNCHANGED sessionVars
    BY <1>3 DEF Next, PostProfile, DeleteProfile, RejectUpdate, Tick
  <2>. QED BY <2>2, <2>3, <2>4
<1>4. CASE UNCHANGED allVars
  BY <1>4 DEF allVars, vars, sessionVars, faultVars, packetVars, StartInv
<1>. QED BY <1>2, <1>3, <1>4 DEF FaultNext

\* What was posted when a session started accounts for what becomes of each of its
\* packets, whatever is posted or deleted in between (Session.cpp:63-65, 203-204).
THEOREM DecidedAsPosted == FaultSpec => []FateAsPostedAtStart
<1>1. FaultInit => StartInv
  BY NoFaultsIsAProfile DEF FaultInit, Init, StartInv
<1>2. ASSUME IInv, StartInv PROVE FateAsPostedAtStart
  <2> SUFFICES ASSUME last.session # "none"
               PROVE  Expected(atStart[last.session].knobs[last.dir], last.fate)
    BY DEF FateAsPostedAtStart
  <2>1. PICK p \in InUse : p = atStart[last.session]
    BY <1>2 DEF StartInv, IInv, SessionTypeOK, InUse
  <2>. QED BY <1>2, <2>1, FateExpected DEF StartInv, IInv
<1>. QED BY <1>1, <1>2, StepStart, Invariance, ControlAlone, PTL DEF FaultSpec

\* Types, the numbers of packets, and limits that hold in both directions of every
\* profile a session decides with.
THEOREM FaultTypes == FaultSpec => []FaultTypeOK
<1>1. IInv /\ DrawInv => FaultTypeOK
  BY DEF IInv, DrawInv, StoreTypeOK, RateTypeOK, SessionTypeOK, TypeOK, FaultTypeOK
<1>. QED BY <1>1, Invariance, ControlAlone, FaultDraws, PTL
==============================================================================
