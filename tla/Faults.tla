-------------------------------- MODULE Faults --------------------------------
(***************************************************************************)
(* The anomaly engine (AnomalyEngine.cpp, DeterministicRng.hpp) deciding on *)
(* the packets of sessions while their profiles come and go (Control).      *)
(* decide() has no state: it hashes the seed, the session, the direction    *)
(* and a sub-seed of the packet for each of its draws.  A key that was not  *)
(* hashed before gives any value, hence a free choice here; that no key     *)
(* comes twice is a property.                                               *)
(***************************************************************************)
EXTENDS Control, FiniteSets

CONSTANTS
  Hash,         \* what the hash of a key can be
  MaxRate,      \* ConfigLimits::MAX_RATE, in steps of the roll's resolution
  MaxPackets    \* bound: packets read

ASSUME FaultAssumption ==
  /\ MaxRate \in Nat \ {0} /\ MaxPackets \in Nat
  /\ Hash \subseteq Nat /\ {"latency", "jitter"} \subseteq Knob
  /\ 0 .. 2 * KnobLimit["jitter"] \subseteq Hash /\ 0 .. MaxRate - 1 \subseteq Hash
  /\ KnobLimit["latency"] + 2 * KnobLimit["jitter"] < HalfWord
  /\ \A k \in RateKnob \cap Knob : KnobLimit[k] = MaxRate

VARIABLES
  pktSeq,       \* clientPktSeq_, serverPktSeq_
  drawn,        \* history: the keys hashed for draws
  repeated,     \* history: some key was hashed twice
  last,         \* history: the packet decided last
  atStart       \* history: what the store held when a session started

packetVars == <<pktSeq, drawn, repeated, last>>
faultVars == <<packetVars, atStart>>
allVars   == <<vars, faultVars>>

Fate == {"Forward", "Delay", "Drop", "HalfClose", "Stall"}

-----------------------------------------------------------------------------
(* The draws. *)

Draw == 1..7   \* drop, half-close, stall, corruption, its offset, its mask, jitter

SubSeedShared(seq, draw) == seq * 7 + (IF draw = 6 THEN 5 ELSE draw)   \* mutant
SubSeed(seq, draw) == seq * 7 + draw

Key(s, d, sub) == <<s, d, sub>>

\* The keys decide() can hash for a packet, by draw.
Keys(s, d, seq) == [draw \in Draw |-> Key(s, d, SubSeed(seq, draw))]

-----------------------------------------------------------------------------
(* decide(). *)

\* A knob that no request can set stays zero.
Value(p, k) == IF k \in Knob THEN p[k] ELSE 0

\* uniform() lies in [0, 1): a rate of one always strikes, one that is no number never.
Strikes(rate, h) == rate # NaN /\ rate > 0 /\ h % MaxRate < rate

Signed(n) == IF n % Word < HalfWord THEN n % Word ELSE (n % Word) - Word

JitterSpanEven(jitter) == IF jitter = 0 THEN 1 ELSE (jitter * 2) % Word   \* mutant
JitterSpan(jitter) == (jitter * 2 + 1) % Word

Positive(n) == IF n > 0 THEN n ELSE 0

DelayMs(p, h) ==
  IF p["jitter"] = 0 THEN p["latency"]
  ELSE Positive(Signed(Signed(p["latency"])
                       + Signed(h % JitterSpan(p["jitter"])) - Signed(p["jitter"])))

\* The faults that can strike a packet together, each by its own draw.
Struck(p) ==
  {f \in SUBSET RateKnob :
     \A k \in RateKnob : \E h \in Hash : k \in f <=> Strikes(Value(p, k), h)}

\* What becomes of a packet that f strike, processed by Session: a corrupted packet
\* goes the way of others, and so does a throttled one.
FateOf(f, ms) ==
  IF "drop" \in f THEN "Drop"
  ELSE IF "halfClose" \in f THEN "HalfClose"
  ELSE IF "stall" \in f THEN "Stall"
  ELSE IF ms > 0 THEN "Delay" ELSE "Forward"

Fates(p) == {FateOf(f, DelayMs(p, h)) : f \in Struck(p), h \in Hash}

-----------------------------------------------------------------------------
(* Packets. *)

Latest(s) == profiles["default"]   \* mutant: the profile is read again
ProfileOf(s) == current[s]

Uncounted(s, d, fate) ==   \* mutant: only packets that pass are numbered
  IF fate \in {"Forward", "Delay"} THEN [pktSeq EXCEPT ![s][d] = @ + 1] ELSE pktSeq
Numbered(s, d, fate) == [pktSeq EXCEPT ![s][d] = @ + 1]

\* onClientRead, onServerRead up to the decision
Decide(s, d) ==
  /\ s \in started /\ Cardinality(drawn) < 7 * MaxPackets
  /\ \E fate \in Fates(ProfileOf(s).knobs[d]) :
       /\ last' = [session |-> s, dir |-> d, fate |-> fate]
       /\ pktSeq' = Numbered(s, d, fate)
  /\ LET key == Keys(s, d, pktSeq[s][d] + 1) IN
     /\ drawn' = drawn \cup {key[i] : i \in Draw}
     /\ repeated' = (repeated \/ \E i \in Draw : \/ key[i] \in drawn
                                                 \/ \E j \in Draw \ {i} : key[i] = key[j])
  /\ UNCHANGED <<vars, atStart>>

FaultInit ==
  /\ Init
  /\ pktSeq = [s \in Session |-> [d \in Dir |-> 0]]
  /\ drawn = {} /\ repeated = FALSE /\ last = [session |-> "none"]
  /\ atStart = [s \in Session |-> NoFaults]

FaultNext ==
  \/ /\ Next /\ UNCHANGED packetVars
     /\ atStart' = [s \in Session |-> IF s \in started' \ started THEN profiles["default"]
                                                               ELSE atStart[s]]
  \/ \E s \in Session, d \in Dir : Decide(s, d)

FaultSpec == FaultInit /\ [][FaultNext]_allVars

-----------------------------------------------------------------------------
(* Properties. *)

\* Types; every profile in use is within the limits of validate() in both directions,
\* but for rates that are no number.
FaultTypeOK == TypeOK /\ WithinLimits /\ pktSeq \in [Session -> [Dir -> Nat]]

\* "Use different sub-seeds for each decision type.  This ensures decisions are
\* independent" (AnomalyEngine.cpp:16-17): no two draws of the process, of one packet
\* or of two, whatever became of them, hash the same key.  It is why a choice of its
\* own for each packet, as Session.tla makes, stands for the engine.
DrawsAreFresh == ~repeated

\* What a user who posted these knobs may see become of a packet.
Possible(rate) == rate # NaN /\ rate > 0
Spared(k, faults) == \A f \in faults : Value(k, f) # MaxRate
Expected(k, fate) ==
  \/ fate = "Drop" /\ Possible(Value(k, "drop"))
  \/ fate = "HalfClose" /\ Possible(Value(k, "halfClose")) /\ Spared(k, {"drop"})
  \/ fate = "Stall" /\ Possible(Value(k, "stall")) /\ Spared(k, {"drop", "halfClose"})
  \/ /\ fate = "Delay" /\ k["latency"] + k["jitter"] > 0
     /\ Spared(k, {"drop", "halfClose", "stall"})
  \/ /\ fate = "Forward" /\ k["latency"] <= k["jitter"]
     /\ Spared(k, {"drop", "halfClose", "stall"})

\* What was posted when a session started, and for the packet's direction, accounts
\* for what becomes of its packets to the end, whatever is posted or deleted
\* meanwhile (Session.cpp:63-65, 203-204); in particular a fault at rate one leaves
\* nothing to those after it, and one at rate zero never strikes.
FateAsPostedAtStart ==
  last.session # "none" => Expected(atStart[last.session].knobs[last.dir], last.fate)

\* For what validate() lets through, 32 bits suffice: the delays are those from
\* latency - jitter to latency + jitter, all of them, cut off at zero; and a rate is
\* the share of the rolls that strike: none at zero or at no number, all at one.
DelayWithinProfile(k) ==
  {DelayMs(k, h) : h \in Hash}
    = {Positive(ms) : ms \in k["latency"] - k["jitter"] .. k["latency"] + k["jitter"]}
RateIsShare(rate) ==
  Cardinality({roll \in 0 .. MaxRate - 1 : Strikes(rate, roll)}) = IF rate = NaN THEN 0 ELSE rate

FaultsAsConfigured ==
  \A p \in InUse, d \in Dir :
    /\ DelayWithinProfile(p.knobs[d])
    /\ \A k \in RateKnob : RateIsShare(Value(p.knobs[d], k))
==============================================================================
