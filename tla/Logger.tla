-------------------------------- MODULE Logger --------------------------------
(***************************************************************************)
(* The logger every thread shares (Logger.cpp): a live queue that is pruned *)
(* when it is full and a ring of the latest DEBUG entries.  log() works      *)
(* under one mutex, so that it is one action whichever thread calls it.      *)
(* Nothing takes entries from the live queue: it only ever loses what is     *)
(* pruned.                                                                  *)
(***************************************************************************)
EXTENDS Naturals, SequencesExt

CONSTANTS
  LiveMax,       \* LIVE_QUEUE_MAX
  BlackBoxSize,  \* BLACK_BOX_SIZE
  MaxEntries     \* bound: calls of log()

ASSUME LoggerAssumption ==
  LiveMax \in Nat \ {0} /\ BlackBoxSize \in Nat \ {0} /\ MaxEntries \in Nat

VARIABLES
  live,      \* liveQueue_
  blackBox,  \* blackBox_
  calls,     \* history: how many entries were logged,
  debugs,    \* history: those of them that are DEBUG,
  severe     \* history: and the WARN and ERROR entries that were written

vars == <<live, blackBox, calls, debugs, severe>>

Level == {"Debug", "Info", "Warn", "Error"}
Entry == [no : 1..MaxEntries, level : Level]

IsDebug(e)  == e.level = "Debug"
IsInfo(e)   == e.level = "Info"
IsSevere(e) == ~IsDebug(e) /\ ~IsInfo(e)

Init == live = <<>> /\ blackBox = <<>> /\ calls = 0 /\ debugs = <<>> /\ severe = {}

-----------------------------------------------------------------------------

PopNewest(ring) == SubSeq(ring, 1, Len(ring) - 1)   \* mutant: pop_back()
PopOldest(ring) == Tail(ring)

AddToBlackBox(e) ==
  blackBox' = IF IsDebug(e)
                THEN Append(IF Len(blackBox) >= BlackBoxSize THEN PopOldest(blackBox) ELSE blackBox, e)
                ELSE blackBox

PruneDebug(queue)  == RemoveFirstMatch(queue, IsDebug)   \* mutant: no second loop
PruneOldest(queue) == Tail(queue)                        \* mutant: pop_front()
\* pruneQueue() of a queue that is just full: the first DEBUG entry makes room,
\* and the first INFO entry if there is no DEBUG.
PruneQueue(queue) ==
  LET noDebug == RemoveFirstMatch(queue, IsDebug)
  IN  IF noDebug # queue THEN noDebug ELSE RemoveFirstMatch(queue, IsInfo)

HasRoomForOneMore(queue) == Len(queue) <= LiveMax   \* mutant
HasRoom(queue) == Len(queue) < LiveMax

Pruned == IF HasRoom(live) THEN live ELSE PruneQueue(live)

Log(level) ==
  /\ calls < MaxEntries /\ calls' = calls + 1
  /\ LET e == [no |-> calls + 1, level |-> level] IN
     /\ AddToBlackBox(e)
     /\ live' = IF HasRoom(Pruned) THEN Append(Pruned, e) ELSE Pruned
     /\ debugs' = IF IsDebug(e) THEN Append(debugs, e) ELSE debugs
     /\ severe' = IF IsSevere(e) /\ HasRoom(Pruned) THEN severe \cup {e} ELSE severe

Next == \E level \in Level : Log(level)

Spec == Init /\ [][Next]_vars

-----------------------------------------------------------------------------
(* Properties. *)

\* Types; log() keeps the live queue within 50K entries and the black box within 5K.
TypeOK ==
  /\ live \in Seq(Entry) /\ Len(live) <= LiveMax
  /\ blackBox \in Seq(Entry) /\ Len(blackBox) <= BlackBoxSize
  /\ calls \in 0..MaxEntries /\ debugs \in Seq(Entry) /\ severe \in SUBSET Entry

\* "Black box ring (5K DEBUG entries, preserved for post-mortem)": what
\* dumpBlackBox() prints at shutdown is the latest DEBUG entries, all of them as
\* far as the ring goes, in order, whatever the live queue has lost of them.
BlackBoxIsLatest ==
  LET n == IF Len(debugs) < BlackBoxSize THEN Len(debugs) ELSE BlackBoxSize
  IN  blackBox = SubSeq(debugs, Len(debugs) - n + 1, Len(debugs))

\* Pruning never takes a WARN or an ERROR.
SevereStays == severe \subseteq ToSet(live)

\* log() leaves an entry unwritten only when nothing in the queue can go.
SilentOnlyWhenStuck ==
  [][(\A e \in ToSet(live') : e.no # calls') => (\A e \in ToSet(live') : IsSevere(e))]_vars
==============================================================================
