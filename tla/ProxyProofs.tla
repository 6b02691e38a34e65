----------------------------- MODULE ProxyProofs -----------------------------
(***************************************************************************)
(* Proofs about Proxy for every limit and every number of connections: the  *)
(* bound on the sessions, the accept loop that no rejection ends, and that   *)
(* at most one session escapes shutdownAll().                               *)
(***************************************************************************)
EXTENDS Proxy, FiniteSetTheorems, TLAPS

\* What stop() leaves behind.
Stopping ==
  /\ mainAt \notin {"waiting", "stopProxy"} => ~running
  /\ ~acceptorOpen \/ acceptOp = "aborted" => ~running

\* Why one at most: the connection that passed onAccept's check before stop().
Missed ==
  AfterShutdownAll =>
    /\ ioAt = "creating" => sessions \subseteq told
    /\ \A s, t \in sessions \ told : s = t

IInv == TypeOK /\ Stopping /\ AcceptLoopAlive /\ SessionBound /\ Missed

LEMMA InitIInv == Init => IInv
<1> SUFFICES ASSUME Init PROVE IInv
  OBVIOUS
<1> USE DEF Init
<1>1. TypeOK
  <2>1. LoopTypeOK
    BY DEF LoopTypeOK
  <2>2. SessionTypeOK
    BY DEF SessionTypeOK
  <2>3. ThreadTypeOK
    BY DEF ThreadTypeOK, Steps
  <2>4. HistoryTypeOK
    BY DEF HistoryTypeOK
  <2>. QED BY <2>1, <2>2, <2>3, <2>4 DEF TypeOK
<1>2. Stopping /\ AcceptLoopAlive
  BY DEF Stopping, AcceptLoopAlive, Armed
<1>3. SessionBound
  <2>1. Count = 0
    BY FS_EmptySet DEF Count
  <2>. QED BY <2>1, ProxyAssumption DEF SessionBound
<1>4. Missed
  BY DEF Missed, AfterShutdownAll
<1>. QED BY <1>1, <1>2, <1>3, <1>4 DEF IInv

-----------------------------------------------------------------------------
(* Types. *)

LEMMA PostToType ==
  ASSUME strand \in [Session -> Seq(Handlers)], NEW S, NEW h \in Handlers, PostTo(S, h)
  PROVE  strand' \in [Session -> Seq(Handlers)]
BY DEF PostTo

LEMMA AfterValues ==
  /\ After("waiting") = "stopProxy" /\ After("stopProxy") = "closeAcceptor"
  /\ After("closeAcceptor") = "stopControl" /\ After("stopControl") = "joinControl"
  /\ After("joinControl") = "shutdownAll" /\ After("shutdownAll") = "forceCloseAll"
  /\ After("forceCloseAll") = "stopLoop" /\ After("stopLoop") = "joinLoop"
  /\ After("joinLoop") = "freeManager" /\ After("freeManager") = "freeLoop"
  /\ After("freeLoop") = "done"
BY DEF After

LEMMA AfterType == \A step \in Steps \ {"done"} : After(step) \in Steps
BY DEF After, Steps

LEMMA StepTypeOK ==
  ASSUME TypeOK, Next
  PROVE  TypeOK'
<1> USE DEF loopVars, sessionVars, mainVars, controlVars
<1>1. ASSUME NEW res \in {"ok", "error"}, KernelAccepts(res) PROVE TypeOK'
  <2>1. SessionTypeOK' /\ ThreadTypeOK' /\ HistoryTypeOK'
    BY <1>1 DEF KernelAccepts, TypeOK, SessionTypeOK, ThreadTypeOK, HistoryTypeOK
  <2>2. LoopTypeOK'
    BY <1>1 DEF KernelAccepts, TypeOK, LoopTypeOK
  <2>. QED BY <2>1, <2>2 DEF TypeOK
<1>2. ASSUME OnAccept PROVE TypeOK'
  <2>1. SessionTypeOK' /\ ThreadTypeOK'
    BY <1>2 DEF OnAccept, TypeOK, SessionTypeOK, ThreadTypeOK, Handled
  <2>2. LoopTypeOK'
    BY <1>2 DEF OnAccept, TypeOK, LoopTypeOK, Handled
  <2>3. HistoryTypeOK'
    BY <1>2 DEF OnAccept, TypeOK, HistoryTypeOK, Handled
  <2>. QED BY <2>1, <2>2, <2>3 DEF TypeOK
<1>3. ASSUME NEW s \in Session, CreateSession(s) PROVE TypeOK'
  <2>1. ThreadTypeOK'
    BY <1>3 DEF CreateSession, TypeOK, ThreadTypeOK
  <2>2. LoopTypeOK'
    BY <1>3 DEF CreateSession, TypeOK, LoopTypeOK, Rejected
  <2>3. SessionTypeOK'
    BY <1>3, PostToType DEF CreateSession, TypeOK, SessionTypeOK, Handlers
  <2>4. HistoryTypeOK'
    BY <1>3 DEF CreateSession, TypeOK, HistoryTypeOK
  <2>. QED BY <2>1, <2>2, <2>3, <2>4 DEF TypeOK
<1>4. ASSUME PostStart PROVE TypeOK'
  <2>1. ThreadTypeOK' /\ HistoryTypeOK'
    BY <1>4 DEF PostStart, TypeOK, ThreadTypeOK, HistoryTypeOK
  <2>2. LoopTypeOK'
    BY <1>4 DEF PostStart, TypeOK, LoopTypeOK
  <2>3. SessionTypeOK'
    BY <1>4, PostToType DEF PostStart, TypeOK, SessionTypeOK, Handlers
  <2>. QED BY <2>1, <2>2, <2>3 DEF TypeOK
<1>5. ASSUME DoAccept PROVE TypeOK'
  <2>1. SessionTypeOK' /\ ThreadTypeOK' /\ HistoryTypeOK'
    BY <1>5 DEF DoAccept, TypeOK, SessionTypeOK, ThreadTypeOK, HistoryTypeOK
  <2>2. LoopTypeOK'
    BY <1>5 DEF DoAccept, TypeOK, LoopTypeOK
  <2>. QED BY <2>1, <2>2 DEF TypeOK
<1>6. ASSUME ArmAccept PROVE TypeOK'
  <2>1. SessionTypeOK' /\ ThreadTypeOK' /\ HistoryTypeOK'
    BY <1>6 DEF ArmAccept, TypeOK, SessionTypeOK, ThreadTypeOK, HistoryTypeOK
  <2>2. LoopTypeOK'
    BY <1>6 DEF ArmAccept, TypeOK, LoopTypeOK
  <2>. QED BY <2>1, <2>2 DEF TypeOK
<1>7. ASSUME NEW s \in Session, RunPosted(s) PROVE TypeOK'
  <2>1. LoopTypeOK' /\ ThreadTypeOK' /\ HistoryTypeOK'
    BY <1>7 DEF RunPosted, TypeOK, LoopTypeOK, ThreadTypeOK, HistoryTypeOK
  <2>2. SessionTypeOK'
    BY <1>7 DEF RunPosted, TypeOK, SessionTypeOK, Handlers
  <2>. QED BY <2>1, <2>2 DEF TypeOK
<1>8. ASSUME NEW s \in Session, SessionEnds(s) PROVE TypeOK'
  <2>1. LoopTypeOK' /\ ThreadTypeOK' /\ HistoryTypeOK'
    BY <1>8 DEF SessionEnds, TypeOK, LoopTypeOK, ThreadTypeOK, HistoryTypeOK
  <2>2. SessionTypeOK'
    BY <1>8 DEF SessionEnds, TypeOK, SessionTypeOK
  <2>. QED BY <2>1, <2>2 DEF TypeOK
<1>9. ASSUME NEW s \in Session, LastHandlerRuns(s) PROVE TypeOK'
  <2>1. LoopTypeOK' /\ ThreadTypeOK' /\ HistoryTypeOK'
    BY <1>9 DEF LastHandlerRuns, TypeOK, LoopTypeOK, ThreadTypeOK, HistoryTypeOK
  <2>2. SessionTypeOK'
    BY <1>9 DEF LastHandlerRuns, TypeOK, SessionTypeOK
  <2>. QED BY <2>1, <2>2 DEF TypeOK
<1>10. ASSUME ControlAccepts PROVE TypeOK'
  <2>1. LoopTypeOK' /\ SessionTypeOK' /\ HistoryTypeOK'
    BY <1>10 DEF ControlAccepts, TypeOK, LoopTypeOK, SessionTypeOK, HistoryTypeOK
  <2>2. ThreadTypeOK'
    BY <1>10 DEF ControlAccepts, TypeOK, ThreadTypeOK
  <2>. QED BY <2>1, <2>2 DEF TypeOK
<1>11. ASSUME ControlAnswers PROVE TypeOK'
  <2>1. LoopTypeOK' /\ SessionTypeOK' /\ HistoryTypeOK'
    BY <1>11 DEF ControlAnswers, TypeOK, LoopTypeOK, SessionTypeOK, HistoryTypeOK
  <2>2. ThreadTypeOK'
    BY <1>11 DEF ControlAnswers, TypeOK, ThreadTypeOK
  <2>. QED BY <2>1, <2>2 DEF TypeOK
<1>12. ASSUME ControlThreadEnds PROVE TypeOK'
  <2>1. LoopTypeOK' /\ SessionTypeOK' /\ HistoryTypeOK'
    BY <1>12 DEF ControlThreadEnds, TypeOK, LoopTypeOK, SessionTypeOK, HistoryTypeOK
  <2>2. ThreadTypeOK'
    BY <1>12 DEF ControlThreadEnds, TypeOK, ThreadTypeOK
  <2>. QED BY <2>1, <2>2 DEF TypeOK
<1>13. ASSUME Signal PROVE TypeOK'
  <2>1. LoopTypeOK' /\ SessionTypeOK' /\ HistoryTypeOK'
    BY <1>13 DEF Signal, TypeOK, LoopTypeOK, SessionTypeOK, HistoryTypeOK
  <2>2. ThreadTypeOK'
    BY <1>13 DEF Signal, TypeOK, ThreadTypeOK
  <2>. QED BY <2>1, <2>2 DEF TypeOK
<1>14. ASSUME SeesSignal PROVE TypeOK'
  <2>1. LoopTypeOK' /\ SessionTypeOK' /\ HistoryTypeOK'
    BY <1>14 DEF SeesSignal, TypeOK, LoopTypeOK, SessionTypeOK, HistoryTypeOK, At
  <2>2. ThreadTypeOK'
    BY <1>14 DEF SeesSignal, TypeOK, ThreadTypeOK, At, After, Steps
  <2>. QED BY <2>1, <2>2 DEF TypeOK
<1>15. ASSUME StopProxy PROVE TypeOK'
  <2>1. LoopTypeOK' /\ SessionTypeOK' /\ HistoryTypeOK'
    BY <1>15 DEF StopProxy, TypeOK, LoopTypeOK, SessionTypeOK, HistoryTypeOK, At
  <2>2. ThreadTypeOK'
    BY <1>15 DEF StopProxy, TypeOK, ThreadTypeOK, At, After, Steps
  <2>. QED BY <2>1, <2>2 DEF TypeOK
<1>16. ASSUME CloseAcceptor PROVE TypeOK'
  <2>1. SessionTypeOK' /\ HistoryTypeOK'
    BY <1>16 DEF CloseAcceptor, TypeOK, SessionTypeOK, HistoryTypeOK, At
  <2>2. LoopTypeOK'
    BY <1>16 DEF CloseAcceptor, TypeOK, LoopTypeOK, At
  <2>3. ThreadTypeOK'
    BY <1>16 DEF CloseAcceptor, TypeOK, ThreadTypeOK, At, After, Steps
  <2>. QED BY <2>1, <2>2, <2>3 DEF TypeOK
<1>17. ASSUME StopControl PROVE TypeOK'
  <2>1. LoopTypeOK' /\ SessionTypeOK' /\ HistoryTypeOK'
    BY <1>17 DEF StopControl, TypeOK, LoopTypeOK, SessionTypeOK, HistoryTypeOK, At
  <2>2. ThreadTypeOK'
    BY <1>17 DEF StopControl, TypeOK, ThreadTypeOK, At, After, Steps
  <2>. QED BY <2>1, <2>2 DEF TypeOK
<1>18. ASSUME JoinControl PROVE TypeOK'
  <2>1. LoopTypeOK' /\ SessionTypeOK' /\ HistoryTypeOK'
    BY <1>18 DEF JoinControl, TypeOK, LoopTypeOK, SessionTypeOK, HistoryTypeOK, At
  <2>2. ThreadTypeOK'
    BY <1>18 DEF JoinControl, TypeOK, ThreadTypeOK, At, After, Steps
  <2>. QED BY <2>1, <2>2 DEF TypeOK
<1>19. ASSUME ShutdownAll PROVE TypeOK'
  <2>1. LoopTypeOK' /\ HistoryTypeOK'
    BY <1>19 DEF ShutdownAll, TypeOK, LoopTypeOK, HistoryTypeOK, At
  <2>2. SessionTypeOK'
    BY <1>19, PostToType DEF ShutdownAll, TypeOK, SessionTypeOK, At, Handlers
  <2>3. ThreadTypeOK'
    BY <1>19 DEF ShutdownAll, TypeOK, ThreadTypeOK, At, After, Steps
  <2>. QED BY <2>1, <2>2, <2>3 DEF TypeOK
<1>20. ASSUME ForceCloseAll PROVE TypeOK'
  <2>1. LoopTypeOK' /\ HistoryTypeOK'
    BY <1>20 DEF ForceCloseAll, TypeOK, LoopTypeOK, HistoryTypeOK, At
  <2>2. SessionTypeOK'
    BY <1>20, PostToType DEF ForceCloseAll, TypeOK, SessionTypeOK, At, Handlers
  <2>3. ThreadTypeOK'
    BY <1>20 DEF ForceCloseAll, TypeOK, ThreadTypeOK, At, After, Steps
  <2>. QED BY <2>1, <2>2, <2>3 DEF TypeOK
<1>21. ASSUME StopLoop PROVE TypeOK'
  <2>1. LoopTypeOK' /\ SessionTypeOK' /\ HistoryTypeOK'
    BY <1>21 DEF StopLoop, TypeOK, LoopTypeOK, SessionTypeOK, HistoryTypeOK, At
  <2>2. ThreadTypeOK'
    BY <1>21 DEF StopLoop, TypeOK, ThreadTypeOK, At, After, Steps
  <2>. QED BY <2>1, <2>2 DEF TypeOK
<1>22. ASSUME JoinLoop PROVE TypeOK'
  <2>1. LoopTypeOK' /\ SessionTypeOK' /\ HistoryTypeOK'
    BY <1>22 DEF JoinLoop, TypeOK, LoopTypeOK, SessionTypeOK, HistoryTypeOK, At
  <2>2. ThreadTypeOK'
    BY <1>22 DEF JoinLoop, TypeOK, ThreadTypeOK, At, After, Steps
  <2>. QED BY <2>1, <2>2 DEF TypeOK
<1>23. ASSUME FreeManager PROVE TypeOK'
  <2>1. LoopTypeOK' /\ HistoryTypeOK'
    BY <1>23 DEF FreeManager, TypeOK, LoopTypeOK, HistoryTypeOK, At
  <2>2. SessionTypeOK'
    BY <1>23, PostToType DEF FreeManager, TypeOK, SessionTypeOK, At, Handlers
  <2>3. ThreadTypeOK'
    BY <1>23 DEF FreeManager, TypeOK, ThreadTypeOK, At, After, Steps
  <2>. QED BY <2>1, <2>2, <2>3 DEF TypeOK
<1>24. ASSUME FreeLoop PROVE TypeOK'
  <2>1. LoopTypeOK'
    BY <1>24 DEF FreeLoop, TypeOK, LoopTypeOK, At
  <2>2. SessionTypeOK'
    BY <1>24 DEF FreeLoop, TypeOK, SessionTypeOK, At
  <2>3. ThreadTypeOK'
    BY <1>24 DEF FreeLoop, TypeOK, ThreadTypeOK, At, After, Steps
  <2>4. HistoryTypeOK'
    BY <1>24 DEF FreeLoop, TypeOK, HistoryTypeOK, At
  <2>. QED BY <2>1, <2>2, <2>3, <2>4 DEF TypeOK
<1>. QED BY <1>1, <1>2, <1>3, <1>4, <1>5, <1>6, <1>7, <1>8, <1>9, <1>10, <1>11, <1>12, <1>13, <1>14, <1>15, <1>16, <1>17, <1>18, <1>19, <1>20, <1>21, <1>22, <1>23, <1>24
         DEF Next, AcceptLoop, Main

-----------------------------------------------------------------------------
(* The invariants. *)

LEMMA StepStopping ==
  ASSUME TypeOK, Stopping, Next
  PROVE  Stopping'
<1> USE DEF Stopping, loopVars, sessionVars, mainVars, controlVars
<1>1. ASSUME NEW res \in {"ok", "error"}, KernelAccepts(res) PROVE Stopping'
  BY <1>1
     DEF KernelAccepts
<1>2. ASSUME OnAccept PROVE Stopping'
  BY <1>2
     DEF OnAccept, Handled
<1>3. ASSUME ArmAccept PROVE Stopping'
  BY <1>3
     DEF ArmAccept
<1>4. ASSUME NEW s \in Session, CreateSession(s) PROVE Stopping'
  BY <1>4
     DEF CreateSession
<1>5. ASSUME PostStart \/ DoAccept \/ (\E s \in Session : RunPosted(s))
        \/ (\E s \in Session : SessionEnds(s))
        \/ (\E s \in Session : LastHandlerRuns(s)) \/ ControlAccepts \/ ControlAnswers
        \/ ControlThreadEnds \/ Signal
      PROVE  Stopping'
  BY <1>5
     DEF PostStart, DoAccept, RunPosted, SessionEnds, LastHandlerRuns, ControlAccepts, ControlAnswers, ControlThreadEnds, Signal
<1>6. ASSUME SeesSignal \/ StopProxy
      PROVE  Stopping'
  BY <1>6, AfterValues
     DEF SeesSignal, StopProxy, At
<1>7. ASSUME CloseAcceptor PROVE Stopping'
  BY <1>7, AfterValues
     DEF CloseAcceptor, At
<1>8. ASSUME StopControl \/ JoinControl \/ ShutdownAll \/ ForceCloseAll \/ StopLoop
      PROVE  Stopping'
  BY <1>8, AfterValues
     DEF StopControl, JoinControl, ShutdownAll, ForceCloseAll, StopLoop, At
<1>9. ASSUME JoinLoop PROVE Stopping'
  BY <1>9, AfterValues
     DEF JoinLoop, At
<1>10. ASSUME FreeManager PROVE Stopping'
  BY <1>10, AfterValues
     DEF FreeManager, At
<1>11. ASSUME FreeLoop PROVE Stopping'
  BY <1>11, AfterValues
     DEF FreeLoop, At
<1>. QED BY <1>1, <1>2, <1>3, <1>4, <1>5, <1>6, <1>7, <1>8, <1>9, <1>10, <1>11
         DEF Next, AcceptLoop, Main

LEMMA StepAlive ==
  ASSUME TypeOK, Stopping, AcceptLoopAlive, Next
  PROVE  AcceptLoopAlive'
<1> USE DEF AcceptLoopAlive, Armed, loopVars, sessionVars, mainVars, controlVars
<1>1. ASSUME NEW res \in {"ok", "error"}, KernelAccepts(res) PROVE AcceptLoopAlive'
  BY <1>1
     DEF KernelAccepts
<1>2. ASSUME OnAccept PROVE AcceptLoopAlive'
  BY <1>2
     DEF OnAccept, Handled, TypeOK, LoopTypeOK, LoopIsFree, Stopping, HistoryTypeOK
<1>3. ASSUME ArmAccept PROVE AcceptLoopAlive'
  BY <1>3
     DEF ArmAccept
<1>4. ASSUME NEW s \in Session, CreateSession(s) PROVE AcceptLoopAlive'
  BY <1>4
     DEF CreateSession, Rejected
<1>5. ASSUME PostStart \/ DoAccept
      PROVE  AcceptLoopAlive'
  BY <1>5
     DEF PostStart, DoAccept
<1>6. ASSUME (\E s \in Session : RunPosted(s)) \/ (\E s \in Session : SessionEnds(s))
        \/ (\E s \in Session : LastHandlerRuns(s)) \/ ControlAccepts \/ ControlAnswers
        \/ ControlThreadEnds \/ Signal
      PROVE  AcceptLoopAlive'
  BY <1>6
     DEF RunPosted, SessionEnds, LastHandlerRuns, ControlAccepts, ControlAnswers, ControlThreadEnds, Signal
<1>7. ASSUME SeesSignal \/ StopProxy
      PROVE  AcceptLoopAlive'
  BY <1>7
     DEF SeesSignal, StopProxy, At
<1>8. ASSUME CloseAcceptor PROVE AcceptLoopAlive'
  BY <1>8
     DEF CloseAcceptor, At
<1>9. ASSUME StopControl \/ JoinControl \/ ShutdownAll \/ ForceCloseAll \/ StopLoop
      PROVE  AcceptLoopAlive'
  BY <1>9, AfterValues
     DEF StopControl, JoinControl, ShutdownAll, ForceCloseAll, StopLoop, At
<1>10. ASSUME JoinLoop \/ FreeManager \/ FreeLoop
      PROVE  AcceptLoopAlive'
  BY <1>10
     DEF JoinLoop, FreeManager, FreeLoop, At
<1>. QED BY <1>1, <1>2, <1>3, <1>4, <1>5, <1>6, <1>7, <1>8, <1>9, <1>10
         DEF Next, AcceptLoop, Main

LEMMA FiniteSessions == TypeOK => IsFiniteSet(sessions) /\ Count \in Nat
<1> SUFFICES ASSUME TypeOK PROVE IsFiniteSet(sessions) /\ Count \in Nat
  OBVIOUS
<1>1. sessions \subseteq Session
  BY DEF TypeOK, SessionTypeOK
<1>2. IsFiniteSet(sessions)
  BY <1>1, ProxyAssumption, FS_Subset
<1>. QED BY <1>2, FS_CardinalityType DEF Count

LEMMA FewerSessions ==
  ASSUME TypeOK, SessionBound, sessions' \subseteq sessions
  PROVE  SessionBound'
<1>1. IsFiniteSet(sessions) /\ Count \in Nat
  BY FiniteSessions
<1>2. IsFiniteSet(sessions') /\ Cardinality(sessions') <= Cardinality(sessions)
  BY <1>1, FS_Subset
<1>3. Cardinality(sessions') \in Nat
  BY <1>2, FS_CardinalityType
<1>. QED BY <1>1, <1>2, <1>3, ProxyAssumption DEF SessionBound, Count

LEMMA StepBound ==
  ASSUME TypeOK, SessionBound, Next
  PROVE  SessionBound'
<1> USE DEF loopVars, sessionVars, mainVars, controlVars
<1>1. ASSUME NEW s \in Session, CreateSession(s) PROVE SessionBound'
  <2>1. IsFiniteSet(sessions) /\ Count \in Nat /\ sessions \subseteq created
    BY FiniteSessions DEF TypeOK, SessionTypeOK
  <2>2. PICK admitted \in BOOLEAN, shed \in SUBSET sessions :
          /\ TryAdmit(admitted, shed)
          /\ IF admitted THEN sessions' = sessions \cup {s} ELSE UNCHANGED sessions
    BY <1>1 DEF CreateSession
  <2>3. CASE ~admitted
    <3>1. sessions' \subseteq sessions
      BY <2>2, <2>3
    <3>. QED BY <3>1, FewerSessions
  <2>4. CASE admitted
    <3>1. Count < MaxSessions
      BY <2>1, <2>2, <2>4, ProxyAssumption DEF TryAdmit
    <3>2. sessions' = sessions \cup {s} /\ s \notin sessions
      BY <1>1, <2>1, <2>2, <2>4 DEF CreateSession
    <3>3. Cardinality(sessions') = Cardinality(sessions) + 1
      BY <2>1, <3>2, FS_AddElement
    <3>. QED BY <2>1, <3>1, <3>3, ProxyAssumption DEF SessionBound, Count
  <2>. QED BY <2>3, <2>4
<1>2. ASSUME (\E res \in {"ok", "error"} : KernelAccepts(res)) \/ PostStart \/ DoAccept
        \/ ArmAccept
      PROVE  SessionBound'
  BY <1>2, FewerSessions
     DEF KernelAccepts, PostStart, DoAccept, ArmAccept
<1>3. ASSUME OnAccept PROVE SessionBound'
  BY <1>3, FewerSessions
     DEF OnAccept, Handled
<1>4. ASSUME NEW s \in Session, RunPosted(s) PROVE SessionBound'
  BY <1>4, FewerSessions
     DEF RunPosted
<1>5. ASSUME NEW s \in Session, SessionEnds(s) PROVE SessionBound'
  BY <1>5, FewerSessions
     DEF SessionEnds
<1>6. ASSUME (\E s \in Session : LastHandlerRuns(s)) \/ ControlAccepts \/ ControlAnswers
        \/ ControlThreadEnds \/ Signal
      PROVE  SessionBound'
  BY <1>6, FewerSessions
     DEF LastHandlerRuns, ControlAccepts, ControlAnswers, ControlThreadEnds, Signal
<1>7. ASSUME SeesSignal \/ StopProxy \/ CloseAcceptor \/ StopControl \/ JoinControl
      PROVE  SessionBound'
  BY <1>7, FewerSessions
     DEF SeesSignal, StopProxy, CloseAcceptor, StopControl, JoinControl
<1>8. ASSUME ShutdownAll \/ ForceCloseAll \/ StopLoop \/ JoinLoop
      PROVE  SessionBound'
  BY <1>8, FewerSessions
     DEF ShutdownAll, ForceCloseAll, StopLoop, JoinLoop
<1>9. ASSUME FreeManager PROVE SessionBound'
  BY <1>9, FewerSessions
     DEF FreeManager
<1>10. ASSUME FreeLoop PROVE SessionBound'
  BY <1>10, FewerSessions
     DEF FreeLoop
<1>. QED BY <1>1, <1>2, <1>3, <1>4, <1>5, <1>6, <1>7, <1>8, <1>9, <1>10
         DEF Next, AcceptLoop, Main

LEMMA StepMissed ==
  ASSUME TypeOK, Stopping, Missed, Next
  PROVE  Missed'
<1> USE DEF Missed, AfterShutdownAll, loopVars, sessionVars, mainVars, controlVars
<1>1. ASSUME OnAccept PROVE Missed'
  BY <1>1
     DEF OnAccept, Handled, Stopping
<1>2. ASSUME NEW s \in Session, CreateSession(s) PROVE Missed'
  BY <1>2
     DEF CreateSession, Rejected
<1>3. ASSUME (\E res \in {"ok", "error"} : KernelAccepts(res)) \/ PostStart \/ DoAccept
        \/ ArmAccept
      PROVE  Missed'
  BY <1>3
     DEF KernelAccepts, PostStart, DoAccept, ArmAccept
<1>4. ASSUME NEW s \in Session, RunPosted(s) PROVE Missed'
  BY <1>4
     DEF RunPosted
<1>5. ASSUME NEW s \in Session, SessionEnds(s) PROVE Missed'
  BY <1>5
     DEF SessionEnds
<1>6. ASSUME (\E s \in Session : LastHandlerRuns(s)) \/ ControlAccepts \/ ControlAnswers
        \/ ControlThreadEnds \/ Signal
      PROVE  Missed'
  BY <1>6
     DEF LastHandlerRuns, ControlAccepts, ControlAnswers, ControlThreadEnds, Signal
<1>7. ASSUME SeesSignal \/ StopProxy \/ CloseAcceptor
      PROVE  Missed'
  BY <1>7, AfterValues
     DEF SeesSignal, StopProxy, CloseAcceptor, At
<1>8. ASSUME StopControl \/ JoinControl
      PROVE  Missed'
  BY <1>8, AfterValues
     DEF StopControl, JoinControl, At
<1>9. ASSUME ShutdownAll PROVE Missed'
  BY <1>9, AfterValues
     DEF ShutdownAll, At
<1>10. ASSUME ForceCloseAll \/ StopLoop \/ JoinLoop
      PROVE  Missed'
  BY <1>10, AfterValues
     DEF ForceCloseAll, StopLoop, JoinLoop, At
<1>11. ASSUME FreeManager \/ FreeLoop
      PROVE  Missed'
  BY <1>11, AfterValues
     DEF FreeManager, FreeLoop, At
<1>. QED BY <1>1, <1>2, <1>3, <1>4, <1>5, <1>6, <1>7, <1>8, <1>9, <1>10, <1>11
         DEF Next, AcceptLoop, Main

LEMMA StepIInv == IInv /\ [Next]_vars => IInv'
<1> SUFFICES ASSUME IInv, [Next]_vars PROVE IInv'
  OBVIOUS
<1>1. CASE Next
  BY <1>1, StepTypeOK, StepStopping, StepAlive, StepBound, StepMissed DEF IInv
<1>2. CASE UNCHANGED vars
  <2> USE <1>2 DEF vars, loopVars, sessionVars, mainVars, controlVars
  <2>1. TypeOK'
    BY DEF IInv, TypeOK, LoopTypeOK, SessionTypeOK, ThreadTypeOK, HistoryTypeOK
  <2>2. Stopping' /\ AcceptLoopAlive'
    BY DEF IInv, Stopping, AcceptLoopAlive, Armed
  <2>3. SessionBound' /\ Missed'
    BY DEF IInv, SessionBound, Count, Missed, AfterShutdownAll
  <2>. QED BY <2>1, <2>2, <2>3 DEF IInv
<1>. QED BY <1>1, <1>2

-----------------------------------------------------------------------------
(* The theorems. *)

\* Acceptor, sessions, registry and main's shutdown agree after every handler and step.
THEOREM Invariance == Spec => []IInv
BY InitIInv, StepIInv, PTL DEF Spec

\* The variables keep their types; only sessions ever created are registered.
THEOREM TypeCorrect == Spec => []TypeOK
<1>1. IInv => TypeOK
  BY DEF IInv
<1>. QED BY <1>1, Invariance, PTL

\* tryAdmit and createSession never register more than MAX_SESSIONS sessions.
THEOREM SessionsAreBounded == Spec => []SessionBound
<1>1. IInv => SessionBound
  BY DEF IInv
<1>. QED BY <1>1, Invariance, PTL

\* onAccept arms the next accept whatever createSession answers.
THEOREM AcceptLoopGoesOn == Spec => []AcceptLoopAlive
<1>1. IInv => AcceptLoopAlive
  BY DEF IInv
<1>. QED BY <1>1, Invariance, PTL

\* shutdownAll() after stop() misses one session at most.
THEOREM OneMissedAtMost == Spec => []AtMostOneMissed
<1>1. IInv => AtMostOneMissed
  BY DEF IInv, Missed, AtMostOneMissed
<1>. QED BY <1>1, Invariance, PTL
==============================================================================
