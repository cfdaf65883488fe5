-------------------------- MODULE RecordingProofs ---------------------------
(***************************************************************************)
(* Machine-checked proofs about Recording, for every number of sessions,   *)
(* samples and crashes, and whether or not the storage may fail.           *)
(***************************************************************************)
EXTENDS RecordingInv, TLAPS

USE DEF process, table, schedVars, taskVars, samples

-----------------------------------------------------------------------------
(***************************************************************************)
(* Type correctness: one step per action.                                  *)
(***************************************************************************)
LEMMA TypeInit == Init => TypeOK
BY BoundsAssumption DEF Init, TypeOK, All, NoSession

LEMMA TypeStep == TypeOK /\ [Next]_vars => TypeOK'
<1> SUFFICES ASSUME TypeOK, [Next]_vars PROVE TypeOK'
  OBVIOUS
<1>1. ASSUME NEW s \in Sessions, CreateSession(s) PROVE TypeOK'
  <2>1. lastId' \in 0..MaxSessions /\ row'[s] = "open" /\ starter'[s] = "created"
    BY <1>1, BoundsAssumption DEF TypeOK, CreateSession, Sessions
  <2>2. QED
    BY <1>1, <2>1 DEF TypeOK, CreateSession
<1>2. ASSUME NEW s \in Sessions, SchedulerStartFails(s) PROVE TypeOK'
  BY <1>2 DEF TypeOK, SchedulerStartFails
<1>3. ASSUME NEW s \in Sessions, SchedulerStarts(s) PROVE TypeOK'
  BY <1>3 DEF TypeOK, SchedulerStarts
<1>4. ASSUME NEW s \in Sessions, SpawnTasks(s) PROVE TypeOK'
  BY <1>4 DEF TypeOK, SpawnTasks
<1>5. ASSUME NEW s \in Sessions, InstallSession(s) PROVE TypeOK'
  BY <1>5 DEF TypeOK, InstallSession
<1>6. ASSUME NEW s \in Sessions, SchedulerSends(s) PROVE TypeOK'
  BY BoundsAssumption, <1>6 DEF TypeOK, SchedulerSends
<1>7. ASSUME NEW s \in Sessions, SchedulerDies(s) PROVE TypeOK'
  BY <1>7 DEF TypeOK, SchedulerDies
<1>8. ASSUME NEW s \in Sessions, SchedulerCancelled(s) PROVE TypeOK'
  BY <1>8 DEF TypeOK, SchedulerCancelled
<1>9. ASSUME NEW s \in Sessions, SchedulerNotifies(s) PROVE TypeOK'
  BY <1>9 DEF TypeOK, SchedulerNotifies
<1>10. ASSUME NEW s \in Sessions, WriterReceives(s) PROVE TypeOK'
  BY BoundsAssumption, <1>10 DEF TypeOK, WriterReceives
<1>11. ASSUME NEW s \in Sessions, WriterFlushes(s) PROVE TypeOK'
  BY <1>11 DEF TypeOK, WriterFlushes, DrainAndWrite
<1>12. ASSUME NEW s \in Sessions, WriterSeesClosed(s) PROVE TypeOK'
  BY <1>12 DEF TypeOK, WriterSeesClosed, DrainAndWrite, Closed
<1>13. ASSUME NEW s \in Sessions, WriterFinishes(s) PROVE TypeOK'
  BY <1>13 DEF TypeOK, WriterFinishes, FinishSession, StampEnd, Stamps
<1>14. ASSUME NEW s \in Sessions, PumpGivesUp(s) PROVE TypeOK'
  BY <1>14 DEF TypeOK, PumpGivesUp
<1>15. ASSUME NEW s \in Sessions, PumpSeesClosed(s) PROVE TypeOK'
  BY <1>15 DEF TypeOK, PumpSeesClosed, Closed
<1>16. ASSUME NEW s \in Sessions, WatcherWakes(s) PROVE TypeOK'
  BY <1>16 DEF TypeOK, WatcherWakes
<1>17. ASSUME NEW s \in Sessions, WatcherAnnounces(s) PROVE TypeOK'
  BY <1>17 DEF TypeOK, WatcherAnnounces
<1>18. ASSUME NEW s \in Sessions, WatcherCleans(s) PROVE TypeOK'
  BY <1>18 DEF TypeOK, WatcherCleans, NoSession
<1>19. ASSUME NEW s \in Sessions, StopRaisesFlag(s) PROVE TypeOK'
  BY <1>19 DEF TypeOK, StopRaisesFlag
<1>20. ASSUME NEW s \in Sessions, StopCancels(s) PROVE TypeOK'
  BY <1>20 DEF TypeOK, StopCancels
<1>21. ASSUME NEW s \in Sessions, StopJoinsScheduler(s) PROVE TypeOK'
  BY <1>21 DEF TypeOK, StopJoinsScheduler
<1>22. ASSUME NEW s \in Sessions, StopJoinsWriter(s) PROVE TypeOK'
  BY <1>22 DEF TypeOK, StopJoinsWriter
<1>23. ASSUME NEW s \in Sessions, StopFinishes(s) PROVE TypeOK'
  BY <1>23 DEF TypeOK, StopFinishes, FinishSession, StampEnd, Stamps
<1>24. ASSUME NEW s \in Sessions, DeleteSession(s) PROVE TypeOK'
  BY <1>24 DEF TypeOK, DeleteSession, Stamps
<1>25. CASE StopSession
  BY <1>25 DEF TypeOK, StopSession, NoSession
<1>26. CASE Crash
  <2>1. crashes' \in 0..MaxCrashes
    BY <1>26, BoundsAssumption DEF TypeOK, Crash
  <2>2. starter' \in [Sessions -> {"idle", "gone"}]
    BY <1>26 DEF Crash
  <2>3. QED
    BY <1>26, <2>1, <2>2 DEF TypeOK, Crash, All, NoSession
<1>27. CASE Restart
  BY <1>27 DEF TypeOK, Restart, Stamps
<1>28. CASE UNCHANGED vars
  BY <1>28 DEF TypeOK, vars
<1>29. QED
  BY <1>1, <1>2, <1>3, <1>4, <1>5, <1>6, <1>7, <1>8, <1>9, <1>10, <1>11,
     <1>12, <1>13, <1>14, <1>15, <1>16, <1>17, <1>18, <1>19, <1>20, <1>21,
     <1>22, <1>23, <1>24, <1>25, <1>26, <1>27, <1>28 DEF Next, StartStep,
     WriterStep, WatcherStep, StopStep

\* Every variable keeps its type, whatever the interleaving.
THEOREM TypeCorrect == Spec => []TypeOK
<1>1. QED
  BY TypeInit, TypeStep, PTL DEF Spec

-----------------------------------------------------------------------------
(***************************************************************************)
(* A step of one session leaves the others alone, with one exception: an   *)
(* InstallSession hands the displaced session to its stop.                 *)
(***************************************************************************)
Same(t) ==
    /\ up' = up
    /\ t <= lastId' <=> t <= lastId
    /\ slot' = t <=> slot = t
    /\ row'[t] = row[t] /\ stored'[t] = stored[t]
    /\ starter'[t] = starter[t] /\ sched'[t] = sched[t] /\ died'[t] = died[t]
    /\ permit'[t] = permit[t] /\ cancel'[t] = cancel[t]
    /\ handle'[t] = handle[t] /\ userStopping'[t] = userStopping[t]
    /\ sent'[t] = sent[t] /\ unread'[t] = unread[t] /\ batch'[t] = batch[t]
    /\ writer'[t] = writer[t] /\ pump'[t] = pump[t] /\ watcher'[t] = watcher[t]
    /\ stopper'[t] = stopper[t] /\ ended'[t] = ended[t]

LEMMA Frame ==
  ASSUME NEW t \in Sessions, SessionInv(t), Same(t)
  PROVE  SessionInv(t)'
BY DEF Same, SessionInv, IdInv, Dormant, LifeInv, StopInv, ChannelInv, EventInv,
       RowInv

LEMMA OthersSame ==
  ASSUME TypeOK, NEW s \in Sessions, NEW t \in Sessions, t # s,
         \/ CreateSession(s) \/ SchedulerStartFails(s) \/ SchedulerStarts(s)
         \/ SpawnTasks(s) \/ SchedulerSends(s) \/ SchedulerDies(s)
         \/ SchedulerCancelled(s) \/ SchedulerNotifies(s) \/ WriterStep(s)
         \/ PumpGivesUp(s) \/ PumpSeesClosed(s) \/ WatcherStep(s)
         \/ StopStep(s) \/ DeleteSession(s)
  PROVE  Same(t)
<1>1. CASE CreateSession(s)
  <2>1. t <= lastId' <=> t <= lastId
    <3>1. lastId' = lastId + 1 /\ s = lastId + 1
      BY <1>1 DEF CreateSession
    <3>2. lastId \in Nat /\ t \in Nat
      BY BoundsAssumption DEF TypeOK, Sessions
    <3>3. QED
      BY <3>1, <3>2
  <2>2. row'[t] = row[t] /\ starter'[t] = starter[t]
    BY <1>1 DEF TypeOK, CreateSession
  <2>3. UNCHANGED <<process, stored, slot, schedVars, cancel, handle,
                    userStopping, samples, taskVars, stopper, ended>>
    BY <1>1 DEF CreateSession
  <2>4. QED
    BY <2>1, <2>2, <2>3 DEF Same
<1>2. CASE SchedulerStartFails(s)
  BY <1>2 DEF TypeOK, SchedulerStartFails, Same
<1>3. CASE SchedulerStarts(s)
  BY <1>3 DEF TypeOK, SchedulerStarts, Same
<1>4. CASE SpawnTasks(s)
  BY <1>4 DEF TypeOK, SpawnTasks, Same
<1>5. CASE SchedulerSends(s)
  BY <1>5 DEF TypeOK, SchedulerSends, Same
<1>6. CASE SchedulerDies(s)
  BY <1>6 DEF TypeOK, SchedulerDies, Same
<1>7. CASE SchedulerCancelled(s)
  BY <1>7 DEF TypeOK, SchedulerCancelled, Same
<1>8. CASE SchedulerNotifies(s)
  BY <1>8 DEF TypeOK, SchedulerNotifies, Same
<1>9. CASE WriterReceives(s)
  BY <1>9 DEF TypeOK, WriterReceives, Same
<1>10. CASE WriterFlushes(s)
  BY <1>10 DEF TypeOK, WriterFlushes, DrainAndWrite, Same
<1>11. CASE WriterSeesClosed(s)
  BY <1>11 DEF TypeOK, WriterSeesClosed, DrainAndWrite, Closed, Same
<1>12. CASE WriterFinishes(s)
  BY <1>12 DEF TypeOK, WriterFinishes, FinishSession, StampEnd, Same
<1>13. CASE PumpGivesUp(s)
  BY <1>13 DEF TypeOK, PumpGivesUp, Same
<1>14. CASE PumpSeesClosed(s)
  BY <1>14 DEF TypeOK, PumpSeesClosed, Closed, Same
<1>15. CASE WatcherWakes(s)
  BY <1>15 DEF TypeOK, WatcherWakes, Same
<1>16. CASE WatcherAnnounces(s)
  BY <1>16 DEF TypeOK, WatcherAnnounces, Same
<1>17. CASE WatcherCleans(s)
  <2>1. slot' = t <=> slot = t
    BY <1>17, BoundsAssumption DEF WatcherCleans, NoSession, Sessions
  <2>2. QED
    BY <1>17, <2>1 DEF TypeOK, WatcherCleans, Same
<1>18. CASE StopRaisesFlag(s)
  BY <1>18 DEF TypeOK, StopRaisesFlag, Same
<1>19. CASE StopCancels(s)
  BY <1>19 DEF TypeOK, StopCancels, Same
<1>20. CASE StopJoinsScheduler(s)
  BY <1>20 DEF TypeOK, StopJoinsScheduler, Same
<1>21. CASE StopJoinsWriter(s)
  BY <1>21 DEF TypeOK, StopJoinsWriter, Same
<1>22. CASE StopFinishes(s)
  BY <1>22 DEF TypeOK, StopFinishes, FinishSession, StampEnd, Same
<1>23. CASE DeleteSession(s)
  BY <1>23 DEF TypeOK, DeleteSession, Same
<1>24. QED
  BY <1>1, <1>2, <1>3, <1>4, <1>5, <1>6, <1>7, <1>8, <1>9, <1>10, <1>11,
     <1>12, <1>13, <1>14, <1>15, <1>16, <1>17, <1>18, <1>19, <1>20, <1>21,
     <1>22, <1>23 DEF WriterStep, WatcherStep, StopStep

-----------------------------------------------------------------------------
(***************************************************************************)
(* A step of a session preserves its own invariant: one step per action.   *)
(***************************************************************************)
LEMMA OwnStep ==
  ASSUME TypeOK, NEW s \in Sessions, SessionInv(s),
         \/ CreateSession(s) \/ StartStep(s) \/ SchedulerSends(s)
         \/ SchedulerDies(s) \/ SchedulerCancelled(s) \/ SchedulerNotifies(s)
         \/ WriterStep(s) \/ PumpGivesUp(s) \/ PumpSeesClosed(s)
         \/ WatcherStep(s) \/ StopStep(s) \/ DeleteSession(s)
  PROVE  SessionInv(s)'
<1> USE DEF SessionInv, IdInv, LifeInv, StopInv, ChannelInv, EventInv, RowInv,
            Dormant
<1>1. CASE CreateSession(s)
  BY BoundsAssumption, <1>1 DEF TypeOK, CreateSession, Sessions
<1>2. CASE SchedulerStartFails(s)
  BY <1>2 DEF TypeOK, SchedulerStartFails
<1>3. CASE SchedulerStarts(s)
  BY <1>3 DEF TypeOK, SchedulerStarts
<1>4. CASE SpawnTasks(s)
  BY <1>4 DEF TypeOK, SpawnTasks
<1>5. CASE InstallSession(s)
  BY <1>5 DEF TypeOK, InstallSession, NoSession
<1>6. CASE SchedulerSends(s)
  BY BoundsAssumption, <1>6 DEF TypeOK, SchedulerSends
<1>7. CASE SchedulerDies(s)
  BY <1>7 DEF TypeOK, SchedulerDies
<1>8. CASE SchedulerCancelled(s)
  BY <1>8 DEF TypeOK, SchedulerCancelled
<1>9. CASE SchedulerNotifies(s)
  BY <1>9 DEF TypeOK, SchedulerNotifies
<1>10. CASE WriterReceives(s)
  BY BoundsAssumption, <1>10 DEF TypeOK, WriterReceives
<1>11. CASE WriterFlushes(s)
  BY <1>11 DEF TypeOK, WriterFlushes, DrainAndWrite, Stamps, StorageMayFail
<1>12. CASE WriterSeesClosed(s)
  BY <1>12 DEF TypeOK, WriterSeesClosed, DrainAndWrite, Closed, Stamps,
        StorageMayFail
<1>13. CASE WriterFinishes(s)
  BY <1>13 DEF TypeOK, WriterFinishes, FinishSession, StampEnd, Stamps,
        StorageMayFail
<1>14. CASE PumpGivesUp(s)
  BY <1>14 DEF TypeOK, PumpGivesUp
<1>15. CASE PumpSeesClosed(s)
  BY <1>15 DEF TypeOK, PumpSeesClosed, Closed
<1>16. CASE WatcherWakes(s)
  BY <1>16 DEF TypeOK, WatcherWakes
<1>17. CASE WatcherAnnounces(s)
  BY <1>17 DEF TypeOK, WatcherAnnounces
<1>18. CASE WatcherCleans(s)
  <2>0. s # NoSession
    BY BoundsAssumption DEF Sessions, NoSession
  <2>1. CASE slot = s
    BY <1>18, <2>0, <2>1 DEF TypeOK, WatcherCleans
  <2>2. CASE slot # s
    BY <1>18, <2>2 DEF TypeOK, WatcherCleans
  <2>3. QED
    BY <2>1, <2>2
<1>19. CASE StopRaisesFlag(s)
  BY <1>19 DEF TypeOK, StopRaisesFlag
<1>20. CASE StopCancels(s)
  BY <1>20 DEF TypeOK, StopCancels
<1>21. CASE StopJoinsScheduler(s)
  BY <1>21 DEF TypeOK, StopJoinsScheduler
<1>22. CASE StopJoinsWriter(s)
  BY <1>22 DEF TypeOK, StopJoinsWriter
<1>23. CASE StopFinishes(s)
  BY <1>23 DEF TypeOK, StopFinishes, FinishSession, StampEnd, Stamps,
        StorageMayFail
<1>24. CASE DeleteSession(s)
  BY <1>24 DEF TypeOK, DeleteSession, Stamps
<1>25. QED
  BY <1>1, <1>2, <1>3, <1>4, <1>5, <1>6, <1>7, <1>8, <1>9, <1>10, <1>11,
     <1>12, <1>13, <1>14, <1>15, <1>16, <1>17, <1>18, <1>19, <1>20, <1>21,
     <1>22, <1>23, <1>24 DEF StartStep, WriterStep, WatcherStep, StopStep

-----------------------------------------------------------------------------
(***************************************************************************)
(* The steps that concern several sessions at once                         *)
(***************************************************************************)

\* The displaced session gets its stop; any other one does not notice.
LEMMA DisplacedStep ==
  ASSUME TypeOK, NEW s \in Sessions, NEW t \in Sessions, t # s,
         SessionInv(s), SessionInv(t), InstallSession(s)
  PROVE  SessionInv(t)'
<1>1. CASE slot = t
  <2>1. t # NoSession
    BY BoundsAssumption DEF Sessions, NoSession
  <2>2. slot' # t /\ stopper'[t] = "taken"
    BY <1>1, <2>1 DEF TypeOK, InstallSession
  <2>3. QED
    BY <1>1, <2>2 DEF TypeOK, InstallSession, SessionInv, IdInv, LifeInv, StopInv,
       ChannelInv, EventInv, RowInv, Dormant
<1>2. CASE slot # t
  <2>1. Same(t)
    BY <1>2 DEF TypeOK, InstallSession, Same
  <2>2. QED
    BY <2>1, Frame
<1>3. QED
  BY <1>1, <1>2

LEMMA StopSessionStep ==
  ASSUME TypeOK, NEW t \in Sessions, SessionInv(t), StopSession
  PROVE  SessionInv(t)'
<1>1. CASE slot = t
  <2>1. slot' # t /\ stopper'[t] = "taken"
    BY <1>1, BoundsAssumption DEF TypeOK, StopSession, Sessions, NoSession
  <2>2. QED
    BY <1>1, <2>1 DEF TypeOK, StopSession, SessionInv, IdInv, LifeInv, StopInv,
       ChannelInv, EventInv, RowInv, Dormant
<1>2. CASE slot # t
  <2>1. slot' # t
    BY BoundsAssumption DEF StopSession, Sessions, NoSession
  <2>2. Same(t)
    BY <1>2, <2>1 DEF TypeOK, StopSession, Same
  <2>3. QED
    BY <2>2, Frame
<1>3. QED
  BY <1>1, <1>2

LEMMA CrashStep ==
  ASSUME TypeOK, NEW t \in Sessions, SessionInv(t), Crash
  PROVE  SessionInv(t)'
<1>1. t # NoSession
  BY BoundsAssumption DEF Sessions, NoSession
<1>2. starter'[t] = IF starter[t] = "idle" THEN "idle" ELSE "gone"
  BY DEF Crash
<1>3. Dormant(t)'
  BY <1>1 DEF Crash, All, Dormant
<1>4. ~up' /\ lastId' = lastId /\ row' = row /\ stored' = stored
      /\ died' = died /\ sent' = sent /\ ended' = ended
  BY DEF Crash
<1>5. IdInv(t)'
  BY <1>2, <1>4 DEF SessionInv, IdInv
<1>6. LifeInv(t)'
  BY <1>2, <1>3, <1>4 DEF SessionInv, LifeInv
<1>7. StopInv(t)' /\ ChannelInv(t)'
  BY <1>3, <1>4 DEF TypeOK, SessionInv, StopInv, ChannelInv, Dormant
<1>8. EventInv(t)'
  BY <1>2, <1>3, <1>4 DEF SessionInv, EventInv, LifeInv, Dormant
<1>9. RowInv(t)'
  BY <1>2, <1>3, <1>4 DEF TypeOK, SessionInv, RowInv, IdInv, LifeInv, Dormant
<1>10. QED
  BY <1>5, <1>6, <1>7, <1>8, <1>9 DEF SessionInv

LEMMA RestartStep ==
  ASSUME TypeOK, NEW t \in Sessions, SessionInv(t), Restart
  PROVE  SessionInv(t)'
<1>1. row'[t] = IF row[t] = "open" THEN "cleanup" ELSE row[t]
  BY DEF Restart
<1>2. QED
  BY <1>1 DEF TypeOK, Restart, SessionInv, IdInv, LifeInv, StopInv, ChannelInv,
     EventInv, RowInv, Dormant

LEMMA InvInit == Init => IInv
<1> SUFFICES ASSUME Init PROVE IInv
  OBVIOUS
<1>1. ASSUME NEW s \in Sessions PROVE SessionInv(s)
  <2>1. s # NoSession /\ ~(s <= lastId)
    BY BoundsAssumption DEF Init, Sessions, NoSession
  <2>2. QED
    BY <2>1 DEF Init, All, SessionInv, IdInv, LifeInv, StopInv, ChannelInv,
       EventInv, RowInv, Dormant
<1>2. QED
  BY <1>1, TypeInit DEF IInv

LEMMA InvStep == IInv /\ [Next]_vars => IInv'
<1> SUFFICES ASSUME IInv, [Next]_vars PROVE IInv'
  OBVIOUS
<1>1. TypeOK /\ TypeOK'
  BY TypeStep DEF IInv
<1>2. \A t \in Sessions : SessionInv(t)
  BY DEF IInv
<1>3. ASSUME NEW t \in Sessions PROVE SessionInv(t)'
  <2>1. ASSUME NEW s \in Sessions,
               \/ CreateSession(s) \/ StartStep(s)
               \/ SchedulerSends(s) \/ SchedulerDies(s)
               \/ SchedulerCancelled(s) \/ SchedulerNotifies(s)
               \/ WriterStep(s) \/ PumpGivesUp(s) \/ PumpSeesClosed(s)
               \/ WatcherStep(s) \/ StopStep(s) \/ DeleteSession(s)
        PROVE  SessionInv(t)'
    <3>1. CASE t = s
      BY <1>1, <1>2, <2>1, <3>1, OwnStep
    <3>2. CASE t # s /\ InstallSession(s)
      BY <1>1, <1>2, <3>2, DisplacedStep
    <3>3. CASE t # s /\ ~InstallSession(s)
      <4>1. Same(t)
        BY <1>1, <2>1, <3>3, OthersSame DEF StartStep
      <4>2. QED
        BY <1>2, <4>1, Frame
    <3>4. QED
      BY <3>1, <3>2, <3>3
  <2>2. CASE StopSession
    BY <1>1, <1>2, <2>2, StopSessionStep
  <2>3. CASE Crash
    BY <1>1, <1>2, <2>3, CrashStep
  <2>4. CASE Restart
    BY <1>1, <1>2, <2>4, RestartStep
  <2>5. CASE UNCHANGED vars
    <3>1. Same(t)
      BY <2>5 DEF vars, Same
    <3>2. QED
      BY <1>2, <3>1, Frame
  <2>6. QED
    BY <2>1, <2>2, <2>3, <2>4, <2>5 DEF Next
<1>4. QED
  BY <1>1, <1>3 DEF IInv

LEMMA Invariance == Spec => []IInv
<1>1. QED
  BY InvInit, InvStep, PTL DEF Spec

-----------------------------------------------------------------------------
(***************************************************************************)
(* The safety properties                                                   *)
(***************************************************************************)

\* No scheduler handle is ever without an owner or with two.
THEOREM HandleOwnership == Spec => []SingleOwner
<1>1. IInv => SingleOwner
  <2> SUFFICES ASSUME TypeOK, NEW s \in Sessions, SessionInv(s)
               PROVE  IF handle[s] = "held"
                      THEN \/ StarterOwns(s) /\ ~SlotOwns(s) /\ ~StopperOwns(s)
                           \/ ~StarterOwns(s) /\ SlotOwns(s) /\ ~StopperOwns(s)
                           \/ ~StarterOwns(s) /\ ~SlotOwns(s) /\ StopperOwns(s)
                      ELSE ~StarterOwns(s) /\ ~SlotOwns(s) /\ ~StopperOwns(s)
    BY DEF IInv, SingleOwner
  <2>1. QED
    BY DEF TypeOK, SessionInv, LifeInv, Dormant, StopInv, StarterOwns, SlotOwns,
       StopperOwns
<1>2. QED
  BY <1>1, Invariance, PTL

\* The frontend is told at most once that a session ended by itself ...
THEOREM EndedEventOnce == Spec => []AtMostOneEndedEvent
<1>1. IInv => AtMostOneEndedEvent
  BY DEF IInv, SessionInv, EventInv, AtMostOneEndedEvent
<1>2. QED
  BY <1>1, Invariance, PTL

\* ... and only when it did.
THEOREM EndedEventHonest == Spec => []EndedOnlyOnOwnDeath
<1>1. IInv => EndedOnlyOnOwnDeath
  BY DEF IInv, SessionInv, EventInv, EndedOnlyOnOwnDeath
<1>2. QED
  BY <1>1, Invariance, PTL

\* A finished row has every sample its writer was ever given.
THEOREM NothingLeftBehind == Spec => []EndedRowIsComplete
<1>1. IInv => EndedRowIsComplete
  <2> SUFFICES ASSUME TypeOK, NEW s \in Sessions, SessionInv(s),
                      row[s] \in {"writer", "stop"}
               PROVE  unread[s] = 0 /\ batch[s] = 0
    BY DEF IInv, EndedRowIsComplete
  <2>1. QED
    BY DEF SessionInv, RowInv, ChannelInv, LifeInv, Dormant
<1>2. QED
  BY <1>1, Invariance, PTL

\* After a crash the next start leaves no row open.
THEOREM OrphansCleaned == Spec => []NoOrphanRow
<1>1. IInv => NoOrphanRow
  BY DEF IInv, SessionInv, RowInv, NoOrphanRow
<1>2. QED
  BY <1>1, Invariance, PTL

\* wall_end_ms is the writer's, if the storage works.
THEOREM EndStamp == Spec => []WriterStampsTheEnd
<1>1. IInv => WriterStampsTheEnd
  BY DEF IInv, SessionInv, RowInv, WriterStampsTheEnd
<1>2. QED
  BY <1>1, Invariance, PTL

\* Somebody is left to end every open row, if the storage works.
THEOREM OpenRowOwnership == Spec => []OpenRowHasOwner
<1>1. IInv => OpenRowHasOwner
  <2> SUFFICES ASSUME TypeOK, NEW s \in Sessions, SessionInv(s),
                      ~StorageMayFail, up, row[s] = "open"
               PROVE  \/ starter[s] \in {"created", "scheduled", "spawned",
                                         "failed"}
                      \/ slot = s
                      \/ stopper[s] \notin {"none", "finishing", "done"}
    BY DEF IInv, OpenRowHasOwner
  <2>1. QED
    BY DEF TypeOK, SessionInv, IdInv, LifeInv, StopInv, RowInv
<1>2. QED
  BY <1>1, Invariance, PTL

\* Nobody but the user ends a session whose scheduler lives.
THEOREM LivingSessionsSafe == Spec => LivingSessionLeavesByUser
<1> DEFINE ByUser == StopSession \/ Crash \/ \E s \in Sessions : InstallSession(s)
           Leaves(t) == slot = t /\ slot' # t /\ ~died[t]
<1>1. ASSUME IInv, Next, NEW t \in Sessions, Leaves(t), ~ByUser
      PROVE  FALSE
  <2>1. ASSUME NEW s \in Sessions, WatcherCleans(s) PROVE FALSE
    <3>1. died[s]
      BY <1>1, <2>1 DEF IInv, SessionInv, EventInv, WatcherCleans
    <3>2. slot = s
      BY <1>1, <2>1 DEF WatcherCleans
    <3>3. QED
      BY <1>1, <3>1, <3>2
  <2>2. ASSUME NEW s \in Sessions,
               \/ CreateSession(s) \/ StartStep(s) \/ SchedulerSends(s)
               \/ SchedulerDies(s) \/ SchedulerCancelled(s)
               \/ SchedulerNotifies(s) \/ WriterStep(s) \/ PumpGivesUp(s)
               \/ PumpSeesClosed(s) \/ WatcherWakes(s) \/ WatcherAnnounces(s)
               \/ StopStep(s) \/ DeleteSession(s)
        PROVE  slot' = slot \/ InstallSession(s)
    BY <2>2 DEF StartStep, WriterStep, StopStep, CreateSession,
       SchedulerStartFails, SchedulerStarts, SpawnTasks, SchedulerSends,
       SchedulerDies, SchedulerCancelled, SchedulerNotifies, WriterReceives,
       WriterFlushes, WriterSeesClosed, WriterFinishes, PumpGivesUp,
       PumpSeesClosed, WatcherWakes, WatcherAnnounces, StopRaisesFlag,
       StopCancels, StopJoinsScheduler, StopJoinsWriter, StopFinishes,
       DeleteSession
  <2>3. CASE Restart
    BY <1>1, <2>3 DEF Restart
  <2>4. QED
    BY <1>1, <2>1, <2>2, <2>3 DEF Next, WatcherStep
<1>2. IInv /\ [Next]_vars =>
        [\A t \in Sessions : Leaves(t) => ByUser]_vars
  BY <1>1
<1>3. QED
  BY <1>2, Invariance, PTL DEF Spec, LivingSessionLeavesByUser

-----------------------------------------------------------------------------
(***************************************************************************)
(* Recording implements SessionHistory.                                    *)
(***************************************************************************)
LEMMA HistoryInit == Init => History!Init
BY DEF Init, All, History!Init

\* The steps that write the sessions table or the sample rows.
LEMMA StampIsClose ==
  ASSUME TypeOK, NEW s \in Sessions, NEW who \in Stamps, FinishSession(s, who),
         UNCHANGED stored
  PROVE  [History!Next]_History!histVars
<1>1. CASE row[s] = "open" /\ StampEnd(s, who)
  <2>1. row' = [t \in Sessions |-> IF t \in {s} THEN who ELSE row[t]]
    BY <1>1 DEF TypeOK, StampEnd
  <2>2. History!Close({s}, who)
    BY <1>1, <2>1 DEF History!Close
  <2>3. QED
    BY <2>2 DEF History!Next
<1>2. CASE row[s] # "open" /\ StampEnd(s, who)
  <2>1. row' = row
    BY <1>2 DEF TypeOK, StampEnd
  <2>2. QED
    BY <2>1 DEF History!histVars
<1>3. CASE UNCHANGED row
  BY <1>3 DEF History!histVars
<1>4. QED
  BY <1>1, <1>2, <1>3 DEF FinishSession

LEMMA DrainIsRecord ==
  ASSUME TypeOK, NEW s \in Sessions, SessionInv(s), writer[s] = "running",
         batch[s] > 0, DrainAndWrite(s), UNCHANGED row
  PROVE  [History!Next]_History!histVars
<1>1. CASE UNCHANGED stored
  BY <1>1 DEF History!histVars
<1>2. CASE row[s] \notin {"absent", "deleted"}
           /\ stored' = [stored EXCEPT ![s] = @ + batch[s]]
  <2>1. row[s] = "open"
    BY <1>2 DEF TypeOK, Stamps, SessionInv, RowInv, LifeInv, Dormant
  <2>2. batch[s] \in 1..MaxSamples
    BY BoundsAssumption DEF TypeOK, SessionInv, ChannelInv
  <2>3. History!Record(s)
    BY <1>2, <2>1, <2>2 DEF History!Record
  <2>4. QED
    BY <2>3 DEF History!Next
<1>3. QED
  BY <1>1, <1>2 DEF DrainAndWrite

LEMMA CreateIsOpen ==
  ASSUME IInv, NEW s \in Sessions, CreateSession(s)
  PROVE  History!Open(s)
<1>1. \A t \in Sessions : t < s => row[t] # "absent"
  BY BoundsAssumption DEF IInv, SessionInv, IdInv, TypeOK, CreateSession, Sessions
<1>2. row[s] = "absent"
  BY DEF IInv, SessionInv, IdInv, CreateSession
<1>3. QED
  BY <1>1, <1>2 DEF CreateSession, History!Open

LEMMA HistoryStep == IInv /\ [Next]_vars => [History!Next]_History!histVars
<1> SUFFICES ASSUME IInv, [Next]_vars PROVE [History!Next]_History!histVars
  OBVIOUS
<1>1. TypeOK /\ \A s \in Sessions : SessionInv(s)
  BY DEF IInv
<1>2. ASSUME NEW s \in Sessions, CreateSession(s)
      PROVE  [History!Next]_History!histVars
  BY <1>2, CreateIsOpen DEF History!Next
<1>3. ASSUME NEW s \in Sessions,
             \/ StartStep(s) \/ SchedulerSends(s) \/ SchedulerDies(s)
             \/ SchedulerCancelled(s) \/ SchedulerNotifies(s)
             \/ PumpGivesUp(s) \/ PumpSeesClosed(s) \/ WatcherStep(s)
      PROVE  [History!Next]_History!histVars
  BY <1>3 DEF StartStep, SchedulerStartFails, SchedulerStarts, SpawnTasks,
     InstallSession, SchedulerSends, SchedulerDies, SchedulerCancelled,
     SchedulerNotifies, PumpGivesUp, PumpSeesClosed, WatcherStep, WatcherWakes,
     WatcherAnnounces, WatcherCleans, History!histVars
<1>4. ASSUME NEW s \in Sessions, WriterStep(s)
      PROVE  [History!Next]_History!histVars
  <2>1. CASE WriterReceives(s)
    BY <2>1 DEF WriterReceives, History!histVars
  <2>2. CASE WriterFlushes(s)
    BY <1>1, <2>2, DrainIsRecord DEF WriterFlushes
  <2>3. CASE WriterSeesClosed(s) /\ batch[s] > 0
    BY <1>1, <2>3, DrainIsRecord DEF WriterSeesClosed
  <2>4. CASE WriterSeesClosed(s) /\ ~(batch[s] > 0)
    BY <2>4 DEF WriterSeesClosed, History!histVars
  <2>5. CASE WriterFinishes(s)
    BY <1>1, <2>5, StampIsClose DEF WriterFinishes, Stamps
  <2>6. QED
    BY <1>4, <2>1, <2>2, <2>3, <2>4, <2>5 DEF WriterStep
<1>5. ASSUME NEW s \in Sessions, StopStep(s)
      PROVE  [History!Next]_History!histVars
  <2>1. CASE StopFinishes(s)
    BY <1>1, <2>1, StampIsClose DEF StopFinishes, Stamps
  <2>2. CASE ~StopFinishes(s)
    BY <1>5, <2>2 DEF StopStep, StopRaisesFlag, StopCancels, StopJoinsScheduler,
       StopJoinsWriter, History!histVars
  <2>3. QED
    BY <2>1, <2>2
<1>6. ASSUME NEW s \in Sessions, DeleteSession(s)
      PROVE  [History!Next]_History!histVars
  <2>1. History!Erase(s)
    BY <1>6 DEF DeleteSession, History!Erase
  <2>2. QED
    BY <2>1 DEF History!Next
<1>7. CASE Restart
  <2> DEFINE S == {s \in Sessions : row[s] = "open"}
  <2>1. row' = [s \in Sessions |-> IF s \in S THEN "cleanup" ELSE row[s]]
    BY <1>7 DEF Restart
  <2>2. History!Close(S, "cleanup")
    BY <1>7, <2>1 DEF Restart, History!Close
  <2>3. S \in SUBSET Sessions /\ "cleanup" \in Stamps
    BY DEF Stamps
  <2>4. QED
    BY <2>2, <2>3 DEF History!Next
<1>8. CASE StopSession \/ Crash \/ UNCHANGED vars
  BY <1>8 DEF StopSession, Crash, vars, History!histVars
<1>9. QED
  BY <1>2, <1>3, <1>4, <1>5, <1>6, <1>7, <1>8 DEF Next

\* Whatever the tasks do, the History tab sees a SessionHistory.
THEOREM ImplementsHistory == Spec => HistorySpec
<1>1. QED
  BY HistoryInit, HistoryStep, Invariance, PTL DEF Spec, HistorySpec, History!Spec

\* The ended event comes once, and only for a scheduler that died.
THEOREM EndedEventIsTrue == Spec => []EndedEventTruthful
<1>1. QED
  BY EndedEventOnce, EndedEventHonest, PTL DEF EndedEventTruthful

\* A row with an end stamp is complete, one without has a recorder.
THEOREM RowsAreTrue == Spec => []RowsTellTheTruth
<1>1. QED
  BY NothingLeftBehind, OrphansCleaned, PTL DEF RowsTellTheTruth

\* With a storage that works the writer ends every row, or will.
THEOREM RowsEnded == Spec => []RowsEndedByWriter
<1>1. QED
  BY EndStamp, OpenRowOwnership, PTL DEF RowsEndedByWriter
=============================================================================
