-------------------------- MODULE SamplersProofs ---------------------------
(***************************************************************************)
(* Machine-checked proofs about the samplers and the device calls: each    *)
(* machine's inductive invariant, then what holds of them together.        *)
(***************************************************************************)
EXTENDS MCSamplers, SequenceTheorems, NaturalsInduction, WellFoundedInduction, TLAPS

(***************************************************************************)
(* IosCpu: the strikes the sampler counts, beside the lists that lacked    *)
(* the application.                                                        *)
(***************************************************************************)

BeforeRun == {"start", "tunnel", "attributes"}

\* Nothing has been yielded or counted before the stream runs.
FreshUntilRun ==
    icPhase \in BeforeRun =>
        icMissing = 0 /\ icErrors = 0 /\ icUsed = 0 /\ icOut = Nothing /\ icSent = 0
        /\ icLacking = 0 /\ icBlank = 0 /\ icFailed = 0

\* A strike is for a list that lacked the target, and a list that lacked its
\* lookalike too is a strike.
StrikesKnown ==
    /\ icNamed => icMissing <= icLacking
    /\ icExec => icBlank <= icMissing
    /\ ~icExec => icMissing = 0
    /\ icErrors = icFailed
    /\ icUsed = icSent

\* What the properties say of the last turn.
LastTurn ==
    /\ icOut.app = "zero" /\ icNamed => icLacking = 3
    /\ icOut.listed /\ icExec /\ icBlank = 3 => icOut.app = "zero"
    /\ icOut.app = "lookalike" /\ icForm = "exact" => icLacking > 0
    /\ icOut.kind = "sample" => icOut.mem = icSent

IcInv == IcTypeOK /\ FreshUntilRun /\ StrikesKnown /\ LastTurn

LEMMA IosCpuStart == IcInit => IcInv
<1> SUFFICES ASSUME IcInit PROVE IcInv
  OBVIOUS
<1>1. /\ icPhase = "start" /\ icExec = FALSE /\ icNamed = FALSE
      /\ icMissing = 0 /\ icErrors = 0 /\ icUsed = 0 /\ icOut = Nothing
      /\ icPlugged = TRUE /\ icApp = TRUE /\ icForm \in {"exact", "loose"}
      /\ icLacking = 0 /\ icBlank = 0 /\ icFailed = 0 /\ icSent = 0
  BY DEF IcInit
<1>2. IcTypeOK
  <2>1. Nothing \in [kind : {"nothing", "sample", "transient", "fatal"}, listed : BOOLEAN,
                     app : ShownProcesses \cup {"none", "zero"}, mem : {0} \cup UsedValues]
    BY DEF Nothing
  <2>2. /\ icMissing \in 0..MissingStrikesToZero /\ icErrors \in 0..MaxTransientErrors
        /\ icErrors < MaxTransientErrors /\ icLacking \in 0..3 /\ icBlank \in 0..icLacking
        /\ icFailed \in 0..5
    BY <1>1 DEF MissingStrikesToZero, MaxTransientErrors
  <2>3. /\ icPhase \in {"start", "tunnel", "attributes", "running", "ended"}
        /\ icForm \in {"exact", "loose"}
        /\ icUsed \in {0} \cup UsedValues /\ icSent \in {0} \cup UsedValues
        /\ icExec \in BOOLEAN /\ icNamed \in BOOLEAN /\ icPlugged \in BOOLEAN /\ icApp \in BOOLEAN
    BY <1>1
  <2>4. QED
    BY <1>1, <2>1, <2>2, <2>3 DEF IcTypeOK
<1>3. FreshUntilRun /\ StrikesKnown
  BY <1>1 DEF FreshUntilRun, StrikesKnown
<1>4. LastTurn
  BY <1>1 DEF LastTurn, Nothing
<1>5. QED
  BY <1>2, <1>3, <1>4 DEF IcInv

LEMMA DeviceTurns ==
    ASSUME IcInv, KillApp \/ RelaunchApp \/ PullCable
    PROVE  IcInv'
<1>1. /\ icPlugged' \in BOOLEAN /\ icApp' \in BOOLEAN
      /\ UNCHANGED <<icSampler, icForm, icGhost>>
  BY DEF IcInv, IcTypeOK, KillApp, RelaunchApp, PullCable
<1>2. UNCHANGED <<icPhase, icExec, icNamed, icMissing, icErrors, icUsed, icOut, icForm,
                  icLacking, icBlank, icFailed, icSent>>
  BY <1>1 DEF icSampler, icGhost
<1>3. IcTypeOK'
  BY <1>1, <1>2 DEF IcInv, IcTypeOK
<1>4. FreshUntilRun' /\ StrikesKnown' /\ LastTurn'
  BY <1>2 DEF IcInv, FreshUntilRun, StrikesKnown, LastTurn
<1>5. QED
  BY <1>3, <1>4 DEF IcInv

LEMMA SetUpTurns == ASSUME IcInv, IcStart \/ IcConnect \/ IcConfigure PROVE IcInv'
<1>1. IcTypeOK /\ FreshUntilRun
  BY DEF IcInv
<1>2. /\ icPhase \in BeforeRun
      /\ UNCHANGED <<icMissing, icErrors, icUsed, icForm, icPlugged, icApp,
                     icLacking, icBlank, icFailed, icSent>>
      /\ \/ icPhase' \in {"tunnel", "attributes", "running"} /\ icOut' = icOut
         \/ icPhase' = "ended" /\ icOut' = Yielded("fatal")
      /\ icExec' \in BOOLEAN /\ icNamed' \in BOOLEAN
  BY <1>1 DEF IcTypeOK, IcStart, IcConnect, IcConfigure, SetUpFails, BeforeRun, icGhost
<1>3. /\ icMissing = 0 /\ icErrors = 0 /\ icUsed = 0 /\ icOut = Nothing /\ icSent = 0
      /\ icLacking = 0 /\ icBlank = 0 /\ icFailed = 0
  BY <1>1, <1>2 DEF FreshUntilRun
<1>4. \/ icOut' = Nothing
      \/ icOut' = Yielded("fatal") /\ icPhase' = "ended"
  BY <1>2, <1>3
<1>5. IcTypeOK'
  <2>1. icOut' \in [kind : {"nothing", "sample", "transient", "fatal"}, listed : BOOLEAN,
                   app : ShownProcesses \cup {"none", "zero"}, mem : {0} \cup UsedValues]
    <3>1. CASE icOut' = Nothing
      BY <3>1 DEF Nothing
    <3>2. CASE icOut' = Yielded("fatal")
      BY <3>2 DEF Nothing, Yielded
    <3>3. QED
      BY <1>4, <3>1, <3>2
  <2>2. icErrors' < MaxTransientErrors
    BY <1>2, <1>3 DEF MaxTransientErrors
  <2>3. icPhase' \in {"start", "tunnel", "attributes", "running", "ended"}
    BY <1>2
  <2>4. QED
    BY <1>1, <1>2, <2>1, <2>2, <2>3 DEF IcTypeOK
<1>6. FreshUntilRun' /\ StrikesKnown'
  BY <1>2, <1>3, <1>4 DEF FreshUntilRun, StrikesKnown, BeforeRun
<1>7. LastTurn'
  BY <1>2, <1>3, <1>4 DEF LastTurn, Nothing, Yielded
<1>8. QED
  BY <1>5, <1>6, <1>7 DEF IcInv

\* What Matches finds of a list.
LEMMA FoundIs ==
    ASSUME NEW names \in SUBSET ShownProcesses, icForm \in {"exact", "loose"}
    PROVE  /\ Matches(names) \subseteq names
           /\ icNamed /\ Matches(names) = {} => names = {}
           /\ icForm = "exact" /\ "lookalike" \in Matches(names) => "target" \notin names
  BY DEF Matches

LEMMA PushTurns ==
    ASSUME IcInv, NEW rows \in PushShapes, NEW names \in SUBSET ShownProcesses,
           NEW used \in {0} \cup UsedValues, IcPush(rows, names, used)
    PROVE  IcInv'
<1>1. IcTypeOK /\ StrikesKnown
  BY DEF IcInv
<1> DEFINE procs == Has(rows, "Processes")
           found == IF icExec /\ procs THEN Matches(names) ELSE {}
           sys == Merged(rows).sys
           mem == HeldMemory(sys, used)
<1>2. Merged(rows).procs = procs
  BY DEF Merged
<1>3. /\ icPhase = "running" /\ icErrors' = 0 /\ icUsed' = mem /\ icFailed' = 0
      /\ UNCHANGED <<icPhase, icExec, icNamed, icPlugged, icApp, icForm>>
      /\ IF procs THEN /\ icLacking' = Streak(icLacking, "target" \notin names, 3)
                       /\ icBlank' = Streak(icBlank, names = {}, 3)
         ELSE UNCHANGED <<icLacking, icBlank>>
  BY DEF IcPush, ErrorsAfterSample
<1>4. \/ \E p \in found :
           /\ icMissing' = 0
           /\ icOut' = [kind |-> "sample", listed |-> procs, app |-> p, mem |-> mem]
      \/ /\ found = {} /\ icExec /\ procs
         /\ icMissing' = StrikesAfterMiss(icMissing)
         /\ icOut' = [kind |-> "sample", listed |-> procs, mem |-> mem,
                      app |-> IF icMissing' >= 3 THEN "zero" ELSE "none"]
      \/ /\ ~(icExec /\ procs)
         /\ icOut' = [kind |-> "sample", listed |-> procs, app |-> "none", mem |-> mem]
         /\ UNCHANGED icMissing
  BY <1>2 DEF IcPush, MissingStrikesToZero
<1>5. icSent' = IF sys /\ used # 0 THEN used ELSE icSent
  BY DEF IcPush, Merged
<1>6. mem = IF sys /\ used # 0 THEN used ELSE icUsed
  BY DEF HeldMemory
<1>7. icUsed' = icSent' /\ mem \in {0} \cup UsedValues /\ icSent' = mem
  BY <1>1, <1>3, <1>5, <1>6 DEF StrikesKnown, IcTypeOK
<1>8. procs \in BOOLEAN
  BY DEF Has
<1>9. /\ found \subseteq names
      /\ icNamed /\ icExec /\ procs /\ found = {} => names = {}
      /\ icForm = "exact" /\ "lookalike" \in found => procs /\ "target" \notin names
      /\ found # {} => icExec /\ procs
  BY <1>1, FoundIs DEF IcTypeOK
<1> HIDE DEF procs, found, sys, mem
<1>10. /\ icMissing \in 0..3 /\ icLacking \in 0..3 /\ icBlank \in 0..icLacking
       /\ icNamed \in BOOLEAN /\ icExec \in BOOLEAN /\ icForm \in {"exact", "loose"}
       /\ icNamed => icMissing <= icLacking
       /\ icExec => icBlank <= icMissing
  BY <1>1 DEF IcTypeOK, StrikesKnown, MissingStrikesToZero
<1>11. /\ procs /\ "target" \notin names =>
            icLacking' = IF icLacking < 3 THEN icLacking + 1 ELSE 3
       /\ procs /\ "target" \in names => icLacking' = 0
       /\ procs /\ names = {} => icBlank' = IF icBlank < 3 THEN icBlank + 1 ELSE 3
       /\ procs /\ names # {} => icBlank' = 0
       /\ ~procs => icLacking' = icLacking /\ icBlank' = icBlank
  BY <1>3 DEF Streak
<1>12. icLacking' \in 0..3 /\ icBlank' \in 0..icLacking'
  BY <1>8, <1>10, <1>11
<1>13. CASE \E p \in found :
              /\ icMissing' = 0
              /\ icOut' = [kind |-> "sample", listed |-> procs, app |-> p, mem |-> mem]
  <2>1. PICK p \in found :
           /\ icMissing' = 0
           /\ icOut' = [kind |-> "sample", listed |-> procs, app |-> p, mem |-> mem]
    BY <1>13
  <2>2. p \in {"target", "lookalike"} /\ names # {} /\ procs
    BY <1>9, <2>1 DEF ShownProcesses
  <2>3. icBlank' = 0
    BY <1>11, <2>2
  <2>4. p = "lookalike" /\ icForm = "exact" => icLacking' > 0
    BY <1>9, <1>10, <1>11, <2>1
  <2>5. IcTypeOK'
    BY <1>1, <1>3, <1>7, <1>8, <1>12, <2>1, <2>2
    DEF IcTypeOK, MissingStrikesToZero, MaxTransientErrors, ShownProcesses
  <2>6. FreshUntilRun' /\ StrikesKnown'
    BY <1>3, <1>7, <1>12, <2>1, <2>3 DEF FreshUntilRun, StrikesKnown, BeforeRun
  <2>7. LastTurn'
    BY <1>3, <1>7, <2>1, <2>2, <2>3, <2>4 DEF LastTurn
  <2>8. QED
    BY <2>5, <2>6, <2>7 DEF IcInv
<1>14. CASE /\ found = {} /\ icExec /\ procs
            /\ icMissing' = StrikesAfterMiss(icMissing)
            /\ icOut' = [kind |-> "sample", listed |-> procs, mem |-> mem,
                         app |-> IF icMissing' >= 3 THEN "zero" ELSE "none"]
  <2>1. icMissing' = IF icMissing < 3 THEN icMissing + 1 ELSE icMissing
    BY <1>14 DEF StrikesAfterMiss, MissingStrikesToZero
  <2>2. icNamed => names = {}
    BY <1>9, <1>14
  <2>3. icNamed => icMissing' <= icLacking'
    BY <1>10, <1>11, <1>14, <2>1, <2>2
  <2>4. icBlank' <= icMissing' /\ icMissing' \in 0..3
    BY <1>10, <1>11, <1>14, <2>1
  <2>5. IcTypeOK'
    BY <1>1, <1>3, <1>7, <1>8, <1>12, <1>14, <2>4
    DEF IcTypeOK, MissingStrikesToZero, MaxTransientErrors
  <2>6. FreshUntilRun' /\ StrikesKnown'
    BY <1>3, <1>7, <1>14, <2>3, <2>4 DEF FreshUntilRun, StrikesKnown, BeforeRun
  <2>7. /\ icOut'.app = IF icMissing' >= 3 THEN "zero" ELSE "none"
        /\ icOut'.mem = mem /\ icOut'.kind = "sample"
    BY <1>14
  <2>8. icMissing' >= 3 /\ icNamed => icLacking' = 3
    BY <1>12, <2>3, <2>4
  <2>9. icBlank' = 3 => icMissing' >= 3
    BY <2>4
  <2>10. LastTurn'
    BY <1>3, <1>7, <2>7, <2>8, <2>9 DEF LastTurn
  <2>11. QED
    BY <2>5, <2>6, <2>10 DEF IcInv
<1>15. CASE /\ ~(icExec /\ procs)
            /\ icOut' = [kind |-> "sample", listed |-> procs, app |-> "none", mem |-> mem]
            /\ UNCHANGED icMissing
  <2>1. icExec => icBlank' = icBlank /\ icLacking' = icLacking
    BY <1>11, <1>15
  <2>2. ~icExec => icMissing = 0
    BY DEF IcInv, StrikesKnown
  <2>3. IcTypeOK'
    BY <1>1, <1>3, <1>7, <1>8, <1>12, <1>15
    DEF IcTypeOK, MissingStrikesToZero, MaxTransientErrors
  <2>4. FreshUntilRun' /\ StrikesKnown'
    BY <1>3, <1>7, <1>10, <1>12, <1>15, <2>1, <2>2 DEF FreshUntilRun, StrikesKnown, BeforeRun
  <2>5. LastTurn'
    BY <1>3, <1>7, <1>15 DEF LastTurn
  <2>6. QED
    BY <2>3, <2>4, <2>5 DEF IcInv
<1>16. QED
  BY <1>4, <1>13, <1>14, <1>15

LEMMA FailureTurns ==
    ASSUME IcInv, IcReadFails
    PROVE  /\ IcInv'
           /\ icPhase' = "ended" => icFailed' = 5 /\ icOut'.kind = "fatal"
<1>1. IcTypeOK /\ StrikesKnown
  BY DEF IcInv
<1>2. /\ icErrors \in 0..5 /\ icErrors = icFailed /\ icPhase = "running"
      /\ icErrors' = IF icErrors < 5 THEN icErrors + 1 ELSE icErrors
      /\ icFailed' = IF icFailed < 5 THEN icFailed + 1 ELSE 5
  BY <1>1 DEF IcTypeOK, StrikesKnown, IcReadFails, MaxTransientErrors, Streak
<1>3. /\ UNCHANGED <<icExec, icNamed, icMissing, icUsed, icPlugged, icApp, icForm,
                     icLacking, icBlank, icSent>>
      /\ \/ icErrors' >= 5 /\ icPhase' = "ended" /\ icOut' = Yielded("fatal")
         \/ icErrors' < 5 /\ icPhase' = icPhase /\ icOut' = Yielded("transient")
  BY <1>2 DEF IcReadFails, GivesUp, MaxTransientErrors
<1>4. icErrors' = icFailed' /\ icErrors' \in 0..5
  BY <1>2
<1>5. IcTypeOK'
  BY <1>1, <1>2, <1>3, <1>4 DEF IcTypeOK, Yielded, Nothing, MaxTransientErrors
<1>6. FreshUntilRun' /\ StrikesKnown'
  BY <1>1, <1>2, <1>3, <1>4 DEF FreshUntilRun, StrikesKnown, BeforeRun
<1>7. LastTurn'
  BY <1>3 DEF LastTurn, Yielded, Nothing
<1>8. icPhase' = "ended" => icFailed' = 5 /\ icOut'.kind = "fatal"
  BY <1>2, <1>3, <1>4 DEF Yielded, Nothing
<1>9. QED
  BY <1>5, <1>6, <1>7, <1>8 DEF IcInv

LEMMA IosCpuStep == IcInv /\ [IcNext]_icVars => IcInv'
<1>1. ASSUME IcInv, UNCHANGED icVars PROVE IcInv'
  BY <1>1 DEF icVars, icSampler, icGhost, IcInv, IcTypeOK, FreshUntilRun, StrikesKnown, LastTurn
<1>2. ASSUME IcInv, IcPushAny PROVE IcInv'
  BY <1>2, PushTurns DEF IcPushAny
<1>3. QED
  BY <1>1, <1>2, DeviceTurns, SetUpTurns, FailureTurns DEF IcNext

\* The strikes of the iOS CPU sampler are those of its process lists.
THEOREM IosCpuInvariance == IcSpec => []IcInv
<1>1. QED
  BY IosCpuStart, IosCpuStep, PTL DEF IcSpec

\* What is drawn of an application says neither that it is gone while it runs
\* nor that it runs when it is gone (ios/src/cpu.rs:460-835).
THEOREM AbsenceIsHonest == IcSpec => []AbsenceHonest
<1>1. IcInv => AbsenceHonest
  BY DEF IcInv, LastTurn, AbsenceHonest, NoFlicker, FlatlineWhileGone, OwnProcessWins, MemoryHeld
<1>2. QED
  BY <1>1, IosCpuInvariance, PTL

\* A stream that ran ends on the fifth failed read in a row only
\* (ios/src/cpu.rs:300-308, 608-632).
THEOREM IosCpuGivesUp == IcSpec => GivesUpWithReason
<1>1. ASSUME IcInv, IcNext, icPhase = "running", icPhase' = "ended"
      PROVE  icFailed' = 5 /\ icOut'.kind = "fatal"
  <2>1. IcReadFails
    BY <1>1 DEF IcNext, KillApp, RelaunchApp, PullCable, IcStart, IcConnect, IcConfigure,
                IcPushAny, IcPush, icSampler
  <2>2. QED
    BY <1>1, <2>1, FailureTurns
<1>2. IcInv /\ [IcNext]_icVars
         => [icPhase = "running" /\ icPhase' = "ended"
             => icFailed' = 5 /\ icOut'.kind = "fatal"]_icVars
  BY <1>1
<1>3. QED
  BY <1>2, IosCpuInvariance, PTL DEF IcSpec, GivesUpWithReason

-----------------------------------------------------------------------------
(***************************************************************************)
(* ColdStart: what the capture keeps, beside what was read in step.        *)
(***************************************************************************)

\* What is kept is of the launch's own window; in step it is the latest
\* genuine event, and after a dropped read there was none.
Captured ==
    /\ csLast \in {CsNone, 2, 3}
    /\ ~csCut => ~csForged /\ csLast = csGenuine
    /\ csCut => csGenuine = CsNone
    /\ csCut /\ csLast # CsNone => csForged

\* The process is of this attempt once it is launched; a failed attempt is
\* not the last.
Attempted ==
    /\ csPhase \in {"capture", "ok"} => csApp \in {CsNone, csAttempt}
    /\ csPhase = "backoff" => csAttempt < MAX_ATTEMPTS

CsInv == CsTypeOK /\ Captured /\ Attempted /\ TimingHonest

LEMMA TicksAre ==
    /\ CsTicks(1) = 0 /\ CsTicks(2) = 1 /\ CsTicks(3) = 2 /\ CsTicks(4) = 3
  BY DEF CsTicks, T0, TickWord

\* The events kept are those of the window.
LEMMA KeptIs ==
    ASSUME NEW last, NEW stamp \in CsStamps
    PROVE  Kept(last, stamp) = IF stamp \in {2, 3} THEN CsLater(last, stamp) ELSE last
<1>1. stamp \in {0, 1, 2, 3, 4}
  BY DEF CsStamps
<1>2. QED
  BY <1>1, TicksAre DEF Kept, T0, MaxTicks

LEMMA ColdInit == CsInit => CsInv
<1> SUFFICES ASSUME CsInit PROVE CsInv
  OBVIOUS
<1>1. /\ csPhase = "idle" /\ csAttempt = 1 /\ csApp \in {CsNone, 0} /\ csTiming = CsNone
      /\ csClock = 0 /\ csSeen = FALSE /\ csLast = CsNone
      /\ csCut = FALSE /\ csGenuine = CsNone /\ csForged = FALSE
  BY DEF CsInit
<1>2. CsTypeOK
  <2>1. csAttempt \in 1..MAX_ATTEMPTS /\ csClock \in 0..MaxWindow
    BY <1>1 DEF MAX_ATTEMPTS, MaxWindow
  <2>2. QED
    BY <1>1, <2>1 DEF CsTypeOK, CsPhases
<1>3. Captured /\ Attempted /\ TimingHonest
  BY <1>1 DEF Captured, Attempted, TimingHonest
<1>4. QED
  BY <1>2, <1>3 DEF CsInv

\* The steps of an attempt before the capture, and what is not of the capture.
LEMMA AttemptsKeep ==
    ASSUME CsInv,
           \/ CsSpringBoard \/ CsAcquire \/ CsCapabilities \/ CsMount \/ CsAnchor \/ CsLaunch
           \/ CsRetry \/ CsAppDies
    PROVE  CsInv'
<1>1. CsTypeOK /\ Captured /\ Attempted /\ TimingHonest
  BY DEF CsInv
<1>2. /\ csPhase' \in CsPhases /\ csTiming' = csTiming
      /\ csPhase' = "ok" => csPhase = "ok"
      /\ csPhase' = "capture" => csPhase = "capture" \/ (CsLaunch /\ csApp' = csAttempt)
      /\ csPhase' = "backoff" => csAttempt' < 3
  <2>1. CASE CsSpringBoard \/ CsRetry \/ CsAppDies
    <3>1. csAttempt' = csAttempt \/ csPhase' = "idle"
      BY <2>1 DEF CsSpringBoard, CsRetry, CsAppDies
    <3>2. /\ csPhase' \in CsPhases /\ csTiming' = csTiming
          /\ csPhase' \in {"transport", "idle"} \/ csPhase' = csPhase
      BY <1>1, <2>1 DEF CsTypeOK, CsPhases, CsSpringBoard, CsRetry, CsAppDies
    <3>3. csPhase = "backoff" => csAttempt < 3
      BY <1>1 DEF Attempted, MAX_ATTEMPTS
    <3>4. csPhase' = "backoff" => csAttempt' < 3
      BY <3>1, <3>2, <3>3
    <3>5. QED
      BY <3>2, <3>4
  <2>2. CASE CsCapabilities \/ CsMount \/ CsAnchor
    BY <2>2 DEF CsPhases, CsCapabilities, CsMount, CsAnchor, CsAttempt, AttemptFails, MAX_ATTEMPTS
  <2>3. CASE CsAcquire
    BY <2>3 DEF CsPhases, CsAcquire, AttemptFails, MAX_ATTEMPTS
  <2>4. CASE CsLaunch
    BY <2>4 DEF CsPhases, CsLaunch, AttemptFails, LaunchOver, MAX_ATTEMPTS
  <2>5. QED
    BY <2>1, <2>2, <2>3, <2>4
<1>3. csAttempt' \in 1..3 /\ csApp' \in {CsNone, 0} \cup (1..3)
  BY <1>1 DEF CsTypeOK, Attempted, CsSpringBoard, CsAcquire, CsCapabilities, CsMount,
              CsAnchor, CsLaunch, CsRetry, CsAppDies, CsAttempt, LaunchOver, MAX_ATTEMPTS
<1>4. \/ UNCHANGED <<csClock, csSeen, csLast, csCut, csGenuine, csForged>>
      \/ /\ csClock' = 0 /\ csSeen' = FALSE /\ csLast' = CsNone
         /\ csCut' = FALSE /\ csGenuine' = CsNone /\ csForged' = FALSE
         /\ csPhase' = "capabilities"
  BY DEF CsSpringBoard, CsAcquire, CsCapabilities, CsMount, CsAnchor, CsLaunch, CsRetry,
         CsAppDies, CsAttempt, csCapture
<1>5. CsTypeOK'
  <2>1. 0 \in 0..MaxWindow
    BY DEF MaxWindow
  <2>2. /\ csClock' \in 0..MaxWindow /\ csSeen' \in BOOLEAN /\ csLast' \in {CsNone} \cup CsStamps
        /\ csCut' \in BOOLEAN /\ csGenuine' \in {CsNone} \cup CsStamps /\ csForged' \in BOOLEAN
    BY <1>1, <1>4, <2>1 DEF CsTypeOK
  <2>3. csTiming' \in {CsNone} \cup (0..TickWord - 1)
    BY <1>1, <1>2 DEF CsTypeOK
  <2>4. QED
    BY <1>2, <1>3, <2>2, <2>3 DEF CsTypeOK, MAX_ATTEMPTS
<1>6. Captured'
  BY <1>1, <1>4 DEF Captured
<1>7. csPhase \in {"capture", "ok"} /\ csPhase' \in {"capture", "ok"} =>
          csAttempt' = csAttempt /\ csApp' \in {csApp, CsNone}
  BY DEF CsSpringBoard, CsAcquire, CsCapabilities, CsMount, CsAnchor, CsLaunch, CsRetry,
         CsAppDies, CsAttempt
<1>8. CsLaunch => csAttempt' = csAttempt
  BY DEF CsLaunch
<1>9. Attempted'
  BY <1>1, <1>2, <1>7, <1>8 DEF Attempted, MAX_ATTEMPTS
<1>10. TimingHonest'
  BY <1>1, <1>2, <1>4 DEF TimingHonest
<1>11. QED
  BY <1>5, <1>6, <1>9, <1>10 DEF CsInv

\* A batch of events.
LEMMA BatchKeeps == ASSUME CsInv, CsBatch PROVE CsInv'
<1>1. CsTypeOK /\ Captured /\ Attempted
  BY DEF CsInv
<1>2. /\ csPhase = "capture" /\ csSeen' = TRUE /\ csClock' \in {csClock, Waited}
      /\ UNCHANGED <<csPhase, csAttempt, csApp, csTiming, csCut>>
  BY DEF CsBatch, CsWatching
<1>3. csClock' \in 0..MaxWindow
  BY <1>1, <1>2 DEF CsTypeOK, Waited, MaxWindow
<1>4. csLast \in {-1, 2, 3} /\ csGenuine \in {-1} \cup (0..4) /\ csForged \in BOOLEAN
      /\ csCut \in BOOLEAN
  BY <1>1 DEF Captured, CsTypeOK, CsStamps, CsNone
<1>5. csLast' \in {-1, 2, 3} /\ csGenuine' \in {-1} \cup (0..4) /\ csForged' \in BOOLEAN
      /\ Captured'
  <2>1. CASE UNCHANGED <<csLast, csGenuine, csForged>>
    BY <1>1, <1>2, <1>4, <2>1 DEF Captured
  <2>2. CASE \E stamp \in CsStamps :
            /\ csLast' = Kept(csLast, stamp)
            /\ IF csCut
                 THEN csForged' = (csForged \/ csLast' # csLast) /\ UNCHANGED csGenuine
                 ELSE /\ csGenuine' = (IF stamp - T0 \in 1..MaxTicks
                                       THEN CsLater(csGenuine, stamp) ELSE csGenuine)
                      /\ UNCHANGED csForged
    <3>1. PICK stamp \in 0..4 :
            /\ csLast' = IF stamp \in {2, 3} THEN CsLater(csLast, stamp) ELSE csLast
            /\ IF csCut
                 THEN csForged' = (csForged \/ csLast' # csLast) /\ UNCHANGED csGenuine
                 ELSE /\ csGenuine' = (IF stamp - 1 \in 1..2
                                       THEN CsLater(csGenuine, stamp) ELSE csGenuine)
                      /\ UNCHANGED csForged
      BY <2>2, KeptIs DEF CsStamps, T0, MaxTicks
    <3>2. csLast' \in {-1, 2, 3}
      BY <1>4, <3>1 DEF CsLater
    <3>3. CASE csCut
      <4>1. csGenuine' = csGenuine /\ (csForged' <=> csForged \/ csLast' # csLast)
            /\ csForged' \in BOOLEAN
        BY <1>4, <3>1, <3>3
      <4>2. csCut' = csCut
        BY <1>2
      <4>3. QED
        BY <1>1, <1>4, <3>2, <3>3, <4>1, <4>2 DEF Captured, CsNone
    <3>4. CASE ~csCut
      <4>1. csLast = csGenuine /\ ~csForged /\ csForged' = csForged /\ csCut' = csCut
        BY <1>1, <1>2, <3>1, <3>4 DEF Captured
      <4>2. stamp - 1 \in 1..2 <=> stamp \in {2, 3}
        OBVIOUS
      <4>3. csGenuine' = csLast'
        BY <3>1, <3>4, <4>1, <4>2
      <4>4. QED
        BY <1>4, <3>2, <3>4, <4>1, <4>3 DEF Captured, CsNone
    <3>5. QED
      BY <3>3, <3>4
  <2>3. QED
    BY <2>1, <2>2 DEF CsBatch
<1>6. CsTypeOK'
  BY <1>1, <1>2, <1>3, <1>5 DEF CsTypeOK, CsStamps, CsNone
<1>7. Attempted' /\ TimingHonest'
  BY <1>1, <1>2 DEF Attempted, TimingHonest
<1>8. QED
  BY <1>5, <1>6, <1>7 DEF CsInv

\* The time of what was kept.
LEMMA TimeOfKept ==
    ASSUME CsInv, csLast # CsNone
    PROVE  /\ CsTicks(csLast) \in 1..MaxTicks /\ CsTicks(csLast) \in 0..TickWord - 1
           /\ \/ CsTicks(csLast) = csGenuine - T0
              \/ csForged /\ csCut /\ csGenuine = CsNone
<1>1. /\ csLast \in {2, 3}
      /\ csLast = csGenuine \/ (csForged /\ csCut /\ csGenuine = CsNone)
  BY DEF CsInv, Captured, CsTypeOK
<1>2. QED
  BY <1>1, TicksAre DEF MaxTicks, TickWord, T0

LEMMA CaptureEnds ==
    ASSUME CsInv, CsQuiet \/ CsWedge \/ CsWindowEnds \/ CsReadFails
    PROVE  CsInv'
<1>1. CsTypeOK /\ Captured /\ Attempted
  BY DEF CsInv
<1>2. /\ csPhase = "capture" /\ UNCHANGED <<csAttempt, csApp, csSeen, csLast, csGenuine, csForged>>
      /\ csClock' \in {csClock, Waited}
  BY DEF CsQuiet, CsWedge, CsWindowEnds, CsReadFails, CsWatching, WindowOver, csCapture
<1>3. \/ csPhase' = "ok" /\ csLast # CsNone /\ csTiming' = CsTicks(csLast) /\ csCut' = csCut
      \/ csPhase' = "capture" /\ csTiming' = csTiming /\ csCut' \in {csCut, TRUE} /\ csLast = CsNone
      \/ AttemptFails /\ csTiming' = csTiming /\ csCut' = csCut
  BY <1>2 DEF CsQuiet, CsWedge, CsWindowEnds, CsReadFails, QuietEnds, csCapture
<1>4. csClock' \in 0..MaxWindow
  BY <1>1, <1>2 DEF CsTypeOK, Waited, MaxWindow
<1>5. /\ csPhase' \in CsPhases
      /\ csPhase' = "backoff" => csAttempt < 3
      /\ csTiming' \in {CsNone} \cup (0..TickWord - 1)
  BY <1>1, <1>2, <1>3, TimeOfKept DEF CsTypeOK, CsPhases, AttemptFails, MAX_ATTEMPTS
<1>6. CsTypeOK'
  BY <1>1, <1>2, <1>3, <1>4, <1>5 DEF CsTypeOK
<1>7. Captured'
  <2>1. CASE csCut' = csCut
    BY <1>1, <1>2, <2>1 DEF Captured
  <2>2. CASE csCut' = TRUE /\ csLast = CsNone
    <3>1. csGenuine = CsNone
      BY <1>1, <2>2 DEF Captured
    <3>2. QED
      BY <1>1, <1>2, <2>2, <3>1 DEF Captured
  <2>3. QED
    BY <1>3, <2>1, <2>2
<1>8. Attempted'
  BY <1>1, <1>2, <1>5 DEF Attempted, MAX_ATTEMPTS
<1>9. TimingHonest'
  <2>1. csPhase' = "ok" => csLast # CsNone /\ csTiming' = CsTicks(csLast)
    BY <1>2, <1>3 DEF AttemptFails
  <2>2. csPhase' = "ok" => csCut' = csCut
    BY <1>3 DEF AttemptFails
  <2>3. QED
    BY <1>2, <2>1, <2>2, TimeOfKept DEF TimingHonest
<1>10. QED
  BY <1>6, <1>7, <1>8, <1>9 DEF CsInv

LEMMA ColdStep == CsInv /\ [CsNext]_csVars => CsInv'
<1>1. ASSUME CsInv, UNCHANGED csVars PROVE CsInv'
  BY <1>1 DEF csVars, CsInv, CsTypeOK, Captured, Attempted, TimingHonest
<1>2. QED
  BY <1>1, AttemptsKeep, BatchKeeps, CaptureEnds DEF CsNext, CsStep

\* What a capture keeps is genuine until a read was dropped.
THEOREM ColdStartInvariance == CsSpec => []CsInv
<1>1. QED
  BY ColdInit, ColdStep, PTL DEF CsSpec

-----------------------------------------------------------------------------
(***************************************************************************)
(* Startup: what is known of the process at each command.                  *)
(***************************************************************************)

\* Each command belongs to a mode, and only the last has a time.
ModeOfStep ==
    /\ suStep # "ok" => suTime = "none"
    /\ suStep = "probe" => ~suOwn
    /\ suMode = "none" => suStep = "probe"
    /\ suStep \in {"home", "pause", "again", "springboard"} => suMode = "hot"
    /\ suStep = "stop" => suMode = "cold"

\* A launch of the cold mode makes the process its own unless the old one
\* outlived both stops; in the hot mode it does so only if the process had
\* died.
Ownership ==
    /\ suStep = "start" /\ suMode = "cold" /\ suPlace # "none" => suKept
    /\ suStep = "ok" /\ suMode = "cold" => suOwn \/ Outlived
    /\ suMode = "hot" /\ (suOwn \/ suPlace = "none") => suLost

\* The application has left the front before it is started again.
Leaving ==
    /\ suStep = "pause" /\ suPlace = "front" => suStayed
    /\ suStep = "again" /\ suPlace \in {"front", "moving"} => suStayed
    /\ suTime = "zero" => suStayed \/ (suMode = "cold" /\ Outlived)

SuInv == SuTypeOK /\ ModeOfStep /\ Ownership /\ Leaving

LEMMA StartupStart == SuInit => SuInv
<1>1. QED
  BY DEF SuInit, SuInv, SuTypeOK, ModeOfStep, Ownership, Leaving

\* A first am start that does not fail.
LEMMA StartIs ==
    ASSUME SuStart, ~SuFails
    PROVE  \E place \in {"none", "front", "moving", "back"}, says \in {"none", "zero", "some"} :
              /\ PlaceAtStart(place) /\ AmStart(place, says)
              /\ IF suMode = "hot" /\ AlreadyForeground(says)
                   THEN suStep' = "home" /\ UNCHANGED suTime
                   ELSE Parsed(says)
              /\ suStep = "start" /\ UNCHANGED <<suPlatform, suMode, suLost, suStayed, suKept>>
  BY DEF SuStart

\* The launch of a cold start meets a process only if both stops failed it.
LEMMA LateStop ==
    ASSUME NEW place, place # "none", suMode = "cold", PlaceAtStart(place)
    PROVE  place = suPlace /\ suDelayed'
<1>1. place \in {"none", suPlace} /\ suDelayed' = (place # "none")
  BY DEF PlaceAtStart
<1>2. QED
  BY <1>1, Zenon

LEMMA StartupTypes == ASSUME SuInv, SuNext PROVE SuTypeOK'
<1>1. SuTypeOK
  BY DEF SuInv
<1>2. CASE SuProbe \/ SuAsk
  BY <1>1, <1>2 DEF SuTypeOK, SuProbe, SuAsk, FirstStep, suStops
<1>3. CASE SuResolve \/ SuForceStop \/ SuHome \/ SuPause
  BY <1>1, <1>3 DEF SuTypeOK, SuResolve, SuForceStop, SuHome, SuPause, SuFails, suStops
<1>4. CASE SuStart
  <2>1. CASE SuFails
    BY <1>1, <1>4, <2>1 DEF SuTypeOK, SuStart, SuFails, suStops
  <2>2. CASE ~SuFails
    <3>1. PICK place \in {"none", "front", "moving", "back"}, says \in {"none", "zero", "some"} :
             /\ PlaceAtStart(place) /\ AmStart(place, says)
             /\ IF suMode = "hot" /\ AlreadyForeground(says)
                  THEN suStep' = "home" /\ UNCHANGED suTime
                  ELSE Parsed(says)
             /\ suStep = "start" /\ UNCHANGED <<suPlatform, suMode, suLost, suStayed, suKept>>
      BY <1>4, <2>2, StartIs
    <3>2. suDelayed' \in BOOLEAN
      BY <1>1, <3>1 DEF PlaceAtStart, SuTypeOK
    <3>3. suPlace' \in {"front", "moving"} /\ suOwn' \in BOOLEAN
      BY <1>1, <3>1 DEF AmStart, SuTypeOK
    <3>4. suStep' \in {"home", "failed", "ok"} /\ suTime' \in {"none", "zero", "some"}
      BY <1>1, <3>1 DEF Parsed, SuTypeOK
    <3>5. QED
      BY <1>1, <3>1, <3>2, <3>3, <3>4 DEF SuTypeOK
  <2>3. QED
    BY <2>1, <2>2
<1>5. CASE SuAgain
  <2>1. /\ UNCHANGED <<suPlatform, suMode, suLost, suStayed, suKept, suDelayed>>
        /\ suPlace' \in {suPlace, "front", "moving"} /\ suOwn' \in BOOLEAN
        /\ suTime' \in {"none", "zero", "some"} /\ suStep' \in {"failed", "ok"}
    BY <1>1, <1>5 DEF SuTypeOK, SuAgain, SuFails, AmStart, Parsed, suStops
  <2>2. QED
    BY <1>1, <2>1 DEF SuTypeOK
<1>6. CASE SuSpringBoard \/ SuLaunch \/ SuMoves \/ SuDies
  BY <1>1, <1>6 DEF SuTypeOK, SuSpringBoard, SuLaunch, SuMoves, SuDies, SuFails, suStops
<1>7. QED
  BY <1>2, <1>3, <1>4, <1>5, <1>6 DEF SuNext

LEMMA StartupModes == ASSUME SuInv, SuNext PROVE ModeOfStep'
<1>1. SuTypeOK /\ ModeOfStep
  BY DEF SuInv
<1>2. CASE SuProbe \/ SuAsk
  BY <1>1, <1>2 DEF SuTypeOK, ModeOfStep, SuProbe, SuAsk, FirstStep
<1>3. CASE SuResolve \/ SuForceStop \/ SuHome \/ SuPause
  BY <1>1, <1>3 DEF SuTypeOK, ModeOfStep, SuResolve, SuForceStop, SuHome, SuPause, SuFails
<1>4. CASE SuStart
  BY <1>1, <1>4 DEF ModeOfStep, SuStart, SuFails, Parsed
<1>5. CASE SuAgain
  BY <1>1, <1>5 DEF ModeOfStep, SuAgain, SuFails, Parsed
<1>6. CASE SuSpringBoard \/ SuLaunch \/ SuMoves \/ SuDies
  BY <1>1, <1>6 DEF ModeOfStep, SuSpringBoard, SuLaunch, SuMoves, SuDies, SuFails
<1>7. QED
  BY <1>2, <1>3, <1>4, <1>5, <1>6 DEF SuNext

LEMMA StartupOwns == ASSUME SuInv, SuNext PROVE Ownership'
<1>1. SuTypeOK /\ ModeOfStep /\ Ownership
  BY DEF SuInv
<1>2. CASE SuProbe \/ SuAsk
  <2>1. suStep' \notin {"start", "ok"} /\ ~suOwn' /\ suPlace' = suPlace
    BY <1>1, <1>2 DEF ModeOfStep, SuProbe, SuAsk, FirstStep
  <2>2. suMode' = "hot" /\ suPlace = "none" => suLost'
    <3>1. CASE SuProbe
      BY <3>1 DEF SuProbe
    <3>2. CASE SuAsk
      <4>1. suLost' = (suPlace = "none")
        BY <3>2 DEF SuAsk
      <4>2. QED
        BY <4>1, Zenon
    <3>3. QED
      BY <1>2, <3>1, <3>2
  <2>3. QED
    BY <2>1, <2>2 DEF Ownership
<1>3. CASE SuResolve \/ SuForceStop \/ SuHome \/ SuPause
  <2>1. CASE SuResolve
    BY <1>1, <2>1 DEF SuTypeOK, ModeOfStep, Ownership, SuResolve, SuFails
  <2>2. CASE SuForceStop
    BY <1>1, <2>2 DEF ModeOfStep, Ownership, SuForceStop
  <2>3. CASE SuHome \/ SuPause
    BY <1>1, <2>3 DEF ModeOfStep, Ownership, SuHome, SuPause
  <2>4. QED
    BY <1>3, <2>1, <2>2, <2>3
<1>4. CASE SuStart
  <2>1. CASE SuFails
    BY <1>1, <1>4, <2>1 DEF Ownership, SuStart, SuFails
  <2>2. CASE ~SuFails
    <3>1. PICK place \in {"none", "front", "moving", "back"}, says \in {"none", "zero", "some"} :
             /\ PlaceAtStart(place) /\ AmStart(place, says)
             /\ IF suMode = "hot" /\ AlreadyForeground(says)
                  THEN suStep' = "home" /\ UNCHANGED suTime
                  ELSE Parsed(says)
             /\ suStep = "start" /\ UNCHANGED <<suPlatform, suMode, suLost, suStayed, suKept>>
      BY <1>4, <2>2, StartIs
    <3>2. suStep' \in {"home", "failed", "ok"}
      BY <3>1 DEF Parsed
    <3>3. CASE suMode = "cold"
      <4>1. CASE place = "none"
        BY <3>1, <3>2, <3>3, <4>1 DEF Ownership, AmStart
      <4>2. CASE place # "none"
        <5>1. suPlace # "none" /\ suDelayed'
          BY <3>1, <3>3, <4>2, LateStop
        <5>2. suKept'
          BY <1>1, <3>1, <3>3, <5>1 DEF Ownership
        <5>3. QED
          BY <3>1, <3>2, <3>3, <5>1, <5>2 DEF Ownership, Outlived
      <4>3. QED
        BY <4>1, <4>2
    <3>4. CASE suMode # "cold"
      <4>1. place = suPlace
        BY <3>1, <3>4 DEF PlaceAtStart
      <4>2. /\ suPlace' # "none"
            /\ suOwn' => suOwn \/ suPlace = "none"
        BY <3>1, <4>1 DEF AmStart
      <4>3. QED
        BY <1>1, <3>1, <3>2, <3>4, <4>2 DEF Ownership
    <3>5. QED
      BY <3>3, <3>4
  <2>3. QED
    BY <2>1, <2>2
<1>5. CASE SuAgain
  BY <1>1, <1>5 DEF ModeOfStep, Ownership, SuAgain, SuFails, AmStart, Parsed
<1>6. CASE SuSpringBoard \/ SuLaunch \/ SuMoves \/ SuDies
  <2>1. CASE SuSpringBoard \/ SuMoves
    BY <1>1, <2>1 DEF Ownership, Outlived, SuSpringBoard, SuMoves, suStops
  <2>2. CASE SuDies
    BY <2>2 DEF Ownership, SuDies
  <2>3. CASE SuLaunch
    <3>1. CASE SuFails
      BY <1>1, <2>3, <3>1 DEF Ownership, SuLaunch, SuFails
    <3>2. CASE ~SuFails
      <4>1. /\ suOwn' = (suOwn \/ suMode = "cold" \/ suPlace = "none")
            /\ suPlace' = "front" /\ suStep' = "ok" /\ UNCHANGED <<suMode, suLost>>
        BY <2>3, <3>2 DEF SuLaunch
      <4>2. suOwn' <=> suOwn \/ suMode = "cold" \/ suPlace = "none"
        BY <4>1, Zenon
      <4>3. QED
        BY <1>1, <4>1, <4>2 DEF Ownership
    <3>3. QED
      BY <3>1, <3>2
  <2>4. QED
    BY <1>6, <2>1, <2>2, <2>3
<1>7. QED
  BY <1>2, <1>3, <1>4, <1>5, <1>6 DEF SuNext

LEMMA StartupLeaves == ASSUME SuInv, SuNext PROVE Leaving'
<1>1. SuTypeOK /\ ModeOfStep /\ Leaving
  BY DEF SuInv
<1>2. CASE SuProbe \/ SuAsk
  BY <1>1, <1>2 DEF ModeOfStep, Leaving, SuProbe, SuAsk, FirstStep
<1>3. CASE SuResolve \/ SuForceStop \/ SuHome \/ SuPause
  BY <1>1, <1>3 DEF SuTypeOK, ModeOfStep, Leaving, SuResolve, SuForceStop, SuHome, SuPause, SuFails
<1>4. CASE SuStart
  <2>1. suStayed' = suStayed /\ suStep' \notin {"pause", "again"} /\ suTime = "none"
    BY <1>1, <1>4 DEF ModeOfStep, SuStart, SuFails, Parsed
  <2>2. suTime' = "zero" => suMode' = "cold" /\ Outlived'
    <3>1. CASE SuFails
      BY <2>1, <3>1 DEF SuFails
    <3>2. CASE ~SuFails
      <4>1. PICK place \in {"none", "front", "moving", "back"}, says \in {"none", "zero", "some"} :
               /\ PlaceAtStart(place) /\ AmStart(place, says)
               /\ IF suMode = "hot" /\ AlreadyForeground(says)
                    THEN suStep' = "home" /\ UNCHANGED suTime
                    ELSE Parsed(says)
               /\ suStep = "start" /\ UNCHANGED <<suPlatform, suMode, suLost, suStayed, suKept>>
        BY <1>4, <3>2, StartIs
      <4>2. SUFFICES ASSUME suTime' = "zero" PROVE suMode' = "cold" /\ Outlived'
        OBVIOUS
      <4>3. says = "zero" /\ suMode # "hot" /\ suMode # "none"
        BY <1>1, <2>1, <4>1, <4>2 DEF AlreadyForeground, Parsed, ModeOfStep
      <4>4. place = "front" /\ suMode = "cold"
        BY <1>1, <4>1, <4>3 DEF AmStart, SuTypeOK
      <4>5. suPlace = "front" /\ suDelayed'
        BY <4>1, <4>4, LateStop
      <4>6. suKept'
        BY <4>1, <4>4, <4>5 DEF SuInv, Ownership
      <4>7. QED
        BY <4>1, <4>4, <4>5, <4>6 DEF Outlived
    <3>3. QED
      BY <3>1, <3>2
  <2>3. QED
    BY <2>1, <2>2 DEF Leaving
<1>5. CASE SuAgain
  <2>1. suTime = "none" /\ suStep = "again" /\ suStep' \notin {"pause", "again"} /\ suStayed' = suStayed
    BY <1>1, <1>5 DEF ModeOfStep, SuAgain, SuFails, Parsed
  <2>2. suTime' = "zero" => suPlace = "front"
    BY <1>5, <2>1 DEF SuAgain, SuFails, AmStart, Parsed
  <2>3. QED
    BY <1>1, <2>1, <2>2 DEF Leaving
<1>6. CASE SuSpringBoard \/ SuLaunch \/ SuMoves \/ SuDies
  BY <1>1, <1>6 DEF Leaving, Outlived, SuSpringBoard, SuLaunch, SuMoves, SuDies, SuFails, suStops
<1>7. QED
  BY <1>2, <1>3, <1>4, <1>5, <1>6 DEF SuNext

LEMMA StartupStep == SuInv /\ [SuNext]_suVars => SuInv'
<1>1. ASSUME SuInv, SuNext PROVE SuInv'
  BY <1>1, StartupTypes, StartupModes, StartupOwns, StartupLeaves DEF SuInv
<1>2. ASSUME SuInv, UNCHANGED suVars PROVE SuInv'
  BY <1>2 DEF suVars, suStops, SuInv, SuTypeOK, ModeOfStep, Ownership, Leaving, Outlived
<1>3. QED
  BY <1>1, <1>2

\* What the measurement knows at each of its commands.
THEOREM StartupInvariance == SuSpec => []SuInv
<1>1. QED
  BY StartupStart, StartupStep, PTL DEF SuSpec

-----------------------------------------------------------------------------
(***************************************************************************)
(* AndroidCpu: what the application did since the tick before covers the   *)
(* growth of its counters, whatever processes come and go.                 *)
(***************************************************************************)

\* The counters of the processes that run, added up.
Jiffies(procs) ==
    (IF procs["main"] = AcNone THEN 0 ELSE procs["main"])
    + (IF procs["remote"] = AcNone THEN 0 ELSE procs["remote"])

\* The last reading and the work since then make up what the counters show.
Covered ==
    /\ acWork \in Nat /\ acWork <= acTotal
    /\ acLastApp # AcNone => Jiffies(acProcs) <= acLastApp + acWork

AcInv == AcTypeOK /\ Covered

LEMMA SumIs ==
    ASSUME acProcs \in [AcProcesses -> AcNone..MaxJiffies]
    PROVE  /\ AcRunning = {} => SumApp = AcNone
           /\ AcRunning # {} => SumApp = Jiffies(acProcs)
           /\ SumApp \in AcNone..2 * MaxJiffies
<1>1. acProcs["main"] \in -1..3 /\ acProcs["remote"] \in -1..3
  BY DEF AcProcesses, AcNone, MaxJiffies
<1>2. CASE AcRunning = {}
  BY <1>2 DEF SumApp, AcNone, MaxJiffies
<1>3. CASE AcRunning = AcProcesses
  <2>1. acProcs["main"] # -1 /\ acProcs["remote"] # -1 /\ AcRunning # {}
    BY <1>3 DEF AcRunning, AcProcesses, AcNone
  <2>2. SumApp = acProcs["main"] + acProcs["remote"]
    BY <1>3, <2>1 DEF SumApp
  <2>3. QED
    BY <1>1, <2>1, <2>2 DEF Jiffies, AcNone, MaxJiffies
<1>4. CASE AcRunning # {} /\ AcRunning # AcProcesses
  <2>1. SumApp = acProcs[CHOOSE p \in AcRunning : TRUE]
    BY <1>4 DEF SumApp
  <2>2. \/ AcRunning = {"main"} /\ acProcs["remote"] = -1 /\ acProcs["main"] # -1
        \/ AcRunning = {"remote"} /\ acProcs["main"] = -1 /\ acProcs["remote"] # -1
    BY <1>4 DEF AcRunning, AcProcesses, AcNone
  <2>3. (CHOOSE p \in AcRunning : TRUE) \in AcRunning
    BY <1>4
  <2>4. QED
    BY <1>1, <1>4, <2>1, <2>2, <2>3 DEF Jiffies, AcNone, MaxJiffies
<1>5. QED
  BY <1>2, <1>3, <1>4

LEMMA CpuStart == AcInit => AcInv
<1> SUFFICES ASSUME AcInit PROVE AcInv
  OBVIOUS
<1>1. AcTypeOK
  BY DEF AcInit, AcTypeOK, AcShares, NoShare, AcNone, MaxJiffies
<1>2. Covered
  BY DEF AcInit, Covered
<1>3. QED
  BY <1>1, <1>2 DEF AcInv

\* Time passes and processes come and go.
LEMMA DeviceCovers ==
    ASSUME AcInv, AcRuns \/ AcProcessEnds \/ AcProcessStarts
    PROVE  AcInv'
<1>1. AcTypeOK /\ Covered
  BY DEF AcInv
<1>2. /\ acTotal \in 0..3 /\ acBusy \in 0..acTotal /\ acWork \in 0..12 /\ acLastApp \in -1..6
      /\ acProcs \in [{"main", "remote"} -> -1..3]
      /\ acWork <= acTotal
      /\ acLastApp # -1 => Jiffies(acProcs) <= acLastApp + acWork
  BY <1>1 DEF AcTypeOK, Covered, AcNone, MaxJiffies, AcProcesses
<1>3. /\ UNCHANGED acSampler
      /\ acTotal' \in 0..3 /\ acBusy' \in 0..acTotal' /\ acWork' \in 0..12
      /\ acProcs' \in [{"main", "remote"} -> -1..3]
      /\ acWork' <= acTotal'
      /\ acWork' >= acWork /\ Jiffies(acProcs') - Jiffies(acProcs) <= acWork' - acWork
      /\ Jiffies(acProcs') \in Nat /\ Jiffies(acProcs) \in Nat
  <2>1. CASE AcRuns
    <3>1. CASE acBusy' = acBusy /\ UNCHANGED <<acProcs, acWork>>
      BY <1>2, <2>1, <3>1 DEF AcRuns, MaxJiffies, Jiffies, AcNone
    <3>2. CASE acBusy' = acBusy + 1
      <4>1. PICK p \in {"main", "remote"} :
               acProcs[p] \in 0..2 /\ acProcs' = [acProcs EXCEPT ![p] = @ + 1]
               /\ acWork' = acWork + 1
        BY <1>2, <2>1, <3>2 DEF AcRuns, MaxJiffies, AcProcesses
      <4>2. acTotal' = acTotal + 1 /\ acTotal < 3 /\ UNCHANGED acSampler
        BY <2>1 DEF AcRuns, MaxJiffies
      <4>3. /\ acProcs' \in [{"main", "remote"} -> -1..3]
            /\ Jiffies(acProcs') = Jiffies(acProcs) + 1 /\ Jiffies(acProcs) \in Nat
        <5>1. CASE p = "main"
          <6>1. /\ acProcs'["main"] = acProcs["main"] + 1 /\ acProcs["main"] \in 0..2
                /\ acProcs'["remote"] = acProcs["remote"] /\ acProcs["remote"] \in -1..3
            BY <1>2, <4>1, <5>1
          <6>2. QED
            BY <1>2, <4>1, <5>1, <6>1 DEF Jiffies, AcNone
        <5>2. CASE p = "remote"
          <6>1. /\ acProcs'["remote"] = acProcs["remote"] + 1 /\ acProcs["remote"] \in 0..2
                /\ acProcs'["main"] = acProcs["main"] /\ acProcs["main"] \in -1..3
            BY <1>2, <4>1, <5>2
          <6>2. QED
            BY <1>2, <4>1, <5>2, <6>1 DEF Jiffies, AcNone
        <5>3. QED
          BY <4>1, <5>1, <5>2
      <4>4. QED
        BY <1>2, <3>2, <4>1, <4>2, <4>3
    <3>3. QED
      BY <2>1, <3>1, <3>2 DEF AcRuns
  <2>2. CASE AcProcessEnds
    <3>1. PICK p \in {"main", "remote"} : acProcs' = [acProcs EXCEPT ![p] = -1]
      BY <2>2 DEF AcProcessEnds, AcProcesses, AcNone
    <3>2. UNCHANGED <<acSampler, acTotal, acBusy, acWork>>
      BY <2>2 DEF AcProcessEnds
    <3>3. QED
      BY <1>2, <3>1, <3>2 DEF Jiffies, AcNone
  <2>3. CASE AcProcessStarts
    <3>1. PICK p \in {"main", "remote"} : acProcs[p] = -1 /\ acProcs' = [acProcs EXCEPT ![p] = 0]
      BY <2>3 DEF AcProcessStarts, AcProcesses, AcNone
    <3>2. UNCHANGED <<acSampler, acTotal, acBusy, acWork>>
      BY <2>3 DEF AcProcessStarts
    <3>3. QED
      BY <1>2, <3>1, <3>2 DEF Jiffies, AcNone
  <2>4. QED
    BY <2>1, <2>2, <2>3
<1>4. AcTypeOK'
  BY <1>1, <1>3 DEF AcTypeOK, acSampler, AcNone, MaxJiffies, AcProcesses
<1>5. Covered'
  <2>1. acLastApp' = acLastApp
    BY <1>3 DEF acSampler
  <2>2. acLastApp' # -1 => Jiffies(acProcs') <= acLastApp' + acWork'
    BY <1>2, <1>3, <2>1
  <2>3. QED
    BY <1>3, <2>2 DEF Covered, AcNone
<1>6. QED
  BY <1>4, <1>5 DEF AcInv

LEMMA SystemReadCovers == ASSUME AcInv, AcStart \/ AcReadSystem PROVE AcInv'
<1>1. AcTypeOK /\ Covered
  BY DEF AcInv
<1>2. ProcStat \in [total : 0..MaxJiffies, busy : 0..MaxJiffies]
  BY <1>1 DEF AcTypeOK, ProcStat, MaxJiffies
<1>3. CpuPct(acLast, ProcStat) \in AcShares /\ NoShare \in AcShares
  BY <1>1, <1>2 DEF AcTypeOK, CpuPct, AcShares, NoShare, AcNone, MaxJiffies
<1>4. AcTypeOK'
  <2>1. CASE AcStart
    BY <1>1, <1>2, <2>1 DEF AcTypeOK, AcStart, acDevice
  <2>2. CASE AcReadSystem
    <3>1. \/ acCurr' = ProcStat /\ acOut' = [total |-> CpuPct(acLast, ProcStat), app |-> NoShare]
          \/ UNCHANGED <<acCurr, acOut>>
      BY <2>2 DEF AcReadSystem
    <3>2. acCurr' \in [total : 0..MaxJiffies, busy : 0..MaxJiffies]
          /\ acOut' \in [total : AcShares, app : AcShares]
      BY <1>1, <1>2, <1>3, <3>1 DEF AcTypeOK
    <3>3. QED
      BY <1>1, <2>2, <3>2 DEF AcTypeOK, AcReadSystem, acDevice
  <2>3. QED
    BY <2>1, <2>2
<1>5. Covered'
  BY <1>1 DEF Covered, AcStart, AcReadSystem, acDevice, Jiffies
<1>6. QED
  BY <1>4, <1>5 DEF AcInv

\* What the second half of a tick yields.
LEMMA ShareIs ==
    ASSUME AcInv, AcReadApp
    PROVE  /\ acOut'.app \in AcShares
           /\ acOut'.app.part > 0 =>
                 acOut'.app.part <= acWork /\ acOut'.app.of = acCurr.total - acLast.total
           /\ AcRunning = {} => acOut'.app = ZeroShare
<1>1. AcTypeOK /\ Covered
  BY DEF AcInv
<1>2. PICK read \in {SumApp, AcNone} :
         /\ acOut' = [acOut EXCEPT !.app = ZeroIfGone(AppShare(read), read)]
         /\ acLastApp' = AppReadingFor(read)
  BY DEF AcReadApp
<1>3. acOut'.app = ZeroIfGone(AppShare(read), read)
  BY <1>1, <1>2 DEF AcTypeOK
<1>4. /\ AcRunning = {} => read = -1
      /\ read # -1 => read = Jiffies(acProcs)
      /\ read \in -1..6
  BY <1>1, <1>2, SumIs DEF AcTypeOK, AcNone, MaxJiffies
<1>5. /\ acLastApp \in -1..6 /\ acWork \in 0..12
      /\ acLastApp # -1 => Jiffies(acProcs) <= acLastApp + acWork
      /\ acCurr.total \in 0..3 /\ acLast.total \in 0..3
  BY <1>1 DEF AcTypeOK, Covered, AcNone, MaxJiffies
<1>6. CASE acLastApp # -1 /\ read # -1 /\ acCurr.total - acLast.total > 0
  <2>1. AppShare(read) = [part |-> IF read > acLastApp THEN read - acLastApp ELSE 0,
                          of |-> acCurr.total - acLast.total]
    BY <1>6 DEF AppShare, AcNone
  <2>2. ZeroIfGone(AppShare(read), read) = AppShare(read)
    BY <1>6 DEF ZeroIfGone, AcNone
  <2>3. /\ (IF read > acLastApp THEN read - acLastApp ELSE 0) \in 0..6
        /\ (IF read > acLastApp THEN read - acLastApp ELSE 0) <= acWork
        /\ acCurr.total - acLast.total \in 0..3
    BY <1>4, <1>5, <1>6
  <2>4. QED
    BY <1>3, <1>4, <1>6, <2>1, <2>2, <2>3 DEF AcShares, MaxJiffies
<1>7. CASE ~(acLastApp # -1 /\ read # -1 /\ acCurr.total - acLast.total > 0)
  <2>1. AppShare(read) = NoShare
    BY <1>7 DEF AppShare, AcNone
  <2>2. ZeroIfGone(NoShare, read) = IF read = -1 THEN ZeroShare ELSE NoShare
    BY DEF ZeroIfGone, AcNone
  <2>3. QED
    BY <1>3, <1>4, <2>1, <2>2 DEF ZeroShare, NoShare, AcShares, MaxJiffies, AcNone
<1>8. QED
  BY <1>6, <1>7

LEMMA AppReadCovers == ASSUME AcInv, AcReadApp PROVE AcInv'
<1>1. AcTypeOK /\ Covered
  BY DEF AcInv
<1>2. PICK read \in {SumApp, AcNone} :
         /\ acOut' = [acOut EXCEPT !.app = ZeroIfGone(AppShare(read), read)]
         /\ acLastApp' = AppReadingFor(read)
  BY DEF AcReadApp
<1>3. /\ acStep' = "system" /\ acLast' = acCurr /\ acWork' = 0
      /\ UNCHANGED <<acCurr, acTotal, acBusy, acProcs>>
  BY DEF AcReadApp, acDevice
<1>4. read \in -1..6 /\ (read # -1 => read = Jiffies(acProcs))
  BY <1>1, <1>2, SumIs DEF AcTypeOK, AcNone, MaxJiffies
<1>5. acOut' \in [total : AcShares, app : AcShares]
  <2>1. acOut'.app \in AcShares
    BY ShareIs
  <2>2. acOut' = [acOut EXCEPT !.app = acOut'.app]
    BY <1>1, <1>2 DEF AcTypeOK
  <2>3. QED
    BY <1>1, <2>1, <2>2 DEF AcTypeOK
<1>6. AcTypeOK'
  BY <1>1, <1>2, <1>3, <1>4, <1>5 DEF AcTypeOK, AppReadingFor, AcNone, MaxJiffies
<1>7. Covered'
  BY <1>1, <1>2, <1>3, <1>4 DEF AcTypeOK, Covered, AppReadingFor, AcNone, Jiffies, MaxJiffies
<1>8. QED
  BY <1>6, <1>7 DEF AcInv

LEMMA CpuStep == AcInv /\ [AcNext]_acVars => AcInv'
<1>1. ASSUME AcInv, UNCHANGED acVars PROVE AcInv'
  BY <1>1 DEF acVars, acSampler, acDevice, AcInv, AcTypeOK, Covered, Jiffies
<1>2. QED
  BY <1>1, DeviceCovers, SystemReadCovers, AppReadCovers DEF AcNext

\* The counters an application share is taken of never show more than was
\* done since the tick before.
THEOREM CpuInvariance == AcSpec => []AcInv
<1>1. QED
  BY CpuStart, CpuStep, PTL DEF AcSpec

-----------------------------------------------------------------------------
(***************************************************************************)
(* SurfaceFrames: what the sampler has made of the frames up to its mark.  *)
(***************************************************************************)

Verdicts == Tiers \cup {"gap"}
Counters == [small : Nat, normal : Nat, big : Nat, new : Nat]

Windows == {window \in Seq(1..Gap - 1) : Len(window) <= 3}

\* The layer while a tick goes along the ring.
Looks == [at : Nat, prev : Windows, jank : Nat, total : Nat, tick : Counters,
          tier : Verdicts, tiers : UNION {[times -> Verdicts] : times \in SUBSET Nat},
          twice : BOOLEAN]

\* The times of a layer's frames go up.
Stream(frames) ==
    /\ frames \in Seq(Nat)
    /\ \A m, n \in 1..Len(frames) : m < n => frames[m] < frames[n]

\* No frame up to the mark was taken twice and the times add up; where the ring has lost none, the
\* tiers are right and the window holds the last three.
Accounted(frames, seed, whole, look) ==
    /\ DOMAIN look.tiers \subseteq {frames[n] : n \in Followed(frames, seed, look.at)}
    /\ ~ look.twice
    /\ look.jank <= look.total /\ look.total <= look.at - seed
    /\ (\A t \in DOMAIN look.tiers : look.tiers[t] # "gap") => look.total = look.at - seed
    /\ whole => /\ RightTiers(frames, seed, look.at, look.tiers)
                /\ \E at \in LastThree(frames, seed, look.at) : look.prev = DurationsAt(frames, at)

LEMMA LookFields ==
    ASSUME NEW look \in Looks
    PROVE  /\ look.at \in Nat /\ look.prev \in Windows /\ look.prev \in Seq(1..Gap - 1)
           /\ look.jank \in Nat
           /\ look.total \in Nat /\ look.tick \in Counters /\ look.tier \in Verdicts
           /\ DOMAIN look.tiers \subseteq Nat /\ look.tiers \in [DOMAIN look.tiers -> Verdicts]
           /\ look.twice \in BOOLEAN
<1>1. PICK times \in SUBSET Nat : look.tiers \in [times -> Verdicts]
  BY DEF Looks
<1>2. DOMAIN look.tiers \subseteq Nat /\ look.tiers \in [DOMAIN look.tiers -> Verdicts]
  BY <1>1
<1>3. QED
  BY <1>2 DEF Looks, Windows

LEMMA GapIs == Gap = 480 /\ MovieFrame = 4 /\ RingSize = 4 /\ MaxFrames = 7
<1>1. QED
  BY DEF Gap, MovieFrame, RingSize, MaxFrames

LEMMA TierIs ==
    ASSUME NEW d, NEW before
    PROVE  TierAfter(d, before) \in Tiers /\ TierAfter(d, before) # "gap"
<1>1. QED
  BY DEF TierAfter, Tiers

LEMMA CountedIs ==
    ASSUME NEW tick \in Counters, NEW tier \in Tiers
    PROVE  /\ Counted(tick, tier) \in Counters
           /\ Counted(tick, tier).new = tick.new
           /\ \A f \in {"small", "normal", "big"} :
                 tick[f] <= Counted(tick, tier)[f] /\ Counted(tick, tier)[f] <= tick[f] + 1
<1>1. CASE tier = "none"
  BY <1>1 DEF Counted, Counters
<1>2. CASE tier # "none"
  <2>1. tier \in {"small", "normal", "big"}
    BY <1>2 DEF Tiers
  <2>2. Counted(tick, tier) = [tick EXCEPT ![tier] = tick[tier] + 1]
    BY <1>2 DEF Counted
  <2>3. tick.small \in Nat /\ tick.normal \in Nat /\ tick.big \in Nat /\ tick.new \in Nat
    BY DEF Counters
  <2>4. QED
    BY <2>1, <2>2, <2>3 DEF Counters
<1>3. QED
  BY <1>1, <1>2

LEMMA NumberFacts ==
    /\ \A x, y, z \in Nat : x < y /\ ~ (y > z) => ~ (x > z)
    /\ \A x, y \in Nat : x < y => x <= y
    /\ \A x, y \in Nat : x <= y /\ ~ (y > x) => x = y
    /\ \A x, y, z \in Nat : x <= y /\ y < z => x <= z
    /\ \A x, y \in Nat : x <= y - 1 => x <= y /\ x + 1 <= y
<1>1. QED
  OBVIOUS

LEMMA NotEmpty == \A w : Len(w) = 3 \/ Len(w) = 2 => w # <<>>
<1>1. Len(<<>>) = 0
  OBVIOUS
<1>2. QED
  BY <1>1

LEMMA WindowIs ==
    ASSUME NEW before \in Windows, NEW d \in 1..Gap - 1
    PROVE  WindowAfter(before, d) \in Windows
<1>1. before \in Seq(1..Gap - 1) /\ Len(before) \in Nat /\ Len(before) <= 3
  BY LenProperties DEF Windows
<1>2. CASE Len(before) < 3
  <2>1. Append(before, d) \in Seq(1..Gap - 1) /\ Len(Append(before, d)) = Len(before) + 1
    BY <1>1, AppendProperties
  <2>2. QED
    BY <1>1, <1>2, <2>1 DEF WindowAfter, Windows
<1>3. CASE ~ (Len(before) < 3)
  <2>1. Len(before) = 3 /\ before # <<>>
    <3>1. Len(before) = 3
      <4>1. \A x \in Nat : x <= 3 /\ ~ (x < 3) => x = 3
        OBVIOUS
      <4>2. QED
        BY <1>1, <1>3, <4>1
    <3>2. QED
      BY <3>1, NotEmpty
  <2> DEFINE rest == Tail(before)
  <2>2. rest \in Seq(1..Gap - 1) /\ Len(rest) = 2
    BY <1>1, <2>1, HeadTailProperties
  <2> HIDE DEF rest
  <2>3. Append(rest, d) \in Seq(1..Gap - 1) /\ Len(Append(rest, d)) = 3
    <3>1. d \in 1..Gap - 1 /\ rest \in Seq(1..Gap - 1)
      BY <2>2
    <3> DEFINE Lengths == 1..Gap - 1
    <3> HIDE DEF Lengths
    <3>2. d \in Lengths /\ rest \in Seq(Lengths)
      BY <3>1 DEF Lengths
    <3>3. Append(rest, d) \in Seq(Lengths) /\ Len(Append(rest, d)) = Len(rest) + 1
      BY <3>2, AppendProperties
    <3>4. QED
      BY <2>2, <3>3 DEF Lengths
  <2>4. WindowAfter(before, d) = Append(rest, d)
    BY <1>3 DEF WindowAfter, rest
  <2>5. QED
    BY <2>3, <2>4 DEF Windows
<1>4. QED
  BY <1>2, <1>3

\* One frame: its fields, by the duration since the mark.
LEMMA TakenIs ==
    ASSUME NEW look \in Looks, NEW t \in Nat, look.at < t
    PROVE  LET new == TakeFrame(look, t)
               d == t - look.at
               tier == IF d < Gap THEN TierAfter(d, look.prev) ELSE "gap"
           IN  /\ new.at = t
               /\ new.prev = IF d < Gap THEN WindowAfter(look.prev, d) ELSE look.prev
               /\ new.total = IF d < Gap THEN look.total + d ELSE look.total
               /\ new.jank = IF d < Gap /\ tier # "none" THEN look.jank + d ELSE look.jank
               /\ new.tiers = [u \in {t} \cup DOMAIN look.tiers |-> IF u = t THEN tier ELSE look.tiers[u]]
               /\ new.twice = (look.twice \/ t \in DOMAIN look.tiers)
               /\ new.tick.new = look.tick.new + 1
               /\ \A f \in {"small", "normal", "big"} :
                     look.tick[f] <= new.tick[f] /\ new.tick[f] <= look.tick[f] + 1
               /\ new \in Looks
<1> DEFINE new == TakeFrame(look, t)
           d == t - look.at
           tier == IF d < Gap THEN TierAfter(d, look.prev) ELSE "gap"
<1>1. d \in Nat /\ d > 0 /\ Gap \in Nat
  BY LookFields, GapIs
<1>2. (d \in 1..Gap - 1) = (d < Gap)
  BY <1>1
<1>3. /\ look.at \in Nat /\ look.prev \in Windows /\ look.jank \in Nat
      /\ look.total \in Nat /\ look.tick \in Counters /\ look.tier \in Verdicts
      /\ DOMAIN look.tiers \subseteq Nat /\ look.tiers \in [DOMAIN look.tiers -> Verdicts]
      /\ look.twice \in BOOLEAN
  BY LookFields
<1> DEFINE next == IF d \in 1..Gap - 1 THEN Classify(look, d) ELSE [look EXCEPT !.tier = "gap"]
<1>4. new = [next EXCEPT !.at = t, !.tick.new = next.tick.new + 1,
                         !.tiers = [u \in {t} \cup DOMAIN next.tiers |->
                                        IF u = t THEN next.tier ELSE next.tiers[u]],
                         !.twice = next.twice \/ t \in DOMAIN look.tiers]
  BY DEF TakeFrame, FrameEnd
<1>5. /\ next \in Looks
      /\ next.prev = IF d < Gap THEN WindowAfter(look.prev, d) ELSE look.prev
      /\ next.total = IF d < Gap THEN look.total + d ELSE look.total
      /\ next.jank = IF d < Gap /\ tier # "none" THEN look.jank + d ELSE look.jank
      /\ next.tier = tier /\ next.tiers = look.tiers /\ next.twice = look.twice
      /\ next.tick.new = look.tick.new
      /\ \A f \in {"small", "normal", "big"} :
            look.tick[f] <= next.tick[f] /\ next.tick[f] <= look.tick[f] + 1
  <2>1. CASE d < Gap
    <3>1. tier \in Tiers /\ tier \in Verdicts /\ tier = TierAfter(d, look.prev)
      BY <2>1, TierIs DEF Verdicts
    <3>2. WindowAfter(look.prev, d) \in Windows
      BY <1>1, <1>2, <1>3, <2>1, WindowIs
    <3>3. /\ Counted(look.tick, tier) \in Counters
          /\ Counted(look.tick, tier).new = look.tick.new
          /\ \A f \in {"small", "normal", "big"} :
                look.tick[f] <= Counted(look.tick, tier)[f]
                  /\ Counted(look.tick, tier)[f] <= look.tick[f] + 1
      BY <3>1, <1>3, CountedIs
    <3>4. next = [look EXCEPT !.prev = WindowAfter(look.prev, d), !.total = look.total + d,
                              !.jank = IF tier = "none" THEN look.jank ELSE look.jank + d,
                              !.tick = Counted(look.tick, tier), !.tier = tier]
      BY <1>2, <2>1 DEF Classify
    <3> HIDE DEF next, tier, d
    <3>9. look.total + d \in Nat /\ look.jank + d \in Nat
      BY <1>1, <1>3
    <3>5. look.total + d \in Nat /\ (IF tier = "none" THEN look.jank ELSE look.jank + d) \in Nat
      BY <1>3, <3>9
    <3>6. next \in Looks
      BY <3>1, <3>2, <3>3, <3>4, <3>5 DEF Looks
    <3>7. /\ next.prev = WindowAfter(look.prev, d) /\ next.total = look.total + d
          /\ next.jank = (IF tier = "none" THEN look.jank ELSE look.jank + d)
          /\ next.tick = Counted(look.tick, tier) /\ next.tier = tier
          /\ next.tiers = look.tiers /\ next.twice = look.twice
      BY <3>4 DEF Looks
    <3>8. QED
      BY <2>1, <3>3, <3>6, <3>7
  <2>2. CASE ~ (d < Gap)
    <3>1. next = [look EXCEPT !.tier = "gap"]
      BY <1>2, <2>2
    <3>2. look.tick.small \in Nat /\ look.tick.normal \in Nat /\ look.tick.big \in Nat
      BY <1>3 DEF Counters
    <3>3. tier = "gap"
      BY <2>2
    <3> HIDE DEF next, tier, d
    <3>4. next \in Looks
      BY <3>1 DEF Looks, Verdicts
    <3>5. /\ next.prev = look.prev /\ next.total = look.total /\ next.jank = look.jank
          /\ next.tick = look.tick /\ next.tiers = look.tiers /\ next.twice = look.twice
          /\ next.tier = "gap"
      BY <3>1 DEF Looks
    <3>6. QED
      BY <2>2, <3>2, <3>3, <3>4, <3>5
  <2>3. QED
    BY <2>1, <2>2
<1> DEFINE judged == [u \in {t} \cup DOMAIN look.tiers |-> IF u = t THEN tier ELSE look.tiers[u]]
<1>6. [u \in {t} \cup DOMAIN next.tiers |-> IF u = t THEN next.tier ELSE next.tiers[u]] = judged
  <2> HIDE DEF next, tier
  <2>1. next.tier = tier /\ next.tiers = look.tiers
    BY <1>5
  <2>2. QED
    BY <2>1
<1>7. judged \in UNION {[times -> Verdicts] : times \in SUBSET Nat}
  <2>1. tier \in Verdicts
    BY TierIs DEF Verdicts
  <2> HIDE DEF tier
  <2>2. judged \in [{t} \cup DOMAIN look.tiers -> Verdicts]
    BY <1>3, <2>1
  <2>3. {t} \cup DOMAIN look.tiers \in SUBSET Nat
    BY <1>3
  <2>4. QED
    BY <2>2, <2>3
<1> HIDE DEF next, judged, tier, d
<1>8. new = [next EXCEPT !.at = t, !.tick = [next.tick EXCEPT !.new = next.tick.new + 1],
                         !.tiers = judged, !.twice = look.twice \/ t \in DOMAIN look.tiers]
  BY <1>4, <1>5, <1>6
<1> HIDE DEF new
<1>9. next.tick \in Counters /\ next.tick.new \in Nat
  BY <1>5 DEF Looks, Counters
<1>10. [next.tick EXCEPT !.new = next.tick.new + 1] \in Counters
  BY <1>9 DEF Counters
<1>11. new \in Looks
  <2>1. (look.twice \/ t \in DOMAIN look.tiers) \in BOOLEAN
    OBVIOUS
  <2>2. QED
    BY <1>5, <1>7, <1>8, <1>10, <2>1 DEF Looks
<1>12. /\ new.at = t /\ new.prev = next.prev /\ new.total = next.total /\ new.jank = next.jank
       /\ new.tiers = judged /\ new.twice = (look.twice \/ t \in DOMAIN look.tiers)
       /\ new.tick = [next.tick EXCEPT !.new = next.tick.new + 1]
  BY <1>5, <1>8 DEF Looks
<1>13. new.tick.new = look.tick.new + 1
  BY <1>5, <1>9, <1>12 DEF Counters
<1>14. \A f \in {"small", "normal", "big"} : new.tick[f] = next.tick[f]
  BY <1>9, <1>12 DEF Counters
<1>15. /\ new.prev = IF d < Gap THEN WindowAfter(look.prev, d) ELSE look.prev
       /\ new.total = IF d < Gap THEN look.total + d ELSE look.total
       /\ new.jank = IF d < Gap /\ tier # "none" THEN look.jank + d ELSE look.jank
  BY <1>5, <1>12
<1>16. \A f \in {"small", "normal", "big"} :
            look.tick[f] <= new.tick[f] /\ new.tick[f] <= look.tick[f] + 1
  BY <1>5, <1>14
<1>17. new.tiers = [u \in {t} \cup DOMAIN look.tiers |-> IF u = t THEN tier ELSE look.tiers[u]]
  BY <1>12 DEF judged
<1>18. QED
  BY <1>11, <1>12, <1>13, <1>15, <1>16, <1>17 DEF new, tier, d

LEMMA TiersTaken ==
    ASSUME NEW look \in Looks, NEW t \in Nat, look.at < t, NEW tier,
           tier = IF t - look.at < Gap THEN TierAfter(t - look.at, look.prev) ELSE "gap"
    PROVE  /\ DOMAIN TakeFrame(look, t).tiers = {t} \cup DOMAIN look.tiers
           /\ TakeFrame(look, t).tiers[t] = tier
           /\ \A u \in DOMAIN look.tiers : u # t => TakeFrame(look, t).tiers[u] = look.tiers[u]
<1>1. TakeFrame(look, t).tiers
        = [u \in {t} \cup DOMAIN look.tiers |-> IF u = t THEN tier ELSE look.tiers[u]]
  BY TakenIs
<1>2. QED
  BY <1>1

LEMMA StreamIs ==
    ASSUME NEW frames, Stream(frames)
    PROVE  /\ frames \in Seq(Nat) /\ DOMAIN frames = 1..Len(frames) /\ Len(frames) \in Nat
           /\ \A n \in 1..Len(frames) : frames[n] \in Nat
           /\ \A m, n \in 1..Len(frames) : frames[m] < frames[n] => m < n
           /\ \A m, n \in 1..Len(frames) : m < n => frames[m] < frames[n]
           /\ \A m, n \in 1..Len(frames) : frames[m] = frames[n] => m = n
<1>1. frames \in Seq(Nat) /\ DOMAIN frames = 1..Len(frames) /\ Len(frames) \in Nat
  BY LenProperties DEF Stream
<1>2. \A n \in 1..Len(frames) : frames[n] \in Nat
  BY <1>1, ElementOfSeq
<1>3. \A m, n \in 1..Len(frames) : m < n => frames[m] < frames[n]
  BY DEF Stream
<1>4. ASSUME NEW m \in 1..Len(frames), NEW n \in 1..Len(frames), ~ (m < n)
      PROVE  ~ (frames[m] < frames[n])
  <2>1. CASE m = n
    BY <2>1, <1>2
  <2>2. CASE n < m
    <3>1. frames[n] < frames[m]
      BY <2>2, <1>3
    <3>2. frames[n] \in Nat /\ frames[m] \in Nat
      BY <1>2
    <3>3. QED
      BY <3>1, <3>2
  <2>3. QED
    BY <2>1, <2>2, <1>4
<1>5. ASSUME NEW m \in 1..Len(frames), NEW n \in 1..Len(frames), frames[m] = frames[n]
      PROVE  m = n
  <2>1. ~ (m < n) /\ ~ (n < m)
    BY <1>2, <1>3, <1>5
  <2>2. QED
    BY <2>1
<1>6. QED
  BY <1>1, <1>2, <1>3, <1>4, <1>5

\* Nothing lies between a frame and the one before it.
LEMMA NextFrame ==
    ASSUME NEW frames, Stream(frames), NEW n \in 2..Len(frames), NEW seed \in Nat,
           seed <= frames[n - 1]
    PROVE  /\ n \in DOMAIN frames /\ n - 1 \in DOMAIN frames
           /\ n \notin Followed(frames, seed, frames[n - 1])
           /\ Followed(frames, seed, frames[n]) = Followed(frames, seed, frames[n - 1]) \cup {n}
           /\ \A k \in Followed(frames, seed, frames[n - 1]) : k < n /\ frames[k] # frames[n]
<1>1. /\ DOMAIN frames = 1..Len(frames) /\ Len(frames) \in Nat
      /\ \A k \in 1..Len(frames) : frames[k] \in Nat
      /\ \A k, l \in 1..Len(frames) : frames[k] < frames[l] => k < l
      /\ \A k, l \in 1..Len(frames) : k < l => frames[k] < frames[l]
  BY StreamIs
<1>2. n \in 1..Len(frames) /\ n - 1 \in 1..Len(frames) /\ n - 1 < n
  BY <1>1
<1>3. frames[n - 1] < frames[n] /\ frames[n] \in Nat /\ frames[n - 1] \in Nat
  BY <1>1, <1>2
<1>4. ASSUME NEW k \in 1..Len(frames)
      PROVE  frames[k] <= frames[n - 1] <=> frames[k] <= frames[n] /\ k # n
  <2>1. CASE k < n
    <3>1. frames[k] < frames[n] /\ frames[k] \in Nat
      BY <1>1, <1>2, <2>1
    <3>2. CASE k = n - 1
      BY <3>1, <3>2, <1>3, <2>1
    <3>3. CASE k < n - 1
      <4>1. frames[k] < frames[n - 1]
        BY <1>1, <1>2, <3>3
      <4>2. QED
        BY <4>1, <3>1, <1>3, <2>1
    <3>4. QED
      BY <3>2, <3>3, <2>1
  <2>2. CASE k = n
    BY <1>3, <2>2
  <2>3. CASE n < k
    <3>1. frames[n] < frames[k] /\ frames[k] \in Nat
      BY <1>1, <1>2, <2>3
    <3>2. QED
      BY <3>1, <1>3
  <2>4. QED
    BY <2>1, <2>2, <2>3
<1>5. seed < frames[n]
  BY <1>3
<1>6. Followed(frames, seed, frames[n]) = Followed(frames, seed, frames[n - 1]) \cup {n}
  BY <1>1, <1>2, <1>3, <1>4, <1>5 DEF Followed
<1>7. ASSUME NEW k \in Followed(frames, seed, frames[n - 1])
      PROVE  k < n /\ frames[k] # frames[n]
  <2>1. k \in 1..Len(frames) /\ frames[k] <= frames[n - 1]
    BY <1>1 DEF Followed
  <2>2. frames[k] < frames[n] /\ frames[k] \in Nat
    BY <1>1, <1>3, <2>1
  <2>3. QED
    BY <1>1, <1>2, <1>3, <2>1, <2>2
<1>8. QED
  BY <1>1, <1>2, <1>6, <1>7

LEMMA LastThreeIs ==
    ASSUME NEW frames, NEW seed, NEW mark, NEW at
    PROVE  at \in LastThree(frames, seed, mark) <=>
             \E k \in 0..3 :
                /\ at \in [1..k -> Proper(frames, seed, mark)]
                /\ \A p, q \in 1..k : p < q => at[p] < at[q]
                /\ \A n \in Proper(frames, seed, mark) :
                      (\E p \in 1..k : at[p] = n) \/ (k = 3 /\ n < at[1])
<1> DEFINE proper == Proper(frames, seed, mark)
<1>1. \A k \in 0..3 : 1..k = 1..3 <=> k = 3
  OBVIOUS
<1>2. ASSUME NEW k \in 0..3, at \in [1..k -> proper]
      PROVE  /\ DOMAIN at = 1..k /\ (DOMAIN at = 1..3 <=> k = 3)
             /\ \A n : n \in Range(at) <=> \E p \in 1..k : at[p] = n
  BY <1>1, <1>2 DEF Range
<1> HIDE DEF proper
<1>3. at \in LastThree(frames, seed, mark) <=>
         /\ \E k \in 0..3 : at \in [1..k -> proper]
         /\ \A p, q \in DOMAIN at : p < q => at[p] < at[q]
         /\ \A n \in proper : n \in Range(at) \/ (DOMAIN at = 1..3 /\ n < at[1])
  BY DEF LastThree, proper
<1>4. QED
  BY <1>2, <1>3 DEF proper

LEMMA BelowGap == \A d \in Int : 0 < d /\ d < Gap => d \in 1..Gap - 1
<1>1. QED
  BY DEF Gap

LEMMA AppendIs ==
    ASSUME NEW S, NEW s \in Seq(S), NEW e \in S, NEW k, Len(s) + 1 = k
    PROVE  Append(s, e) = [p \in 1..k |-> IF p = k THEN e ELSE s[p]]
<1> DEFINE new == Append(s, e)
<1>1. /\ new \in Seq(S) /\ Len(new) = k /\ \A p \in 1..Len(s) : new[p] = s[p]
      /\ new[k] = e
  BY AppendProperties
<1>2. Len(s) \in Nat
  BY LenProperties
<1> HIDE DEF new
<1>3. new = [p \in 1..k |-> new[p]]
  BY <1>1, LenProperties
<1>4. \A p \in 1..k : new[p] = IF p = k THEN e ELSE s[p]
  <2>1. \A p \in 1..k : p # k => p \in 1..Len(s)
    BY <1>2
  <2>2. QED
    BY <1>1, <2>1
<1>5. QED
  BY <1>3, <1>4 DEF new

\* The window over the last three durations slides over one more.
LEMMA WindowSlides ==
    ASSUME NEW frames, Stream(frames), NEW n \in 2..Len(frames), NEW seed \in Nat,
           seed <= frames[n - 1], Duration(frames, n) < Gap,
           NEW at \in LastThree(frames, seed, frames[n - 1]),
           DurationsAt(frames, at) \in Seq(1..Gap - 1)
    PROVE  \E new \in LastThree(frames, seed, frames[n]) :
              WindowAfter(DurationsAt(frames, at), Duration(frames, n)) = DurationsAt(frames, new)
<1> DEFINE old == Proper(frames, seed, frames[n - 1])
           window == DurationsAt(frames, at)
           d == Duration(frames, n)
<1>1. /\ Followed(frames, seed, frames[n]) = Followed(frames, seed, frames[n - 1]) \cup {n}
      /\ \A k \in Followed(frames, seed, frames[n - 1]) : k < n
  BY NextFrame
<1>2. Proper(frames, seed, frames[n]) = old \cup {n} /\ \A k \in old : k < n
  BY <1>1 DEF Proper
<1>3. old \subseteq Nat
  <2>1. old \subseteq DOMAIN frames
    BY DEF Proper, Followed
  <2>2. QED
    BY <2>1, StreamIs
<1>4. PICK k \in 0..3 :
         /\ at \in [1..k -> old]
         /\ \A p, q \in 1..k : p < q => at[p] < at[q]
         /\ \A m \in old : (\E p \in 1..k : at[p] = m) \/ (k = 3 /\ m < at[1])
  BY LastThreeIs
<1> HIDE DEF old
<1>5. window = [p \in 1..k |-> Duration(frames, at[p])]
  BY <1>4 DEF DurationsAt
<1>10. d \in 1..Gap - 1
  <2>1. frames[n - 1] \in Nat /\ frames[n] \in Nat /\ frames[n - 1] < frames[n]
    <3>1. Len(frames) \in Nat
      BY StreamIs
    <3>2. n - 1 \in 1..Len(frames) /\ n \in 1..Len(frames) /\ n - 1 < n
      BY <3>1
    <3>3. QED
      BY <3>2, StreamIs
  <2>2. d = frames[n] - frames[n - 1] /\ d < Gap
    BY DEF d, Duration
  <2> HIDE DEF d
  <2>3. d \in Int /\ 0 < d
    BY <2>1, <2>2
  <2>4. QED
    BY <2>2, <2>3, BelowGap
<1> DEFINE Lengths == 1..Gap - 1
<1>11. d \in Lengths
  BY <1>10
<1> HIDE DEF Lengths
<1> HIDE DEF window, d
<1>6. window \in Seq(1..Gap - 1) /\ Len(window) = k /\ DOMAIN window = 1..k
  <2>1. window \in Seq(1..Gap - 1)
    BY DEF window
  <2>2. DOMAIN window = 1..k /\ DOMAIN window = 1..Len(window) /\ Len(window) \in Nat
    BY <1>5, <2>1, LenProperties
  <2>3. QED
    BY <2>1, <2>2
<1>7. CASE k < 3
  <2> DEFINE new == [p \in 1..k + 1 |-> IF p = k + 1 THEN n ELSE at[p]]
  <2>1. new \in [1..k + 1 -> old \cup {n}]
    BY <1>4, <1>7
  <2>2. ASSUME NEW p \in 1..k + 1, NEW q \in 1..k + 1, p < q
        PROVE  new[p] < new[q]
    <3>1. CASE q = k + 1
      <4>1. p \in 1..k /\ p # k + 1
        BY <2>2, <3>1
      <4>2. at[p] \in old /\ new[p] = at[p] /\ new[q] = n
        BY <1>4, <3>1, <4>1
      <4>3. QED
        BY <4>2, <1>2
    <3>2. CASE q # k + 1
      <4>1. p \in 1..k /\ q \in 1..k
        BY <2>2, <3>2
      <4>2. new[p] = at[p] /\ new[q] = at[q]
        BY <4>1, <2>2, <3>2
      <4>3. QED
        BY <4>1, <4>2, <1>4, <2>2
    <3>3. QED
      BY <3>1, <3>2
  <2>3. ASSUME NEW m \in old \cup {n}
        PROVE  \E p \in 1..k + 1 : new[p] = m
    <3>1. CASE m = n
      BY <3>1
    <3>2. CASE m \in old
      <4>1. PICK p \in 1..k : at[p] = m
        BY <1>4, <1>7, <3>2
      <4>2. p \in 1..k + 1 /\ p # k + 1
        BY <1>7
      <4>3. QED
        BY <4>1, <4>2
    <3>3. QED
      BY <3>1, <3>2
  <2> HIDE DEF new
  <2>4. k + 1 \in 0..3
    BY <1>7
  <2>5. new \in LastThree(frames, seed, frames[n])
    <3>1. /\ new \in [1..(k + 1) -> Proper(frames, seed, frames[n])]
          /\ \A p, q \in 1..(k + 1) : p < q => new[p] < new[q]
          /\ \A m \in Proper(frames, seed, frames[n]) :
                (\E p \in 1..(k + 1) : new[p] = m) \/ (k + 1 = 3 /\ m < new[1])
      BY <1>2, <2>1, <2>2, <2>3
    <3>2. \E j \in 0..3 :
             /\ new \in [1..j -> Proper(frames, seed, frames[n])]
             /\ \A p, q \in 1..j : p < q => new[p] < new[q]
             /\ \A m \in Proper(frames, seed, frames[n]) :
                   (\E p \in 1..j : new[p] = m) \/ (j = 3 /\ m < new[1])
      BY <2>4, <3>1
    <3>3. QED
      BY <3>2, LastThreeIs
  <2>6. DurationsAt(frames, new) = [p \in 1..k + 1 |-> Duration(frames, new[p])]
    BY <2>1 DEF DurationsAt
  <2>7. \A p \in 1..k + 1 : Duration(frames, new[p]) = IF p = k + 1 THEN d ELSE window[p]
    <3>1. SUFFICES ASSUME NEW p \in 1..k + 1
                   PROVE  Duration(frames, new[p]) = IF p = k + 1 THEN d ELSE window[p]
      OBVIOUS
    <3>2. CASE p = k + 1
      BY <3>2 DEF new, d
    <3>3. CASE p # k + 1
      <4>1. p \in 1..k /\ new[p] = at[p]
        BY <3>3 DEF new
      <4>2. QED
        BY <3>3, <4>1, <1>5
    <3>4. QED
      BY <3>2, <3>3
  <2>8. WindowAfter(window, d) = [p \in 1..k + 1 |-> IF p = k + 1 THEN d ELSE window[p]]
    <3>1. WindowAfter(window, d) = Append(window, d)
      BY <1>6, <1>7 DEF WindowAfter
    <3>2. window \in Seq(Lengths) /\ Len(window) + 1 = k + 1
      BY <1>6 DEF Lengths
    <3>3. Append(window, d) = [p \in 1..k + 1 |-> IF p = k + 1 THEN d ELSE window[p]]
      BY <3>2, <1>11, AppendIs
    <3>4. QED
      BY <3>1, <3>3
  <2>9. DurationsAt(frames, new) = [p \in 1..k + 1 |-> IF p = k + 1 THEN d ELSE window[p]]
    BY <2>6, <2>7
  <2>10. QED
    BY <2>5, <2>8, <2>9 DEF window, d
<1>8. CASE k = 3
  <2> DEFINE new == [p \in 1..3 |-> IF p = 3 THEN n ELSE at[p + 1]]
  <2>1. new \in [1..3 -> old \cup {n}]
    BY <1>4, <1>8
  <2>2. ASSUME NEW p \in 1..3, NEW q \in 1..3, p < q
        PROVE  new[p] < new[q]
    <3>1. CASE q = 3
      <4>1. p + 1 \in 1..3 /\ p # 3
        BY <2>2, <3>1
      <4>2. at[p + 1] \in old /\ new[p] = at[p + 1] /\ new[q] = n
        BY <1>4, <1>8, <3>1, <4>1
      <4>3. QED
        BY <4>2, <1>2
    <3>2. CASE q # 3
      <4>1. p + 1 \in 1..3 /\ q + 1 \in 1..3 /\ p + 1 < q + 1
        BY <2>2, <3>2
      <4>2. new[p] = at[p + 1] /\ new[q] = at[q + 1]
        BY <2>2, <3>2
      <4>3. QED
        BY <4>1, <4>2, <1>4, <1>8
    <3>3. QED
      BY <3>1, <3>2
  <2>3. ASSUME NEW m \in old \cup {n}
        PROVE  (\E p \in 1..3 : new[p] = m) \/ m < new[1]
    <3>1. CASE m = n
      BY <3>1
    <3>2. CASE m \in old
      <4>4. at \in [1..3 -> old]
        BY <1>4, <1>8
      <4>3. 1 \in 1..3 /\ 2 \in 1..3
        OBVIOUS
      <4>9. at[1] \in old /\ at[2] \in old
        BY <4>3, <4>4
      <4>5. at[1] \in Nat /\ at[2] \in Nat /\ m \in Nat
        BY <1>3, <3>2, <4>9
      <4>6. at[1] < at[2]
        BY <1>4, <1>8
      <4>7. new[1] = at[2]
        OBVIOUS
      <4>1. at[1] < at[2] /\ new[1] = at[2] /\ at[1] \in Nat /\ at[2] \in Nat /\ m \in Nat
        BY <4>5, <4>6, <4>7
      <4>2. CASE \E p \in 1..3 : at[p] = m
        <5>1. PICK p \in 1..3 : at[p] = m
          BY <4>2
        <5>2. CASE p = 1
          BY <5>1, <5>2, <4>1
        <5>3. CASE p # 1
          <6>1. p - 1 \in 1..3 /\ p - 1 # 3 /\ (p - 1) + 1 = p
            BY <5>3
          <6>2. new[p - 1] = at[p]
            BY <6>1
          <6>3. QED
            BY <5>1, <6>1, <6>2
        <5>4. QED
          BY <5>2, <5>3
      <4>8. CASE m < at[1]
        BY <4>1, <4>8
      <4>10. QED
        BY <1>4, <1>8, <3>2, <4>2, <4>8
    <3>3. QED
      BY <3>1, <3>2
  <2> HIDE DEF new
  <2>4. 3 \in 0..3
    OBVIOUS
  <2>5. new \in LastThree(frames, seed, frames[n])
    BY <1>2, <2>1, <2>2, <2>3, <2>4, LastThreeIs
  <2>6. DurationsAt(frames, new) = [p \in 1..3 |-> Duration(frames, new[p])]
    BY <2>1 DEF DurationsAt
  <2>7. \A p \in 1..3 : Duration(frames, new[p]) = IF p = 3 THEN d ELSE window[p + 1]
    <3>1. SUFFICES ASSUME NEW p \in 1..3
                   PROVE  Duration(frames, new[p]) = IF p = 3 THEN d ELSE window[p + 1]
      OBVIOUS
    <3>2. CASE p = 3
      BY <3>2 DEF new, d
    <3>3. CASE p # 3
      <4>1. p + 1 \in 1..k /\ new[p] = at[p + 1]
        BY <1>8, <3>3 DEF new
      <4>2. QED
        BY <3>3, <4>1, <1>5
    <3>4. QED
      BY <3>2, <3>3
  <2>8. WindowAfter(window, d) = [p \in 1..3 |-> IF p = 3 THEN d ELSE window[p + 1]]
    <3> DEFINE rest == Tail(window)
    <3>1. WindowAfter(window, d) = Append(rest, d)
      BY <1>6, <1>8 DEF WindowAfter
    <3>2. window # <<>>
      <4>1. Len(window) = 3
        BY <1>6, <1>8
      <4>2. QED
        BY <4>1, NotEmpty
    <3>3. rest \in Seq(1..Gap - 1) /\ Len(rest) = 2 /\ \A p \in 1..2 : rest[p] = window[p + 1]
      <4>1. rest \in Seq(1..Gap - 1) /\ Len(rest) = Len(window) - 1
            /\ \A p \in 1..Len(rest) : rest[p] = window[p + 1]
        BY <1>6, <3>2, HeadTailProperties
      <4>2. Len(rest) = 2
        BY <4>1, <1>6, <1>8
      <4>3. QED
        BY <4>1, <4>2
    <3> HIDE DEF rest
    <3>4. Append(rest, d) = [p \in 1..3 |-> IF p = 3 THEN d ELSE rest[p]]
      <4>1. rest \in Seq(Lengths) /\ Len(rest) + 1 = 3
        BY <3>3 DEF Lengths
      <4>2. QED
        BY <4>1, <1>11, AppendIs
    <3>6. \A p \in 1..3 : (IF p = 3 THEN d ELSE rest[p]) = IF p = 3 THEN d ELSE window[p + 1]
      BY <3>3
    <3>7. QED
      BY <3>1, <3>4, <3>6
  <2>9. DurationsAt(frames, new) = [p \in 1..3 |-> IF p = 3 THEN d ELSE window[p + 1]]
    BY <2>6, <2>7
  <2>10. QED
    BY <2>5, <2>8, <2>9 DEF window, d
<1>9. QED
  BY <1>7, <1>8

\* One frame more: what was right up to the mark is right up to the frame.
LEMMA FrameKeepsTiers ==
    ASSUME NEW frames, Stream(frames), NEW n \in 2..Len(frames), NEW seed \in Nat,
           NEW look \in Looks, seed <= look.at, look.at = frames[n - 1],
           RightTiers(frames, seed, look.at, look.tiers),
           NEW at \in LastThree(frames, seed, look.at), look.prev = DurationsAt(frames, at)
    PROVE  LET new == TakeFrame(look, frames[n])
           IN  /\ RightTiers(frames, seed, frames[n], new.tiers)
               /\ \E later \in LastThree(frames, seed, frames[n]) : new.prev = DurationsAt(frames, later)
<1> DEFINE t == frames[n]
           d == Duration(frames, n)
           tier == IF d < Gap THEN TierAfter(d, look.prev) ELSE "gap"
           prev == IF d < Gap THEN WindowAfter(look.prev, d) ELSE look.prev
           tiers == TakeFrame(look, t).tiers
           old == Followed(frames, seed, look.at)
<1>1. /\ n \in DOMAIN frames /\ n - 1 \in DOMAIN frames /\ n \notin old
      /\ Followed(frames, seed, t) = old \cup {n}
      /\ \A k \in old : k < n /\ frames[k] # t
  <2>1. seed <= frames[n - 1]
    OBVIOUS
  <2>2. /\ n \in DOMAIN frames /\ n - 1 \in DOMAIN frames
        /\ n \notin Followed(frames, seed, frames[n - 1])
        /\ Followed(frames, seed, frames[n]) = Followed(frames, seed, frames[n - 1]) \cup {n}
        /\ \A k \in Followed(frames, seed, frames[n - 1]) : k < n /\ frames[k] # frames[n]
    BY <2>1, NextFrame
  <2>3. QED
    BY <2>2
<1>2. t \in Nat /\ look.at < t /\ d = t - look.at
  <2>1. n \in 1..Len(frames) /\ n - 1 \in 1..Len(frames) /\ n - 1 < n
    BY StreamIs
  <2>2. QED
    BY <2>1, StreamIs DEF Duration
<1>3. TakeFrame(look, t).prev = prev
  <2> HIDE DEF t, d
  <2>1. TakeFrame(look, t).prev
          = (IF t - look.at < Gap THEN WindowAfter(look.prev, t - look.at) ELSE look.prev)
    BY <1>2, TakenIs
  <2>2. QED
    BY <1>2, <2>1
<1>11. /\ DOMAIN tiers = {t} \cup DOMAIN look.tiers /\ tiers[t] = tier
       /\ \A u \in DOMAIN look.tiers : u # t => tiers[u] = look.tiers[u]
  <2>1. t \in Nat /\ look.at < t
        /\ tier = (IF t - look.at < Gap THEN TierAfter(t - look.at, look.prev) ELSE "gap")
    BY <1>2
  <2> HIDE DEF tier, t
  <2>2. QED
    BY <2>1, TiersTaken
<1> HIDE DEF tiers
<1> HIDE DEF t, d
<1>4. DOMAIN look.tiers = {frames[k] : k \in old}
  BY DEF RightTiers
<1>5. DOMAIN tiers = {frames[k] : k \in old \cup {n}}
  BY <1>4, <1>11 DEF t
<1>6. ASSUME NEW k \in old
      PROVE  IF Duration(frames, k) >= Gap THEN tiers[frames[k]] = "gap"
             ELSE \E a \in LastThree(frames, seed, frames[k - 1]) :
                    tiers[frames[k]] = TierAfter(Duration(frames, k), DurationsAt(frames, a))
  <2>1. frames[k] \in DOMAIN look.tiers /\ frames[k] # t
    BY <1>1, <1>4
  <2>2. tiers[frames[k]] = look.tiers[frames[k]]
    BY <1>11, <2>1
  <2> HIDE DEF tier, prev
  <2>3. IF Duration(frames, k) >= Gap THEN look.tiers[frames[k]] = "gap"
        ELSE \E a \in LastThree(frames, seed, frames[k - 1]) :
               look.tiers[frames[k]] = TierAfter(Duration(frames, k), DurationsAt(frames, a))
    BY DEF RightTiers
  <2>4. QED
    BY <2>2, <2>3
<1>7. IF Duration(frames, n) >= Gap THEN tiers[frames[n]] = "gap"
      ELSE \E a \in LastThree(frames, seed, frames[n - 1]) :
             tiers[frames[n]] = TierAfter(Duration(frames, n), DurationsAt(frames, a))
  <2>1. tiers[frames[n]] = tier
    BY <1>11 DEF t
  <2>2. d \in Int /\ Gap \in Int /\ (d >= Gap <=> ~ (d < Gap))
    <3>1. look.at \in Nat
      BY LookFields
    <3>2. QED
      BY <1>2, <3>1, GapIs
  <2>3. CASE d >= Gap
    BY <2>1, <2>2, <2>3 DEF d
  <2>4. CASE ~ (d >= Gap)
    <3>1. tier = TierAfter(d, DurationsAt(frames, at))
      BY <2>2, <2>4
    <3>2. QED
      BY <2>1, <2>4, <3>1 DEF d
  <2>5. QED
    BY <2>3, <2>4
<1>8. RightTiers(frames, seed, t, tiers)
  <2>1. QED
    BY <1>1, <1>5, <1>6, <1>7 DEF RightTiers
<1>9. \E later \in LastThree(frames, seed, t) : prev = DurationsAt(frames, later)
  <2>1. CASE d < Gap
    <3>1. look.prev \in Seq(1..Gap - 1)
      BY LookFields
    <3>2. QED
      BY <2>1, <3>1, WindowSlides DEF d, t
  <2>2. CASE ~ (d < Gap)
    <3>1. Proper(frames, seed, t) = Proper(frames, seed, look.at)
      BY <1>1, <2>2 DEF Proper, d
    <3>2. LastThree(frames, seed, t) = LastThree(frames, seed, look.at)
      BY <3>1 DEF LastThree
    <3>3. QED
      BY <2>2, <3>2
  <2>3. QED
    BY <2>1, <2>2
<1>10. QED
  BY <1>3, <1>8, <1>9 DEF t, tiers

\* One frame more, whatever the ring has lost before it.
LEMMA FrameTaken ==
    ASSUME NEW frames, Stream(frames), NEW n \in 2..Len(frames), NEW seed \in Nat,
           NEW look \in Looks, seed <= look.at, look.at < frames[n],
           NEW whole \in BOOLEAN, whole => look.at = frames[n - 1],
           Accounted(frames, seed, whole, look)
    PROVE  Accounted(frames, seed, whole, TakeFrame(look, frames[n]))
<1> DEFINE t == frames[n]
           d == t - look.at
           tier == IF d < Gap THEN TierAfter(d, look.prev) ELSE "gap"
           new == TakeFrame(look, t)
<1>1. /\ DOMAIN frames = 1..Len(frames) /\ Len(frames) \in Nat /\ t \in Nat
      /\ \A k \in 1..Len(frames) : frames[k] \in Nat
      /\ n \in 1..Len(frames)
  <2>1. Len(frames) \in Nat
    BY StreamIs
  <2>2. n \in 1..Len(frames)
    BY <2>1
  <2>3. QED
    BY <2>1, <2>2, StreamIs
<1>2. /\ new.at = t
      /\ new.total = IF d < Gap THEN look.total + d ELSE look.total
      /\ new.jank = IF d < Gap /\ tier # "none" THEN look.jank + d ELSE look.jank
      /\ DOMAIN new.tiers = {t} \cup DOMAIN look.tiers /\ new.tiers[t] = tier
      /\ \A u \in DOMAIN look.tiers : u # t => new.tiers[u] = look.tiers[u]
      /\ new.twice = (look.twice \/ t \in DOMAIN look.tiers)
  <2>1. t \in Nat /\ look.at < t
    BY <1>1
  <2> HIDE DEF t
  <2>2. new.at = t
    BY <2>1, TakenIs
  <2>3. new.total = IF d < Gap THEN look.total + d ELSE look.total
    BY <2>1, TakenIs
  <2>4. new.jank = IF d < Gap /\ tier # "none" THEN look.jank + d ELSE look.jank
    BY <2>1, TakenIs
  <2>5. /\ DOMAIN new.tiers = {t} \cup DOMAIN look.tiers /\ new.tiers[t] = tier
        /\ \A u \in DOMAIN look.tiers : u # t => new.tiers[u] = look.tiers[u]
    <3>1. tier = IF t - look.at < Gap THEN TierAfter(t - look.at, look.prev) ELSE "gap"
      OBVIOUS
    <3> HIDE DEF tier
    <3>2. QED
      BY <2>1, <3>1, TiersTaken
  <2>6. new.twice = (look.twice \/ t \in DOMAIN look.tiers)
    BY <2>1, TakenIs
  <2>7. QED
    BY <2>2, <2>3, <2>4, <2>5, <2>6
<1>3. look.at \in Nat /\ look.total \in Nat /\ look.jank \in Nat /\ d \in Nat /\ d = t - look.at
  BY <1>1, LookFields
<1>4. /\ DOMAIN look.tiers \subseteq {frames[k] : k \in Followed(frames, seed, look.at)}
      /\ ~ look.twice
      /\ look.jank <= look.total /\ look.total <= look.at - seed
      /\ (\A u \in DOMAIN look.tiers : look.tiers[u] # "gap") => look.total = look.at - seed
  BY DEF Accounted
<1>5. t \notin DOMAIN look.tiers
  <2>1. SUFFICES ASSUME t \in DOMAIN look.tiers
                 PROVE  FALSE
    OBVIOUS
  <2>2. PICK k \in Followed(frames, seed, look.at) : t = frames[k]
    BY <1>4, <2>1
  <2>3. frames[k] <= look.at
    BY DEF Followed
  <2>4. QED
    BY <1>1, <1>3, <2>2, <2>3
<1>6. Followed(frames, seed, look.at) \cup {n} \subseteq Followed(frames, seed, t)
  BY <1>1, <1>3 DEF Followed
<1> HIDE DEF new, d, tier
<1>7. DOMAIN new.tiers = {t} \cup DOMAIN look.tiers
  BY <1>2
<1>8. DOMAIN new.tiers \subseteq {frames[k] : k \in Followed(frames, seed, t)}
  <2>1. t \in {frames[k] : k \in Followed(frames, seed, t)}
    BY <1>6
  <2>2. QED
    BY <1>4, <1>6, <1>7, <2>1
<1>9. ~ new.twice
  BY <1>2, <1>4, <1>5
<1>10. new.jank <= new.total /\ new.total <= t - seed
  <2>1. new.total \in {look.total + d, look.total} /\ (~ (d < Gap) => new.jank = look.jank)
        /\ new.jank \in {look.jank + d, look.jank}
        /\ (new.jank = look.jank + d /\ new.jank # look.jank => new.total = look.total + d)
        /\ (d < Gap => new.total = look.total + d)
    BY <1>2
  <2>2. look.total + d <= t - seed /\ look.total <= t - seed
    BY <1>1, <1>3, <1>4
  <2>3. new.total <= t - seed
    BY <2>1, <2>2
  <2>4. CASE new.jank = look.jank
    <3>1. look.jank <= look.total + d /\ look.jank <= look.total
      BY <1>3, <1>4
    <3>2. QED
      BY <2>1, <2>3, <2>4, <3>1
  <2>5. CASE new.jank # look.jank
    <3>1. new.jank = look.jank + d /\ new.total = look.total + d
      BY <2>1, <2>5
    <3>2. look.jank + d <= look.total + d
      BY <1>3, <1>4
    <3>3. QED
      BY <2>3, <3>1, <3>2
  <2>6. QED
    BY <2>4, <2>5
<1>11. ASSUME \A u \in DOMAIN new.tiers : new.tiers[u] # "gap"
       PROVE  new.total = t - seed
  <2>1. new.tiers[t] = tier
    BY <1>2
  <2>2. d < Gap
    BY <1>7, <1>11, <2>1 DEF tier
  <2>3. \A u \in DOMAIN look.tiers : look.tiers[u] = new.tiers[u]
    BY <1>2, <1>5
  <2>4. look.total = look.at - seed
    BY <1>4, <1>7, <1>11, <2>3
  <2>5. new.total = look.total + d
    BY <1>2, <2>2
  <2>6. QED
    BY <1>1, <1>3, <2>4, <2>5
<1>12. ASSUME whole
       PROVE  /\ RightTiers(frames, seed, t, new.tiers)
              /\ \E at \in LastThree(frames, seed, t) : new.prev = DurationsAt(frames, at)
  <2>1. /\ RightTiers(frames, seed, look.at, look.tiers)
        /\ \E at \in LastThree(frames, seed, look.at) : look.prev = DurationsAt(frames, at)
    BY <1>12 DEF Accounted
  <2>2. look.at = frames[n - 1]
    BY <1>12
  <2>3. PICK at \in LastThree(frames, seed, look.at) : look.prev = DurationsAt(frames, at)
    BY <2>1
  <2>4. QED
    BY <2>1, <2>2, <2>3, FrameKeepsTiers DEF new
<1>13. QED
  <2>1. new.at = t
    BY <1>2
  <2>2. Accounted(frames, seed, whole, new)
    BY <1>8, <1>9, <1>10, <1>11, <1>12, <2>1 DEF Accounted
  <2>3. QED
    BY <2>2 DEF new

LEMMA LeastNumber ==
    ASSUME NEW T \in SUBSET Nat, T # {}
    PROVE  \E x \in T : \A y \in T : x <= y
<1> DEFINE Less == {ss \in Nat \X Nat : ss[1] < ss[2]}
<1>1. IsWellFoundedOn(Less, Nat)
  BY NatLessThanWellFounded DEF OpToRel
<1>2. PICK x \in T : \A y \in T : ~ (<<y, x>> \in Less)
  <2> HIDE DEF Less
  <2>1. QED
    BY <1>1, WFMin
<1>3. ASSUME NEW y \in T
      PROVE  x <= y
  <2>1. ~ (y < x)
    BY <1>2
  <2>2. QED
    BY <2>1
<1>4. QED
  BY <1>3

\* A tick can be taken along any ring, and each frame goes on from where the one before it ended.
LEMMA AlongRingIs ==
    ASSUME NEW first, NEW shown, Len(shown) \in Nat
    PROVE  LET run == AlongRing(first, shown)
           IN  /\ run[0] = first
               /\ \A i \in 1..Len(shown) :
                     run[i] = IF shown[i] > first.at THEN TakeFrame(run[i - 1], shown[i]) ELSE run[i - 1]
<1> DEFINE Along(f, m) ==
             f = [i \in 0..m |-> IF i = 0 THEN first
                                 ELSE IF shown[i] > first.at THEN TakeFrame(f[i - 1], shown[i])
                                 ELSE f[i - 1]]
           none == {m \in 0..Len(shown) : \A f : ~ Along(f, m)}
<1>1. none = {}
  <2>1. SUFFICES ASSUME none # {}
                 PROVE  FALSE
    OBVIOUS
  <2>7. none \in SUBSET Nat
    OBVIOUS
  <2>2. PICK m \in none : \A k \in none : m <= k
    <3> HIDE DEF none
    <3>1. QED
      BY <2>1, <2>7, LeastNumber
  <2>3. m \in 0..Len(shown) /\ \A f : ~ Along(f, m)
    OBVIOUS
  <2>4. CASE m = 0
    <3>1. Along([i \in 0..0 |-> first], 0)
      OBVIOUS
    <3>2. QED
      BY <2>3, <2>4, <3>1
  <2>5. CASE m # 0
    <3>1. m - 1 \in 0..Len(shown) /\ ~ (m <= m - 1)
      BY <2>3, <2>5
    <3>2. m - 1 \notin none
      BY <2>2, <3>1
    <3>3. PICK f : Along(f, m - 1)
      BY <3>1, <3>2
    <3> DEFINE last == IF shown[m] > first.at THEN TakeFrame(f[m - 1], shown[m]) ELSE f[m - 1]
               g == [i \in 0..m |-> IF i = m THEN last ELSE f[i]]
    <3>4. \A i \in 0..m - 1 : g[i] = f[i]
      BY <2>3
    <3>5. ASSUME NEW i \in 0..m
          PROVE  g[i] = IF i = 0 THEN first
                        ELSE IF shown[i] > first.at THEN TakeFrame(g[i - 1], shown[i])
                        ELSE g[i - 1]
      <4>1. CASE i = m
        <5>1. g[i] = last /\ g[i - 1] = f[m - 1]
          BY <3>4, <4>1, <2>5, <3>1
        <5>2. QED
          BY <4>1, <5>1, <2>5
      <4>2. CASE i # m
        <5>1. i \in 0..m - 1 /\ g[i] = f[i] /\ (i # 0 => i - 1 \in 0..m - 1)
          BY <3>4, <4>2, <2>3
        <5>2. f[i] = IF i = 0 THEN first
                     ELSE IF shown[i] > first.at THEN TakeFrame(f[i - 1], shown[i])
                     ELSE f[i - 1]
          BY <3>3, <5>1
        <5>3. i # 0 => g[i - 1] = f[i - 1]
          BY <3>4, <5>1
        <5>4. QED
          BY <5>1, <5>2, <5>3
      <4>3. QED
        BY <4>1, <4>2
    <3>6. g = [i \in 0..m |-> g[i]]
      OBVIOUS
    <3> HIDE DEF g
    <3>7. Along(g, m)
      BY <3>5, <3>6
    <3>8. QED
      BY <2>3, <3>7
  <2>6. QED
    BY <2>4, <2>5
<1>2. \E f : Along(f, Len(shown))
  BY <1>1
<1> DEFINE run == AlongRing(first, shown)
<1>3. run = CHOOSE f : Along(f, Len(shown))
  BY DEF AlongRing
<1> HIDE DEF Along
<1>4. Along(CHOOSE f : Along(f, Len(shown)), Len(shown))
  BY <1>2, Zenon
<1> HIDE DEF run
<1>5. run = [i \in 0..Len(shown) |-> IF i = 0 THEN first
                                     ELSE IF shown[i] > first.at THEN TakeFrame(run[i - 1], shown[i])
                                     ELSE run[i - 1]]
  BY <1>3, <1>4 DEF Along
<1>6. run[0] = first
  <2>1. 0 \in 0..Len(shown)
    OBVIOUS
  <2>2. QED
    BY <1>5, <2>1
<1>7. ASSUME NEW i \in 1..Len(shown)
      PROVE  run[i] = IF shown[i] > first.at THEN TakeFrame(run[i - 1], shown[i]) ELSE run[i - 1]
  <2>1. i \in 0..Len(shown) /\ i # 0
    OBVIOUS
  <2> DEFINE turn(k) == IF shown[k] > first.at THEN TakeFrame(run[k - 1], shown[k]) ELSE run[k - 1]
  <2>2. run = [k \in 0..Len(shown) |-> IF k = 0 THEN first ELSE turn(k)]
    BY <1>5
  <2> HIDE DEF turn
  <2>3. run[i] = turn(i)
    BY <2>1, <2>2
  <2>4. QED
    BY <2>3 DEF turn
<1>8. QED
  BY <1>6, <1>7 DEF run

\* A layer that stands at a frame of the stream, and a ring that shows a stretch of it, which goes
\* on from there as long as no frame is lost.
Ready(frames, seed, whole, first, m, a, shown) ==
    /\ Stream(frames) /\ seed \in Nat /\ whole \in BOOLEAN
    /\ first \in Looks /\ seed <= first.at /\ first.tick.new = 0
    /\ \A f \in {"small", "normal", "big"} : first.tick[f] = 0
    /\ Accounted(frames, seed, whole, first)
    /\ m \in 1..Len(frames) /\ frames[m] = first.at
    /\ a \in Nat /\ (whole => a <= m)
    /\ shown \in Seq(Nat) /\ a + Len(shown) <= Len(frames)
    /\ \A i \in 1..Len(shown) : shown[i] = frames[a + i]

\* A tick keeps the account at each frame it takes.
LEMMA RingTaken ==
    ASSUME NEW frames, NEW seed, NEW whole, NEW first, NEW m, NEW a, NEW shown,
           Ready(frames, seed, whole, first, m, a, shown), NEW i \in 0..Len(shown)
    PROVE  LET look == AlongRing(first, shown)[i]
           IN  /\ look \in Looks
               /\ look.at = IF i > 0 /\ shown[i] > first.at THEN shown[i] ELSE first.at
               /\ Accounted(frames, seed, whole, look)
               /\ look.tick.new <= i
               /\ \A f \in {"small", "normal", "big"} : look.tick[f] <= i
<1> DEFINE run == AlongRing(first, shown)
           Tallied(j) ==
             /\ run[j] \in Looks
             /\ run[j].at = IF j > 0 /\ shown[j] > first.at THEN shown[j] ELSE first.at
             /\ Accounted(frames, seed, whole, run[j])
             /\ run[j].tick.new <= j
             /\ \A f \in {"small", "normal", "big"} : run[j].tick[f] <= j
           lost == {j \in 0..Len(shown) : ~ Tallied(j)}
<1>9. /\ Stream(frames) /\ seed \in Nat /\ whole \in BOOLEAN
      /\ first \in Looks /\ seed <= first.at /\ first.tick.new = 0
      /\ \A f \in {"small", "normal", "big"} : first.tick[f] = 0
      /\ Accounted(frames, seed, whole, first)
      /\ m \in 1..Len(frames) /\ frames[m] = first.at
      /\ a \in Nat /\ (whole => a <= m)
      /\ shown \in Seq(Nat) /\ a + Len(shown) <= Len(frames)
      /\ \A k \in 1..Len(shown) : shown[k] = frames[a + k]
  BY DEF Ready
<1> USE <1>9
<1>1. Len(shown) \in Nat /\ Len(frames) \in Nat
  BY LenProperties, StreamIs
<1>2. /\ run[0] = first
      /\ \A j \in 1..Len(shown) :
            run[j] = IF shown[j] > first.at THEN TakeFrame(run[j - 1], shown[j]) ELSE run[j - 1]
  <2>1. run[0] = first
    BY <1>1, AlongRingIs
  <2>2. \A j \in 1..Len(shown) :
           run[j] = IF shown[j] > first.at THEN TakeFrame(run[j - 1], shown[j]) ELSE run[j - 1]
    BY <1>1, AlongRingIs
  <2>3. QED
    BY <2>1, <2>2
<1>3. first.at \in Nat
  BY LookFields
<1> HIDE DEF run
<1>4. Tallied(0)
  BY <1>2
<1>5. ASSUME NEW j \in 1..Len(shown), Tallied(j - 1)
      PROVE  Tallied(j)
  <2> DEFINE look == run[j - 1]
             n == a + j
  <2>1. /\ look \in Looks /\ Accounted(frames, seed, whole, look) /\ look.tick.new <= j - 1
        /\ \A f \in {"small", "normal", "big"} : look.tick[f] <= j - 1
        /\ look.at = IF j - 1 > 0 /\ shown[j - 1] > first.at THEN shown[j - 1] ELSE first.at
    BY <1>5
  <2>2. look.tick.new \in Nat /\ look.tick.small \in Nat /\ look.tick.normal \in Nat
        /\ look.tick.big \in Nat
    BY <2>1, LookFields DEF Counters
  <2>3. n \in 1..Len(frames) /\ shown[j] = frames[n]
    BY <1>1
  <2>4. frames[n] \in Nat
    BY <2>3, StreamIs
  <2>5. CASE ~ (shown[j] > first.at)
    <3>1. run[j] = look
      BY <1>2, <2>5
    <3>2. look.at = first.at
      <4>1. CASE j - 1 > 0
        <5>1. j - 1 \in 1..Len(shown) /\ a + (j - 1) \in 1..Len(frames) /\ a + (j - 1) < n
          BY <1>1, <4>1
        <5>2. shown[j - 1] = frames[a + (j - 1)] /\ frames[a + (j - 1)] < frames[n]
              /\ frames[a + (j - 1)] \in Nat
          <6>1. shown[j - 1] = frames[a + (j - 1)]
            BY <5>1
          <6>2. Stream(frames) /\ n \in 1..Len(frames)
            BY <2>3
          <6> HIDE <1>9
          <6>3. QED
            BY <5>1, <6>1, <6>2, StreamIs
        <5>3. ~ (shown[j - 1] > first.at)
          <6>1. ~ (frames[n] > first.at) /\ frames[n] \in Nat
            BY <2>3, <2>4, <2>5
          <6>2. ~ (frames[a + (j - 1)] > first.at)
            <7>1. frames[a + (j - 1)] \in Nat /\ frames[n] \in Nat /\ first.at \in Nat
              BY <1>3, <5>2, <6>1
            <7>2. frames[a + (j - 1)] < frames[n] /\ ~ (frames[n] > first.at)
              BY <5>2, <6>1
            <7> HIDE DEF n
            <7>3. QED
              BY <7>1, <7>2, NumberFacts
          <6>3. QED
            BY <5>2, <6>2
        <5>4. QED
          BY <2>1, <5>3
      <4>2. CASE ~ (j - 1 > 0)
        BY <2>1, <4>2
      <4>3. QED
        BY <4>1, <4>2
    <3>3. look.tick.new <= j /\ look.tick.small <= j /\ look.tick.normal <= j /\ look.tick.big <= j
      <4>1. look.tick.new <= j - 1 /\ look.tick.small <= j - 1 /\ look.tick.normal <= j - 1
            /\ look.tick.big <= j - 1
        BY <2>1
      <4>2. j \in Nat
        OBVIOUS
      <4> HIDE DEF look
      <4>3. \A x \in Nat : x <= j - 1 => x <= j
        BY <4>2
      <4>4. QED
        BY <2>2, <4>1, <4>3
    <3> HIDE DEF look
    <3>4. QED
      BY <2>1, <2>5, <3>1, <3>2, <3>3
  <2>6. CASE shown[j] > first.at
    <3>1. run[j] = TakeFrame(look, frames[n])
      BY <1>2, <2>3, <2>6
    <3>2. m < n /\ n \in 2..Len(frames) /\ n - 1 \in 1..Len(frames) /\ m <= n - 1
      <4>1. frames[m] < frames[n]
        BY <1>3, <2>3, <2>4, <2>6
      <4>2. m < n
        BY <2>3, <4>1, StreamIs
      <4>6. m \in Nat /\ 1 <= m
        BY <1>1
      <4>7. n \in Nat /\ n <= Len(frames)
        BY <1>1, <2>3
      <4>3. m \in Nat /\ n \in Nat /\ 1 <= m /\ n <= Len(frames)
        BY <4>6, <4>7
      <4> HIDE DEF n
      <4>4. 2 <= n /\ n - 1 \in Nat /\ 1 <= n - 1 /\ n - 1 <= Len(frames) /\ m <= n - 1
        BY <1>1, <4>2, <4>3
      <4>5. QED
        BY <1>1, <4>2, <4>3, <4>4
    <3>3. frames[n - 1] \in Nat /\ frames[n - 1] < frames[n] /\ frames[m] <= frames[n - 1]
      <4>5. n - 1 < n
        BY <2>3
      <4>6. frames[n - 1] < frames[n]
        BY <2>3, <3>2, <4>5, StreamIs
      <4>1. frames[n - 1] \in Nat /\ frames[n - 1] < frames[n] /\ frames[m] \in Nat
        BY <3>2, <4>6, StreamIs
      <4>2. CASE m = n - 1
        BY <4>1, <4>2
      <4>3. CASE m # n - 1
        <5>1. m < n - 1
          BY <3>2, <4>3
        <5>2. frames[m] < frames[n - 1]
          <6>1. Stream(frames) /\ m \in 1..Len(frames)
            OBVIOUS
          <6> HIDE <1>9
          <6>2. QED
            BY <3>2, <5>1, <6>1, StreamIs
        <5> HIDE <1>9
        <5>3. QED
          BY <4>1, <5>2, NumberFacts
      <4>4. QED
        BY <4>2, <4>3
    <3>4. seed <= look.at /\ look.at < frames[n] /\ (whole => look.at = frames[n - 1])
      <4>1. CASE j - 1 > 0
        <5>1. j - 1 \in 1..Len(shown) /\ a + (j - 1) = n - 1
          BY <1>1, <4>1
        <5>2. shown[j - 1] = frames[n - 1]
          BY <5>1
        <5>3. CASE frames[n - 1] > first.at
          <6>1. look.at = frames[n - 1]
            BY <2>1, <4>1, <5>2, <5>3
          <6>2. seed \in Nat /\ seed <= first.at
            OBVIOUS
          <6>3. first.at < frames[n - 1]
            BY <1>3, <3>3, <5>3
          <6> HIDE <1>9
          <6>4. QED
            BY <1>3, <3>3, <6>1, <6>2, <6>3, NumberFacts
        <5>4. CASE ~ (frames[n - 1] > first.at)
          <6>1. look.at = first.at
            BY <2>1, <4>1, <5>2, <5>4
          <6>2. first.at = frames[n - 1]
            <7>1. first.at <= frames[n - 1]
              BY <3>3
            <7> HIDE <1>9
            <7>2. QED
              BY <1>3, <3>3, <5>4, <7>1, NumberFacts
          <6>3. QED
            BY <3>3, <6>1, <6>2
        <5>5. QED
          BY <5>3, <5>4
      <4>2. CASE ~ (j - 1 > 0)
        <5>1. look.at = first.at /\ n = a + 1
          BY <2>1, <4>2
        <5>2. first.at < frames[n]
          BY <2>3, <2>6, <1>3, <2>4
        <5>3. ASSUME whole
              PROVE  first.at = frames[n - 1]
          <6>1. a <= m /\ m < a + 1
            BY <3>2, <5>1, <5>3
          <6>2. m = n - 1
            BY <5>1, <6>1
          <6>3. QED
            BY <6>2
        <5>4. QED
          BY <5>1, <5>2, <5>3
      <4>3. QED
        BY <4>1, <4>2
    <3>5. Accounted(frames, seed, whole, TakeFrame(look, frames[n]))
      BY <2>1, <3>2, <3>4, FrameTaken
    <3>6. TakeFrame(look, frames[n]) \in Looks /\ TakeFrame(look, frames[n]).at = frames[n]
      BY <2>1, <2>4, <3>4, TakenIs
    <3>7. TakeFrame(look, frames[n]).tick.new = look.tick.new + 1
      BY <2>1, <2>4, <3>4, TakenIs
    <3>8. \A f \in {"small", "normal", "big"} :
             TakeFrame(look, frames[n]).tick[f] <= look.tick[f] + 1
      BY <2>1, <2>4, <3>4, TakenIs
    <3>9. look.tick.new + 1 <= j
      <4>1. look.tick.new <= j - 1 /\ look.tick.new \in Nat /\ j \in Nat
        BY <2>1, <2>2
      <4> HIDE <1>9
      <4>2. QED
        BY <4>1, NumberFacts
    <3>10. ASSUME NEW f \in {"small", "normal", "big"}
           PROVE  TakeFrame(look, frames[n]).tick[f] <= j
      <4>1. TakeFrame(look, frames[n]).tick \in Counters
        BY <3>6, LookFields
      <4>2. TakeFrame(look, frames[n]).tick[f] \in Nat /\ look.tick[f] \in Nat
        BY <2>2, <4>1 DEF Counters
      <4>3. TakeFrame(look, frames[n]).tick[f] <= look.tick[f] + 1 /\ look.tick[f] <= j - 1
        BY <2>1, <3>8
      <4>4. j \in Nat
        OBVIOUS
      <4>5. \A x, y \in Nat : x <= y + 1 /\ y <= j - 1 => x <= j
        BY <4>4
      <4> HIDE DEF look, n
      <4>6. QED
        BY <4>2, <4>3, <4>5
    <3> HIDE DEF look, n
    <3>11. QED
      BY <2>3, <2>6, <3>1, <3>5, <3>6, <3>7, <3>9, <3>10
  <2>7. QED
    BY <2>5, <2>6
<1> HIDE DEF Tallied
<1>6. lost = {}
  <2>1. SUFFICES ASSUME lost # {}
                 PROVE  FALSE
    OBVIOUS
  <2>2. lost \in SUBSET Nat
    BY <1>1
  <2>3. PICK j \in lost : \A k \in lost : j <= k
    BY <2>1, <2>2, LeastNumber
  <2>4. j \in 0..Len(shown) /\ ~ Tallied(j)
    OBVIOUS
  <2>5. j # 0
    BY <1>4, <2>4
  <2>6. j \in 1..Len(shown) /\ j - 1 \in 0..Len(shown) /\ ~ (j <= j - 1)
    BY <1>1, <2>4, <2>5
  <2>7. Tallied(j - 1)
    BY <2>3, <2>6
  <2>8. QED
    BY <1>5, <2>4, <2>6, <2>7
<1>7. Tallied(i)
  BY <1>6
<1>8. QED
  BY <1>7 DEF Tallied, run

-----------------------------------------------------------------------------
\* The layer as it stands between two ticks.
Layer ==
    [at |-> sfMax, prev |-> sfPrev, jank |-> sfJank, total |-> sfTotal, tick |-> NoCounts,
     tier |-> "none", tiers |-> sfTiers, twice |-> sfTwice]

\* The mark is at a frame the ring has shown; as long as no frame is lost the ring still holds it
\* or the one after it.
MarkShown ==
    /\ sfSeed \in Range(sfFrames) /\ sfSeed <= sfMax
    /\ \E m \in 1..Len(sfFrames) - 1 :
        /\ sfFrames[m] = sfMax
        /\ ~ sfOverrun => Len(sfFrames) <= m + RingSize

\* The inductive invariant: the frames the layer ever showed, the layer's account of those up to
\* the mark, and the mark itself.
SfInv ==
    /\ Stream(sfFrames) /\ Len(sfFrames) <= MaxFrames
    /\ \A n \in 1..Len(sfFrames) : sfFrames[n] > 0
    /\ Layer \in Looks
    /\ sfSeed \in Nat /\ sfOverrun \in BOOLEAN
    /\ sfTick \in [small : 0..MaxFrames, normal : 0..MaxFrames, big : 0..MaxFrames, new : 0..MaxFrames]
    /\ sfMax = 0 => /\ sfSeed = 0 /\ sfJank = 0 /\ sfTotal = 0 /\ sfPrev = <<>> /\ sfTiers = <<>>
                    /\ ~ sfTwice /\ ~ sfOverrun
    /\ sfMax # 0 => MarkShown /\ Accounted(sfFrames, sfSeed, ~ sfOverrun, Layer)

LEMMA LayerIs ==
    /\ Layer.at = sfMax /\ Layer.prev = sfPrev /\ Layer.jank = sfJank /\ Layer.total = sfTotal
    /\ Layer.tiers = sfTiers /\ Layer.twice = sfTwice
    /\ Layer.tick.new = 0 /\ \A f \in {"small", "normal", "big"} : Layer.tick[f] = 0
<1>1. QED
  BY DEF Layer, NoCounts

\* What is accounted depends on the mark, the window, the times and the tiers alone.
LEMMA AccountOf ==
    ASSUME NEW frames, NEW seed, NEW whole, NEW look, NEW other,
           Accounted(frames, seed, whole, look),
           other.at = look.at, other.prev = look.prev, other.jank = look.jank,
           other.total = look.total, other.tiers = look.tiers, other.twice = look.twice
    PROVE  Accounted(frames, seed, whole, other)
<1>1. QED
  BY DEF Accounted

\* A frame beyond the mark disturbs nothing up to it.
LEMMA StreamGrows ==
    ASSUME NEW frames, Stream(frames), NEW t \in Nat, \A k \in 1..Len(frames) : frames[k] < t
    PROVE  /\ Stream(Append(frames, t))
           /\ Len(Append(frames, t)) = Len(frames) + 1
           /\ Append(frames, t)[Len(frames) + 1] = t
           /\ \A k \in 1..Len(frames) : Append(frames, t)[k] = frames[k]
<1> DEFINE new == Append(frames, t)
<1>1. frames \in Seq(Nat) /\ Len(frames) \in Nat
      /\ \A m, n \in 1..Len(frames) : m < n => frames[m] < frames[n]
  BY StreamIs
<1>2. /\ new \in Seq(Nat) /\ Len(new) = Len(frames) + 1 /\ new[Len(frames) + 1] = t
      /\ \A k \in 1..Len(frames) : new[k] = frames[k]
  BY <1>1, AppendProperties
<1> HIDE DEF new
<1>3. ASSUME NEW m \in 1..Len(new), NEW n \in 1..Len(new), m < n
      PROVE  new[m] < new[n]
  <2>1. m \in 1..Len(frames) /\ (n \in 1..Len(frames) \/ n = Len(frames) + 1)
    <3>1. \A x \in Nat : \A k, l \in 1..x + 1 : k < l => k \in 1..x /\ (l \in 1..x \/ l = x + 1)
      OBVIOUS
    <3>2. m \in 1..Len(frames) + 1 /\ n \in 1..Len(frames) + 1
      BY <1>2
    <3>3. QED
      BY <1>1, <1>3, <3>1, <3>2
  <2>2. CASE n \in 1..Len(frames)
    BY <1>1, <1>2, <1>3, <2>1, <2>2
  <2>3. CASE n = Len(frames) + 1
    <3>1. new[n] = t /\ new[m] = frames[m] /\ frames[m] < t
      BY <1>2, <2>1, <2>3
    <3>2. QED
      BY <3>1
  <2>4. QED
    BY <2>1, <2>2, <2>3
<1>4. Stream(new)
  BY <1>2, <1>3 DEF Stream
<1>5. QED
  BY <1>2, <1>4 DEF new

LEMMA FollowedStays ==
    ASSUME NEW frames, Stream(frames), NEW t \in Nat, \A k \in 1..Len(frames) : frames[k] < t,
           NEW s \in 1..Len(frames), NEW mark \in Nat, mark < t
    PROVE  LET new == Append(frames, t)
           IN  /\ Followed(new, frames[s], mark) = Followed(frames, frames[s], mark)
               /\ \A n \in Followed(frames, frames[s], mark) :
                    /\ n \in 2..Len(frames) /\ new[n] = frames[n] /\ new[n - 1] = frames[n - 1]
                    /\ Duration(new, n) = Duration(frames, n)
               /\ LastThree(new, frames[s], mark) = LastThree(frames, frames[s], mark)
               /\ \A at \in LastThree(frames, frames[s], mark) :
                    DurationsAt(new, at) = DurationsAt(frames, at)
<1> DEFINE new == Append(frames, t)
           seed == frames[s]
           old == Followed(frames, seed, mark)
<1>1. /\ Stream(new) /\ Len(new) = Len(frames) + 1 /\ new[Len(frames) + 1] = t
      /\ \A k \in 1..Len(frames) : new[k] = frames[k]
  BY StreamGrows
<1>2. /\ DOMAIN frames = 1..Len(frames) /\ Len(frames) \in Nat
      /\ \A k \in 1..Len(frames) : frames[k] \in Nat
      /\ \A k, l \in 1..Len(frames) : frames[k] < frames[l] => k < l
  BY StreamIs
<1> HIDE DEF new
<1>3. DOMAIN new = 1..Len(frames) + 1
  BY <1>1, StreamIs
<1>4. ASSUME NEW n \in 1..Len(frames) + 1
      PROVE  n \in 1..Len(frames) \/ n = Len(frames) + 1
  BY <1>2
<1>5. 1..Len(frames) \subseteq 1..Len(frames) + 1
  BY <1>2
<1>6. ~ (t <= mark)
  OBVIOUS
<1>7. Followed(new, seed, mark) = old
  <2> HIDE DEF seed
  <2>1. ASSUME NEW n \in Followed(new, seed, mark)
        PROVE  n \in old
    <3>1. n \in 1..Len(frames) + 1 /\ seed < new[n] /\ new[n] <= mark
      BY <1>3 DEF Followed
    <3>2. n \in 1..Len(frames)
      BY <1>1, <1>4, <1>6, <3>1
    <3>3. QED
      BY <1>1, <1>2, <3>1, <3>2 DEF Followed
  <2>2. ASSUME NEW n \in old
        PROVE  n \in Followed(new, seed, mark)
    BY <1>1, <1>2, <1>3, <1>5 DEF Followed
  <2>3. QED
    BY <2>1, <2>2
<1>8. ASSUME NEW n \in old
      PROVE  /\ n \in 2..Len(frames) /\ new[n] = frames[n] /\ new[n - 1] = frames[n - 1]
             /\ Duration(new, n) = Duration(frames, n)
  <2>1. n \in 1..Len(frames) /\ frames[s] < frames[n]
    BY <1>2 DEF Followed
  <2>2. s < n
    BY <1>2, <2>1
  <2>3. n \in 2..Len(frames) /\ n - 1 \in 1..Len(frames)
    BY <1>2, <2>1, <2>2
  <2>4. QED
    BY <1>1, <2>1, <2>3 DEF Duration
<1>9. Proper(new, seed, mark) = Proper(frames, seed, mark)
  BY <1>7, <1>8 DEF Proper
<1>10. LastThree(new, seed, mark) = LastThree(frames, seed, mark)
  BY <1>9 DEF LastThree
<1>11. ASSUME NEW at \in LastThree(frames, seed, mark)
       PROVE  DurationsAt(new, at) = DurationsAt(frames, at)
  <2>1. PICK k \in 0..3 : at \in [1..k -> Proper(frames, seed, mark)]
    BY LastThreeIs
  <2>2. \A p \in 1..k : Duration(new, at[p]) = Duration(frames, at[p])
    <3>1. Proper(frames, seed, mark) \subseteq old
      BY DEF Proper
    <3>2. QED
      BY <1>8, <2>1, <3>1
  <2>3. DOMAIN at = 1..k
    BY <2>1
  <2>4. QED
    BY <2>2, <2>3 DEF DurationsAt
<1>12. QED
  BY <1>7, <1>8, <1>10, <1>11 DEF new, seed

LEMMA AccountStays ==
    ASSUME NEW frames, Stream(frames), NEW t \in Nat, \A k \in 1..Len(frames) : frames[k] < t,
           NEW s \in 1..Len(frames), NEW look \in Looks, look.at < t,
           NEW whole, NEW wholeAfter, wholeAfter => whole,
           Accounted(frames, frames[s], whole, look)
    PROVE  Accounted(Append(frames, t), frames[s], wholeAfter, look)
<1> DEFINE new == Append(frames, t)
           seed == frames[s]
           old == Followed(frames, seed, look.at)
<1>1. look.at \in Nat
  BY LookFields
<1>2. \A k \in 1..Len(frames) : frames[k] \in Nat
  BY StreamIs
<1>3. /\ Followed(new, seed, look.at) = old
      /\ \A n \in old :
           /\ n \in 2..Len(frames) /\ new[n] = frames[n] /\ new[n - 1] = frames[n - 1]
           /\ Duration(new, n) = Duration(frames, n)
  <2>1. Followed(new, seed, look.at) = old
    BY <1>1, FollowedStays
  <2>2. \A n \in old :
           /\ n \in 2..Len(frames) /\ new[n] = frames[n] /\ new[n - 1] = frames[n - 1]
           /\ Duration(new, n) = Duration(frames, n)
    BY <1>1, FollowedStays
  <2>3. QED
    BY <2>1, <2>2
<1>4. /\ LastThree(new, seed, look.at) = LastThree(frames, seed, look.at)
      /\ \A at \in LastThree(frames, seed, look.at) : DurationsAt(new, at) = DurationsAt(frames, at)
  BY <1>1, FollowedStays
<1>5. ASSUME NEW n \in old
      PROVE  /\ LastThree(new, seed, frames[n - 1]) = LastThree(frames, seed, frames[n - 1])
             /\ \A at \in LastThree(frames, seed, frames[n - 1]) :
                   DurationsAt(new, at) = DurationsAt(frames, at)
  <2>1. Len(frames) \in Nat /\ n \in 2..Len(frames)
    BY <1>3, StreamIs
  <2>2. n - 1 \in 1..Len(frames)
    BY <2>1
  <2>3. frames[n - 1] \in Nat /\ frames[n - 1] < t
    BY <1>2, <2>2
  <2>4. QED
    BY <2>3, FollowedStays
<1> HIDE DEF new, seed, old
<1>6. {new[n] : n \in Followed(new, seed, look.at)} = {frames[n] : n \in Followed(frames, seed, look.at)}
  BY <1>3 DEF old
<1>7. ASSUME wholeAfter
      PROVE  /\ RightTiers(new, seed, look.at, look.tiers)
             /\ \E at \in LastThree(new, seed, look.at) : look.prev = DurationsAt(new, at)
  <2>1. /\ RightTiers(frames, seed, look.at, look.tiers)
        /\ \E at \in LastThree(frames, seed, look.at) : look.prev = DurationsAt(frames, at)
    BY <1>7 DEF Accounted, seed
  <2>2. \E at \in LastThree(new, seed, look.at) : look.prev = DurationsAt(new, at)
    BY <1>4, <2>1
  <2>3. ASSUME NEW n \in old
        PROVE  IF Duration(new, n) >= Gap THEN look.tiers[new[n]] = "gap"
               ELSE \E at \in LastThree(new, seed, new[n - 1]) :
                      look.tiers[new[n]] = TierAfter(Duration(new, n), DurationsAt(new, at))
    <3>1. IF Duration(frames, n) >= Gap THEN look.tiers[frames[n]] = "gap"
          ELSE \E at \in LastThree(frames, seed, frames[n - 1]) :
                 look.tiers[frames[n]] = TierAfter(Duration(frames, n), DurationsAt(frames, at))
      BY <2>1 DEF RightTiers, old
    <3>2. new[n] = frames[n] /\ new[n - 1] = frames[n - 1] /\ Duration(new, n) = Duration(frames, n)
      BY <1>3
    <3>3. CASE Duration(frames, n) >= Gap
      BY <3>1, <3>2, <3>3
    <3>4. CASE ~ (Duration(frames, n) >= Gap)
      <4>1. PICK at \in LastThree(frames, seed, frames[n - 1]) :
               look.tiers[frames[n]] = TierAfter(Duration(frames, n), DurationsAt(frames, at))
        BY <3>1, <3>4
      <4>2. at \in LastThree(new, seed, new[n - 1]) /\ DurationsAt(new, at) = DurationsAt(frames, at)
        BY <1>5, <3>2
      <4>3. QED
        BY <3>2, <3>4, <4>1, <4>2
    <3>5. QED
      BY <3>3, <3>4
  <2>4. RightTiers(new, seed, look.at, look.tiers)
    BY <1>3, <1>6, <2>1, <2>3 DEF RightTiers, old
  <2>5. QED
    BY <2>2, <2>4
<1>8. QED
  <2>1. Accounted(frames, seed, whole, look)
    BY DEF seed
  <2>2. Accounted(new, seed, wholeAfter, look)
    BY <1>6, <1>7, <2>1 DEF Accounted
  <2>3. QED
    BY <2>2 DEF new, seed

LEMMA LayerStart == ASSUME SfInit PROVE SfInv
<1>2. sfFrames = <<>> /\ Len(sfFrames) = 0 /\ <<>> \in Seq(Nat)
  BY EmptySeq DEF SfInit
<1>3. Stream(sfFrames) /\ Len(sfFrames) <= MaxFrames
      /\ \A n \in 1..Len(sfFrames) : sfFrames[n] > 0
  BY <1>2, GapIs DEF Stream
<1>4. Layer \in Looks
  <2>1. sfMax \in Nat /\ sfJank \in Nat /\ sfTotal \in Nat /\ sfTwice \in BOOLEAN
    BY DEF SfInit
  <2>2. sfPrev \in Windows
    <3>1. <<>> \in Seq(1..Gap - 1) /\ Len(<<>>) = 0
      BY EmptySeq
    <3>2. QED
      BY <3>1 DEF SfInit, Windows
  <2>3. sfTiers \in UNION {[times -> Verdicts] : times \in SUBSET Nat}
    <3>1. <<>> \in [{} -> Verdicts]
      OBVIOUS
    <3>2. QED
      BY <3>1 DEF SfInit
  <2>4. NoCounts \in Counters /\ "none" \in Verdicts
    BY DEF NoCounts, Counters, Verdicts, Tiers
  <2>5. QED
    BY <2>1, <2>2, <2>3, <2>4 DEF Layer, Looks
<1>5. sfTick \in [small : 0..MaxFrames, normal : 0..MaxFrames, big : 0..MaxFrames, new : 0..MaxFrames]
  BY GapIs DEF SfInit, NoCounts
<1>6. sfMax = 0 /\ sfSeed = 0 /\ sfJank = 0 /\ sfTotal = 0 /\ sfPrev = <<>> /\ sfTiers = <<>>
      /\ ~ sfTwice /\ ~ sfOverrun /\ sfSeed \in Nat /\ sfOverrun \in BOOLEAN
  BY DEF SfInit
<1>7. QED
  BY <1>3, <1>4, <1>5, <1>6 DEF SfInv

LEMMA LayerRenders == ASSUME SfInv, SfRender PROVE SfInv'
<1> DEFINE N == Len(sfFrames)
<1>1. PICK d \in Durations :
         sfFrames' = Append(sfFrames, d + (IF sfFrames = <<>> THEN 1 ELSE Last(sfFrames)))
  BY DEF SfRender
<1> DEFINE t == d + (IF sfFrames = <<>> THEN 1 ELSE Last(sfFrames))
<1>2. /\ Stream(sfFrames) /\ N <= MaxFrames /\ Layer \in Looks /\ sfSeed \in Nat
      /\ sfOverrun \in BOOLEAN
      /\ \A n \in 1..N : sfFrames[n] > 0
  BY DEF SfInv
<1>3. /\ N \in Nat /\ sfFrames \in Seq(Nat)
      /\ \A n \in 1..N : sfFrames[n] \in Nat
      /\ \A k, l \in 1..N : sfFrames[k] < sfFrames[l] => k < l
      /\ \A k, l \in 1..N : k < l => sfFrames[k] < sfFrames[l]
  BY <1>2, StreamIs
<1>4. d \in Nat /\ 0 < d
  BY GapIs DEF Durations
<1>5. t \in Nat /\ 0 < t /\ \A k \in 1..N : sfFrames[k] < t
  <2>1. CASE sfFrames = <<>>
    <3>1. t = d + 1
      BY <2>1
    <3>2. Len(<<>>) = 0
      OBVIOUS
    <3>3. N = 0
      BY <2>1, <3>2
    <3> HIDE DEF t, N
    <3>4. QED
      BY <3>1, <3>3, <1>4
  <2>2. CASE sfFrames # <<>>
    <3>1. N # 0
      BY <1>3, <2>2, EmptySeq
    <3>2. t = d + sfFrames[N] /\ N \in 1..N
      BY <2>2, <3>1, <1>3 DEF Last
    <3>3. sfFrames[N] \in Nat
      BY <3>2, <1>3
    <3> HIDE DEF t, N
    <3>4. sfFrames[N] < t /\ t \in Nat /\ 0 < t
      BY <3>2, <3>3, <1>4
    <3>5. ASSUME NEW k \in 1..N
          PROVE  sfFrames[k] < t
      <4>1. k = N \/ k < N
        BY <1>3
      <4>2. CASE k = N
        BY <3>4, <4>2
      <4>3. CASE k < N
        <5>1. sfFrames[k] < sfFrames[N] /\ sfFrames[k] \in Nat
          BY <1>3, <3>2, <4>3
        <5>2. QED
          BY <3>3, <3>4, <5>1
      <4>4. QED
        BY <4>1, <4>2, <4>3
    <3>6. QED
      BY <3>4, <3>5
  <2>3. QED
    BY <2>1, <2>2
<1>6. sfFrames' = Append(sfFrames, t)
  BY <1>1
<1> HIDE DEF t
<1>7. /\ Stream(sfFrames') /\ Len(sfFrames') = N + 1 /\ sfFrames'[N + 1] = t
      /\ \A k \in 1..N : sfFrames'[k] = sfFrames[k]
  BY <1>2, <1>5, <1>6, StreamGrows
<1>8. N < MaxFrames
      /\ sfOverrun' = (sfOverrun \/ (N >= RingSize /\ sfMax # 0 /\ sfFrames[N - RingSize + 1] > sfMax))
      /\ UNCHANGED <<sfMax, sfPrev, sfJank, sfTotal, sfTick, sfSeed, sfTiers, sfTwice>>
  BY DEF SfRender, sfLayer
<1>9. Layer' = Layer
  BY <1>8 DEF Layer, NoCounts
<1>10. Len(sfFrames') <= MaxFrames
  BY <1>3, <1>7, <1>8, GapIs
<1>11. ASSUME NEW n \in 1..Len(sfFrames')
       PROVE  sfFrames'[n] > 0
  <2>1. n \in 1..N \/ n = N + 1
    BY <1>3, <1>7
  <2>2. CASE n \in 1..N
    BY <1>2, <1>7, <2>2
  <2>3. CASE n = N + 1
    BY <1>5, <1>7, <2>3
  <2>4. QED
    BY <2>1, <2>2, <2>3
<1>12. sfOverrun' \in BOOLEAN
  BY <1>2, <1>8
<1>13. ASSUME sfMax # 0
       PROVE  MarkShown' /\ Accounted(sfFrames', sfSeed, ~ sfOverrun', Layer)
  <2>1. MarkShown /\ Accounted(sfFrames, sfSeed, ~ sfOverrun, Layer)
    BY <1>13 DEF SfInv
  <2>2. PICK m \in 1..N - 1 :
           sfFrames[m] = sfMax /\ (~ sfOverrun => N <= m + RingSize)
    BY <2>1 DEF MarkShown
  <2>3. m \in 1..N /\ m \in Nat /\ m <= N - 1
    BY <1>3, <2>2
  <2>4. sfSeed \in Range(sfFrames) /\ sfSeed <= sfMax
    BY <2>1 DEF MarkShown
  <2>5. PICK s \in 1..N : sfFrames[s] = sfSeed
    BY <1>2, <2>4, StreamIs DEF Range
  <2>6. Layer.at = sfMax /\ sfMax < t /\ sfMax \in Nat
    BY <1>3, <1>5, <2>2, <2>3, LayerIs
  <2>7. ~ sfOverrun' => ~ sfOverrun
    BY <1>8
  <2>8. Accounted(sfFrames, sfFrames[s], ~ sfOverrun, Layer)
    BY <2>1, <2>5
  <2>9. Accounted(Append(sfFrames, t), sfFrames[s], ~ sfOverrun', Layer)
    BY <1>2, <1>5, <2>6, <2>7, <2>8, AccountStays
  <2>10. Accounted(sfFrames', sfSeed, ~ sfOverrun', Layer)
    BY <1>6, <2>5, <2>9
  <2>11. sfSeed \in Range(sfFrames')
    <3>1. s \in 1..N + 1 /\ sfFrames'[s] = sfSeed
      BY <1>3, <1>7, <2>5
    <3>2. DOMAIN sfFrames' = 1..N + 1
      BY <1>7, StreamIs
    <3>3. QED
      BY <3>1, <3>2 DEF Range
  <2>12. m \in 1..(N + 1) - 1 /\ sfFrames'[m] = sfMax
    BY <1>3, <1>7, <2>2, <2>3
  <2>13. ASSUME ~ sfOverrun'
         PROVE  N + 1 <= m + RingSize
    <3>1. CASE ~ (N >= RingSize)
      BY <1>3, <2>3, <3>1, GapIs
    <3>2. CASE N >= RingSize
      <4>1. ~ (sfFrames[N - RingSize + 1] > sfMax)
        BY <1>8, <1>13, <2>13, <3>2
      <4>2. N - RingSize + 1 \in 1..N
        BY <1>3, <3>2, GapIs
      <4>3. sfFrames[N - RingSize + 1] \in Nat
        BY <1>3, <4>2
      <4>4. ~ (sfFrames[m] < sfFrames[N - RingSize + 1])
        BY <2>2, <2>6, <4>1, <4>3
      <4>5. ~ (m < N - RingSize + 1)
        BY <1>3, <2>3, <4>2, <4>4
      <4>6. QED
        BY <1>3, <2>3, <4>5, GapIs
    <3>3. QED
      BY <3>1, <3>2
  <2>14. MarkShown'
    BY <1>7, <1>8, <2>4, <2>11, <2>12, <2>13 DEF MarkShown
  <2>15. QED
    BY <2>10, <2>14
<1>14. (sfMax = 0 => /\ sfSeed = 0 /\ sfJank = 0 /\ sfTotal = 0 /\ sfPrev = <<>> /\ sfTiers = <<>>
                     /\ ~ sfTwice /\ ~ sfOverrun)
       /\ sfTick \in [small : 0..MaxFrames, normal : 0..MaxFrames, big : 0..MaxFrames, new : 0..MaxFrames]
  BY DEF SfInv
<1>15. sfMax = 0 => ~ sfOverrun'
  BY <1>8, <1>14
<1> HIDE DEF N
<1>16. (sfMax' = 0 => /\ sfSeed' = 0 /\ sfJank' = 0 /\ sfTotal' = 0 /\ sfPrev' = <<>> /\ sfTiers' = <<>>
                      /\ ~ sfTwice' /\ ~ sfOverrun')
  BY <1>8, <1>14, <1>15
<1>17. sfMax' # 0 => MarkShown' /\ Accounted(sfFrames', sfSeed', ~ sfOverrun', Layer')
  BY <1>8, <1>9, <1>13
<1>18. QED
  BY <1>2, <1>7, <1>8, <1>9, <1>10, <1>11, <1>12, <1>14, <1>16, <1>17 DEF SfInv

\* What the ring shows is a stretch of the stream that ends before the frame on its way.
LEMMA ShownIs ==
    ASSUME Stream(sfFrames), Shown # <<>>
    PROVE  LET N == Len(sfFrames)
               a == IF N > RingSize THEN N - RingSize ELSE 0
           IN  /\ N \in Nat /\ 2 <= N /\ a \in Nat /\ a < N - 1
               /\ Shown \in Seq(Nat) /\ Len(Shown) = (N - 1) - a
               /\ \A i \in 1..Len(Shown) : Shown[i] = sfFrames[a + i]
               /\ Last(Shown) = sfFrames[N - 1]
<1> DEFINE N == Len(sfFrames)
           a == IF N > RingSize THEN N - RingSize ELSE 0
           first == IF N > RingSize THEN N - RingSize + 1 ELSE 1
<1>1. N \in Nat /\ sfFrames \in Seq(Nat) /\ \A n \in 1..N : sfFrames[n] \in Nat
  BY StreamIs
<1>2. ~ (N <= 1) /\ Shown = SubSeq(sfFrames, first, N - 1)
  BY DEF Shown
<1>3. a \in Nat /\ a < N - 1 /\ first = a + 1 /\ 2 <= N
  BY <1>1, <1>2, GapIs
<1> HIDE DEF a, first, N
<1>4. first \in 1..N + 1 /\ N - 1 \in 0..N /\ first <= N - 1 /\ first \in 1..N /\ N - 1 \in 1..N
      /\ (N - 1) - first + 1 = (N - 1) - a /\ N = Len(sfFrames)
  BY <1>1, <1>3 DEF N
<1> DEFINE shown == SubSeq(sfFrames, first, N - 1)
<1>5. /\ shown \in Seq(Nat)
      /\ Len(shown) = (N - 1) - first + 1
      /\ \A i \in 1..(N - 1) - first + 1 : shown[i] = sfFrames[first + i - 1]
  <2>1. first \in Int /\ N - 1 \in Int /\ first <= N - 1
    BY <1>1, <1>3, <1>4
  <2>2. \A i \in first..N - 1 : sfFrames[i] \in Nat
    <3>1. \A i \in first..N - 1 : i \in 1..N
      BY <1>1, <1>3
    <3>2. QED
      BY <1>1, <3>1
  <2>3. QED
    BY <2>1, <2>2, SubSeqProperties
<1> HIDE DEF shown
<1>6. Len(shown) = (N - 1) - a /\ Len(shown) \in Nat /\ Len(shown) # 0
  <2>1. Len(shown) = (N - 1) - a
    BY <1>4, <1>5
  <2>2. \A x, y \in Nat : y < x - 1 /\ 2 <= x => (x - 1) - y \in Nat /\ (x - 1) - y # 0
    OBVIOUS
  <2>3. (N - 1) - a \in Nat /\ (N - 1) - a # 0
    BY <1>1, <1>3, <2>2
  <2>4. QED
    BY <2>1, <2>3
<1>7. \A i \in 1..Len(shown) : shown[i] = sfFrames[a + i]
  <2>1. \A i \in 1..Len(shown) : first + i - 1 = a + i
    BY <1>3
  <2>2. QED
    BY <1>4, <1>5, <1>6, <2>1
<1>8. Last(shown) = sfFrames[N - 1]
  <2>1. Last(shown) = shown[Len(shown)]
    BY DEF Last
  <2>2. Len(shown) \in 1..Len(shown) /\ a + Len(shown) = N - 1
    BY <1>1, <1>3, <1>6
  <2>3. QED
    BY <1>7, <2>1, <2>2
<1>9. QED
  BY <1>1, <1>2, <1>3, <1>5, <1>6, <1>7, <1>8 DEF N, a, shown

LEMMA LayerSeen == ASSUME SfInv, SfSight PROVE SfInv'
<1> DEFINE N == Len(sfFrames)
<1>1. /\ Shown # <<>> /\ sfMax = 0 /\ sfMax' = Last(Shown) /\ sfSeed' = Last(Shown)
      /\ sfTick' = NoCounts
      /\ UNCHANGED <<sfFrames, sfPrev, sfJank, sfTotal, sfTiers, sfTwice, sfOverrun>>
  BY DEF SfSight
<1>2. /\ Stream(sfFrames) /\ N <= MaxFrames /\ Layer \in Looks /\ sfOverrun \in BOOLEAN
      /\ \A n \in 1..N : sfFrames[n] > 0
  BY DEF SfInv
<1>3. sfJank = 0 /\ sfTotal = 0 /\ sfPrev = <<>> /\ sfTiers = <<>> /\ ~ sfTwice /\ ~ sfOverrun
  BY <1>1 DEF SfInv
<1>4. N \in Nat /\ 2 <= N /\ Last(Shown) = sfFrames[N - 1]
  BY <1>1, <1>2, ShownIs
<1>5. N - 1 \in 1..N /\ DOMAIN sfFrames = 1..N /\ sfFrames[N - 1] \in Nat /\ sfFrames[N - 1] > 0
  <2>1. N - 1 \in 1..N
    BY <1>4
  <2>2. QED
    BY <1>2, <2>1, StreamIs
<1>6. Layer' \in Looks
  <2>1. Layer' = [Layer EXCEPT !.at = sfFrames[N - 1]]
    BY <1>1, <1>4 DEF Layer, NoCounts
  <2>2. QED
    BY <1>2, <1>5, <2>1 DEF Looks
<1>7. MarkShown'
  <2>1. sfFrames[N - 1] \in Range(sfFrames)
    BY <1>5 DEF Range
  <2>2. N - 1 \in 1..N - 1 /\ N <= (N - 1) + RingSize
    BY <1>4, GapIs
  <2>3. sfSeed' = sfFrames[N - 1] /\ sfMax' = sfFrames[N - 1] /\ sfFrames' = sfFrames
    BY <1>1, <1>4
  <2>4. sfSeed' \in Range(sfFrames') /\ sfSeed' <= sfMax'
    BY <1>5, <2>1, <2>3
  <2>5. \E m \in 1..Len(sfFrames') - 1 :
           sfFrames'[m] = sfMax' /\ (~ sfOverrun' => Len(sfFrames') <= m + RingSize)
    BY <2>2, <2>3
  <2>6. QED
    BY <2>4, <2>5 DEF MarkShown
<1>8. Accounted(sfFrames', sfSeed', ~ sfOverrun', Layer')
  <2> DEFINE t == sfFrames[N - 1]
             look == Layer'
  <2>1. /\ look.at = t /\ look.prev = <<>> /\ look.jank = 0 /\ look.total = 0
        /\ look.tiers = <<>> /\ look.twice = FALSE /\ sfSeed' = t
    <3>1. look.twice = sfTwice' /\ sfTwice \in BOOLEAN
      BY <1>2, LookFields, LayerIs DEF Layer
    <3>2. QED
      BY <1>1, <1>3, <1>4, <3>1 DEF Layer
  <2>2. t \in Nat
    BY <1>5
  <2> HIDE DEF look, t
  <2>3. Followed(sfFrames, t, t) = {}
    <3>1. ASSUME NEW n \in Followed(sfFrames, t, t)
          PROVE  FALSE
      <4>1. n \in 1..N /\ t < sfFrames[n] /\ sfFrames[n] <= t
        BY <1>5 DEF Followed
      <4>2. sfFrames[n] \in Nat
        BY <1>2, <4>1, StreamIs
      <4>3. QED
        BY <2>2, <4>1, <4>2
    <3>2. QED
      BY <3>1
  <2>4. DOMAIN look.tiers = {}
    BY <2>1
  <2>5. RightTiers(sfFrames, t, t, look.tiers)
    BY <2>3, <2>4 DEF RightTiers
  <2>6. <<>> \in LastThree(sfFrames, t, t) /\ DurationsAt(sfFrames, <<>>) = <<>>
    <3>1. Proper(sfFrames, t, t) = {}
      BY <2>3 DEF Proper
    <3>2. <<>> \in [1..0 -> Proper(sfFrames, t, t)] /\ 0 \in 0..3
          /\ \A p, q \in 1..0 : p < q => <<>>[p] < <<>>[q]
      OBVIOUS
    <3>3. <<>> \in LastThree(sfFrames, t, t)
      BY <3>1, <3>2, LastThreeIs
    <3>4. DurationsAt(sfFrames, <<>>) = <<>>
      BY DEF DurationsAt
    <3>5. QED
      BY <3>3, <3>4
  <2>7. t - t = 0
    BY <2>2
  <2>8. Accounted(sfFrames, t, ~ sfOverrun', look)
    BY <2>1, <2>4, <2>5, <2>6, <2>7 DEF Accounted
  <2>9. QED
    BY <1>1, <2>1, <2>8 DEF look
<1>9. sfTick' \in [small : 0..MaxFrames, normal : 0..MaxFrames, big : 0..MaxFrames, new : 0..MaxFrames]
  BY <1>1, GapIs DEF NoCounts
<1>10. sfMax' # 0 /\ sfSeed' \in Nat /\ sfFrames' = sfFrames /\ sfOverrun' = sfOverrun
  BY <1>1, <1>4, <1>5
<1> HIDE DEF N
<1>11. Stream(sfFrames') /\ Len(sfFrames') <= MaxFrames /\ \A n \in 1..Len(sfFrames') : sfFrames'[n] > 0
  BY <1>2, <1>10 DEF N
<1>12. QED
  BY <1>2, <1>6, <1>7, <1>8, <1>9, <1>10, <1>11 DEF SfInv

LEMMA LayerRead == ASSUME SfInv, SfRead PROVE SfInv'
<1> DEFINE N == Len(sfFrames)
           a == IF N > RingSize THEN N - RingSize ELSE 0
           L == Len(Shown)
           look == AlongRing(Layer, Shown)[L]
<1>1. /\ Shown # <<>> /\ sfMax # 0
      /\ sfPrev' = look.prev /\ sfJank' = look.jank /\ sfTotal' = look.total /\ sfTick' = look.tick
      /\ sfTiers' = look.tiers /\ sfTwice' = look.twice
      /\ sfMax' = Last(Shown)
      /\ UNCHANGED <<sfFrames, sfSeed, sfOverrun>>
  BY DEF SfRead, Layer, WindowAtTick
<1>2. /\ Stream(sfFrames) /\ N <= MaxFrames /\ Layer \in Looks /\ sfOverrun \in BOOLEAN
      /\ sfSeed \in Nat
      /\ \A n \in 1..N : sfFrames[n] > 0
      /\ MarkShown /\ Accounted(sfFrames, sfSeed, ~ sfOverrun, Layer)
  BY <1>1 DEF SfInv
<1>3. /\ N \in Nat /\ 2 <= N /\ a \in Nat /\ a < N - 1
      /\ Shown \in Seq(Nat) /\ L = (N - 1) - a
      /\ \A i \in 1..L : Shown[i] = sfFrames[a + i]
      /\ Last(Shown) = sfFrames[N - 1]
  BY <1>1, <1>2, ShownIs
<1>4. PICK m \in 1..N - 1 :
         sfFrames[m] = sfMax /\ (~ sfOverrun => N <= m + RingSize)
  BY <1>2 DEF MarkShown
<1>5. m \in 1..N /\ m \in Nat /\ m <= N - 1 /\ N - 1 \in 1..N
  BY <1>3, <1>4
<1>6. ~ sfOverrun => a <= m
  BY <1>3, <1>4, <1>5, GapIs
<1>7. sfFrames[N - 1] \in Nat /\ sfFrames[N - 1] > 0 /\ sfMax \in Nat /\ sfMax <= sfFrames[N - 1]
  <2>1. sfFrames[N - 1] \in Nat /\ sfFrames[m] \in Nat
    BY <1>2, <1>5, StreamIs
  <2>2. CASE m = N - 1
    BY <1>2, <1>4, <1>5, <2>1, <2>2
  <2>3. CASE m # N - 1
    <3>1. m < N - 1
      BY <1>3, <1>5, <2>3
    <3>2. sfFrames[m] < sfFrames[N - 1]
      BY <1>2, <1>5, <3>1, StreamIs
    <3>3. QED
      BY <1>2, <1>4, <1>5, <2>1, <3>2
  <2>4. QED
    BY <2>2, <2>3
<1>8. sfSeed <= sfMax /\ sfSeed \in Range(sfFrames)
  BY <1>2 DEF MarkShown
<1>9. L \in Nat /\ L # 0 /\ a + L = N - 1 /\ a + L <= N /\ L \in 0..L /\ L <= MaxFrames /\ L \in 1..L
  <2>1. \A x, y, z \in Nat : y < x - 1 /\ x <= z /\ 2 <= x
           => /\ (x - 1) - y \in Nat /\ (x - 1) - y # 0 /\ y + ((x - 1) - y) = x - 1
              /\ x - 1 <= x /\ (x - 1) - y <= z
    OBVIOUS
  <2>2. N \in Nat /\ a \in Nat /\ MaxFrames \in Nat /\ a < N - 1 /\ N <= MaxFrames /\ 2 <= N
        /\ L = (N - 1) - a
    BY <1>2, <1>3, GapIs
  <2> HIDE DEF N, a, L
  <2>3. /\ L \in Nat /\ L # 0 /\ a + L = N - 1 /\ a + L <= N /\ L <= MaxFrames
    BY <2>1, <2>2
  <2>4. QED
    BY <2>3
<1>10. Shown[L] = sfFrames[N - 1]
  BY <1>3, <1>9
<1> HIDE DEF a, L, N
<1>11. /\ look \in Looks
       /\ look.at = IF L > 0 /\ Shown[L] > Layer.at THEN Shown[L] ELSE Layer.at
       /\ Accounted(sfFrames, sfSeed, ~ sfOverrun, look)
       /\ look.tick.new <= L
       /\ \A f \in {"small", "normal", "big"} : look.tick[f] <= L
  <2>1. /\ Layer.at = sfMax /\ Layer.tick.new = 0
        /\ \A f \in {"small", "normal", "big"} : Layer.tick[f] = 0
    BY LayerIs
  <2>2. /\ sfSeed <= Layer.at /\ sfFrames[m] = Layer.at
        /\ (~ sfOverrun) \in BOOLEAN
    BY <1>4, <1>8, <2>1
  <2>3. /\ m \in 1..Len(sfFrames) /\ a + Len(Shown) <= Len(sfFrames) /\ L \in 0..Len(Shown)
        /\ \A i \in 1..Len(Shown) : Shown[i] = sfFrames[a + i]
    BY <1>3, <1>5, <1>9 DEF L, N
  <2> HIDE DEF look
  <2>4. look = AlongRing(Layer, Shown)[L]
    BY DEF look
  <2>10. Ready(sfFrames, sfSeed, ~ sfOverrun, Layer, m, a, Shown) /\ L \in 0..Len(Shown)
    BY <1>2, <1>3, <1>6, <2>1, <2>2, <2>3 DEF Ready
  <2>5. look \in Looks
    BY <2>4, <2>10, RingTaken
  <2>6. look.at = IF L > 0 /\ Shown[L] > Layer.at THEN Shown[L] ELSE Layer.at
    BY <2>4, <2>10, RingTaken
  <2>7. Accounted(sfFrames, sfSeed, ~ sfOverrun, look)
    BY <2>4, <2>10, RingTaken
  <2>8. look.tick.new <= L /\ \A f \in {"small", "normal", "big"} : look.tick[f] <= L
    BY <2>4, <2>10, RingTaken
  <2>9. QED
    BY <2>5, <2>6, <2>7, <2>8
<1> HIDE DEF look
<1>12. look.at = sfFrames[N - 1] /\ sfMax' = sfFrames[N - 1]
  <2>1. Layer.at = sfMax
    BY LayerIs
  <2>2. CASE sfFrames[N - 1] > sfMax
    BY <1>1, <1>3, <1>9, <1>10, <1>11, <2>1, <2>2
  <2>3. CASE ~ (sfFrames[N - 1] > sfMax)
    <3>1. sfMax = sfFrames[N - 1]
      BY <1>7, <2>3
    <3>2. QED
      BY <1>1, <1>3, <1>10, <1>11, <2>1, <2>3, <3>1
  <2>4. QED
    BY <2>2, <2>3
<1>13. /\ Layer'.at = look.at /\ Layer'.prev = look.prev /\ Layer'.jank = look.jank
       /\ Layer'.total = look.total /\ Layer'.tiers = look.tiers /\ Layer'.twice = look.twice
  BY <1>1, <1>12 DEF Layer
<1>14. Layer' \in Looks
  <2>1. /\ look.at \in Nat /\ look.prev \in Windows /\ look.jank \in Nat /\ look.total \in Nat
        /\ look.tiers \in UNION {[times -> Verdicts] : times \in SUBSET Nat}
        /\ look.twice \in BOOLEAN
    BY <1>11 DEF Looks
  <2>2. Layer' = [at |-> look.at, prev |-> look.prev, jank |-> look.jank, total |-> look.total,
                  tick |-> NoCounts, tier |-> "none", tiers |-> look.tiers, twice |-> look.twice]
    BY <1>1, <1>12 DEF Layer, NoCounts
  <2>3. NoCounts \in Counters /\ "none" \in Verdicts
    BY DEF NoCounts, Counters, Verdicts, Tiers
  <2>4. QED
    BY <2>1, <2>2, <2>3 DEF Looks
<1>15. Accounted(sfFrames', sfSeed', ~ sfOverrun', Layer')
  <2>1. Accounted(sfFrames, sfSeed, ~ sfOverrun, Layer')
    BY <1>11, <1>13, AccountOf
  <2>2. QED
    BY <1>1, <2>1
<1>16. MarkShown'
  <2>1. sfFrames' = sfFrames /\ sfSeed' = sfSeed /\ sfMax' = sfFrames[N - 1]
    BY <1>1, <1>12
  <2>2. sfSeed' \in Range(sfFrames') /\ sfSeed' <= sfMax'
    BY <1>2, <1>7, <1>8, <2>1
  <2>3. N - 1 \in 1..N - 1 /\ N <= (N - 1) + RingSize
    BY <1>3, GapIs
  <2>4. \E k \in 1..Len(sfFrames') - 1 :
           sfFrames'[k] = sfMax' /\ (~ sfOverrun' => Len(sfFrames') <= k + RingSize)
    BY <2>1, <2>3 DEF N
  <2>5. QED
    BY <2>2, <2>4 DEF MarkShown
<1>17. sfTick' \in [small : 0..MaxFrames, normal : 0..MaxFrames, big : 0..MaxFrames, new : 0..MaxFrames]
  <2>1. look.tick \in Counters
    BY <1>11, LookFields
  <2>2. \A x \in Nat : x <= L => x \in 0..MaxFrames
    BY <1>9, GapIs
  <2>3. /\ look.tick.small \in 0..MaxFrames /\ look.tick.normal \in 0..MaxFrames
        /\ look.tick.big \in 0..MaxFrames /\ look.tick.new \in 0..MaxFrames
    BY <1>11, <2>1, <2>2 DEF Counters
  <2>4. QED
    BY <1>1, <2>1, <2>3 DEF Counters
<1>18. sfMax' # 0 /\ sfSeed' \in Nat /\ sfFrames' = sfFrames /\ sfOverrun' = sfOverrun
  BY <1>1, <1>2, <1>7, <1>12
<1>19. Stream(sfFrames') /\ Len(sfFrames') <= MaxFrames /\ \A n \in 1..Len(sfFrames') : sfFrames'[n] > 0
  BY <1>2, <1>18 DEF N
<1>20. QED
  BY <1>2, <1>14, <1>15, <1>16, <1>17, <1>18, <1>19 DEF SfInv

LEMMA LayerStep == SfInv /\ [SfNext]_sfVars => SfInv'
<1>1. ASSUME SfInv, SfNext
      PROVE  SfInv'
  BY <1>1, LayerRenders, LayerSeen, LayerRead DEF SfNext
<1>2. ASSUME SfInv, UNCHANGED sfVars
      PROVE  SfInv'
  BY <1>2 DEF sfVars, sfLayer, sfGhost, SfInv, MarkShown, Layer, NoCounts
<1>3. QED
  BY <1>1, <1>2

\* Wherever the ticks cut the stream of a layer's frames, what the sampler holds is the account of
\* the frames up to its mark: none taken twice, the times they add up to, and, unless the ring lost
\* some, the tier of each and the last three durations (fps.rs:72-113, 374-409).
THEOREM FramesInvariance == SfSpec => []SfInv
<1>1. SfInit => SfInv
  BY LayerStart
<1>2. QED
  BY <1>1, LayerStep, PTL DEF SfSpec

\* What the account says, in the words of the properties.
LEMMA AccountsMean == SfInv => SfTypeOK /\ TiersIndependentOfTicks /\ NoFrameTwice /\ TimeAccounted
<1>1. SUFFICES ASSUME SfInv
               PROVE  SfTypeOK /\ TiersIndependentOfTicks /\ NoFrameTwice /\ TimeAccounted
  OBVIOUS
<1>2. /\ Stream(sfFrames) /\ Len(sfFrames) <= MaxFrames /\ Layer \in Looks
      /\ sfSeed \in Nat /\ sfOverrun \in BOOLEAN
      /\ sfTick \in [small : 0..MaxFrames, normal : 0..MaxFrames, big : 0..MaxFrames, new : 0..MaxFrames]
      /\ (sfMax = 0 => /\ sfSeed = 0 /\ sfJank = 0 /\ sfTotal = 0 /\ sfPrev = <<>> /\ sfTiers = <<>>
                       /\ ~ sfTwice /\ ~ sfOverrun)
      /\ (sfMax # 0 => MarkShown /\ Accounted(sfFrames, sfSeed, ~ sfOverrun, Layer))
  BY <1>1 DEF SfInv
<1>3. /\ sfMax \in Nat /\ sfPrev \in Windows /\ sfJank \in Nat /\ sfTotal \in Nat
      /\ DOMAIN sfTiers \subseteq Nat /\ sfTiers \in [DOMAIN sfTiers -> Verdicts]
      /\ sfTwice \in BOOLEAN
  BY <1>2, LookFields, LayerIs
<1>4. /\ DOMAIN sfFrames = 1..Len(sfFrames) /\ sfFrames \in Seq(Nat) /\ Len(sfFrames) \in Nat
      /\ \A n \in 1..Len(sfFrames) : sfFrames[n] \in Nat
  BY <1>2, StreamIs
<1>5. CASE sfMax = 0
  <2>1. DOMAIN sfTiers = {} /\ Range(sfTiers) = {}
    BY <1>2, <1>5 DEF Range
  <2>2. Followed(sfFrames, sfSeed, sfMax) = {}
    <3>1. ASSUME NEW n \in Followed(sfFrames, sfSeed, sfMax)
          PROVE  FALSE
      <4>1. n \in 1..Len(sfFrames) /\ 0 < sfFrames[n] /\ sfFrames[n] <= 0
        BY <1>2, <1>4, <1>5 DEF Followed
      <4>2. QED
        BY <1>4, <4>1
    <3>2. QED
      BY <3>1
  <2>3. SfTypeOK
    BY <1>2, <1>3, <1>4, <1>5, <2>1 DEF SfTypeOK, Windows
  <2>4. TiersIndependentOfTicks
    BY <2>1, <2>2 DEF TiersIndependentOfTicks, RightTiers
  <2>5. NoFrameTwice /\ TimeAccounted
    BY <1>2, <1>5 DEF NoFrameTwice, TimeAccounted
  <2>6. QED
    BY <2>3, <2>4, <2>5
<1>6. CASE sfMax # 0
  <2>1. MarkShown /\ Accounted(sfFrames, sfSeed, ~ sfOverrun, Layer)
    BY <1>2, <1>6
  <2>2. /\ DOMAIN sfTiers \subseteq {sfFrames[n] : n \in Followed(sfFrames, sfSeed, sfMax)}
        /\ ~ sfTwice
        /\ sfJank <= sfTotal /\ sfTotal <= sfMax - sfSeed
        /\ (\A t \in DOMAIN sfTiers : sfTiers[t] # "gap") => sfTotal = sfMax - sfSeed
        /\ ~ sfOverrun => RightTiers(sfFrames, sfSeed, sfMax, sfTiers)
    BY <2>1, LayerIs DEF Accounted
  <2>3. sfSeed \in Range(sfFrames) /\ sfMax \in Range(sfFrames)
    <3>1. PICK m \in 1..Len(sfFrames) - 1 : sfFrames[m] = sfMax
      BY <2>1 DEF MarkShown
    <3>2. m \in 1..Len(sfFrames)
      BY <1>4
    <3>3. QED
      BY <1>4, <2>1, <3>1, <3>2 DEF MarkShown, Range
  <2>4. DOMAIN sfTiers \subseteq Range(sfFrames)
    BY <2>2 DEF Followed, Range
  <2>5. Range(sfTiers) \subseteq Verdicts
    BY <1>3 DEF Range
  <2>6. SfTypeOK
    BY <1>2, <1>3, <1>4, <2>3, <2>4, <2>5 DEF SfTypeOK, Windows, Verdicts
  <2>7. TiersIndependentOfTicks /\ NoFrameTwice /\ TimeAccounted
    BY <2>2 DEF TiersIndependentOfTicks, NoFrameTwice, TimeAccounted
  <2>8. QED
    BY <2>6, <2>7
<1>7. QED
  BY <1>5, <1>6

-----------------------------------------------------------------------------
(***************************************************************************)
(* AndroidFps: the counter and the time it is compared over go together.   *)
(***************************************************************************)

\* The last reading is as old as its span, and what was rendered since covers
\* what the counter gained; no layer's ring holds more than one tick's frames
\* unless the tick before missed it.
FramesKnown ==
    /\ afLast.ago = afSpan
    /\ afLast.count # -1 /\ afCount # -1 => afCount <= afLast.count + afRendered
    /\ ~afMissed => \A l \in Layers : afAge[l] = 0

\* What the properties say of the last tick.
LastTick ==
    /\ afOut.gfx \in 0..afOut.done
    /\ afOut.over = afOut.span
    /\ afOut.sv > 0 => afOut.age = 1 \/ afOut.missed

AfInv == AfTypeOK /\ FramesKnown /\ LastTick

AfOuts ==
    [kind : {"silent", "rates", "zero", "error", "fatal"}, gfx : 0..MaxCount, over : 0..MaxAge,
     sv : 0..MaxCount, done : 0..MaxCount, span : 0..MaxAge, age : 0..MaxAge, missed : BOOLEAN]

LEMMA YieldedIs ==
    ASSUME NEW k \in {"silent", "zero", "error", "fatal"}
    PROVE  /\ AfYielded(k) \in AfOuts
           /\ AfYielded(k).gfx \in 0..AfYielded(k).done
           /\ AfYielded(k).over = AfYielded(k).span /\ ~(AfYielded(k).sv > 0)
<1>1. 0 \in 0..MaxCount /\ 0 \in 0..MaxAge
  BY DEF MaxCount, MaxAge
<1>2. Silent \in AfOuts
  BY <1>1 DEF Silent, AfOuts
<1>3. AfYielded(k) = [Silent EXCEPT !.kind = k]
  BY DEF AfYielded
<1>4. AfYielded(k) \in AfOuts
  BY <1>2, <1>3 DEF AfOuts
<1>5. /\ AfYielded(k).gfx = 0 /\ AfYielded(k).done = 0 /\ AfYielded(k).over = 0
      /\ AfYielded(k).span = 0 /\ AfYielded(k).sv = 0
  BY <1>3 DEF Silent
<1>6. QED
  BY <1>4, <1>5

LEMMA SilentIs == Silent = AfYielded("silent")
<1>1. Silent \in AfOuts /\ Silent.kind = "silent"
  BY DEF Silent, AfOuts, MaxCount, MaxAge
<1>2. QED
  BY <1>1 DEF AfYielded, AfOuts

LEMMA FpsStart == AfInit => AfInv
<1> SUFFICES ASSUME AfInit PROVE AfInv
  OBVIOUS
<1>1. /\ afPhase = "running" /\ afCount \in {-1, 0} /\ afNew = [l \in Layers |-> 0]
      /\ afLast = [count |-> -1, ago |-> 0] /\ afFirst = TRUE /\ afOut = AfYielded("silent")
      /\ afRendered = 0 /\ afSpan = 0 /\ afAge = [l \in Layers |-> 0] /\ afMissed = FALSE
  BY SilentIs DEF AfInit, NoLast
<1>2. AfTypeOK
  <2>1. afOut \in AfOuts
    BY <1>1, YieldedIs
  <2>2. /\ afCount \in -1..2 /\ afNew \in [Layers -> 0..2]
        /\ afLast \in [count : -1..2, ago : 0..2]
        /\ afRendered \in 0..2 /\ afSpan \in 0..2 /\ afAge \in [Layers -> 0..2]
    BY <1>1
  <2>3. QED
    BY <1>1, <2>1, <2>2 DEF AfTypeOK, AfOuts, MaxCount, MaxAge
<1>3. FramesKnown
  BY <1>1 DEF FramesKnown
<1>4. LastTick
  BY <1>1, YieldedIs DEF LastTick
<1>5. QED
  BY <1>2, <1>3, <1>4 DEF AfInv

LEMMA FrameCounts == ASSUME AfInv, AfFrame \/ AfLayerFrame \/ AfProcess PROVE AfInv'
<1>1. AfTypeOK /\ FramesKnown
  BY DEF AfInv
<1>2. UNCHANGED <<afPhase, afLast, afFirst, afOut, afSpan, afAge, afMissed>>
  BY DEF AfFrame, AfLayerFrame, AfProcess, AfSampler
<1>3. /\ afCount \in -1..2 /\ afRendered \in 0..2 /\ afLast.count \in -1..2
      /\ afNew \in [Layers -> 0..2]
  BY <1>1 DEF AfTypeOK, MaxCount
<1>4. /\ afCount' \in -1..2 /\ afRendered' \in 0..2 /\ afNew' \in [Layers -> 0..2]
      /\ afLast.count # -1 /\ afCount' # -1 => afCount' <= afLast.count + afRendered'
  <2>1. CASE AfFrame
    <3>1. /\ afCount' = afCount + 1 /\ afCount \in 0..1 /\ afNew' = afNew
          /\ afRendered' = IF afRendered + 1 < 2 THEN afRendered + 1 ELSE 2
      BY <2>1 DEF AfFrame, MaxCount, Capped
    <3>2. QED
      BY <1>1, <1>3, <3>1 DEF FramesKnown
  <2>2. CASE AfLayerFrame
    <3>1. PICK l \in Layers : afNew[l] < 2 /\ afNew' = [afNew EXCEPT ![l] = @ + 1]
      BY <2>2 DEF AfLayerFrame, MaxCount
    <3>2. afNew' \in [Layers -> 0..2]
      <4>1. afNew[l] + 1 \in 0..2
        BY <1>3, <3>1
      <4>2. QED
        BY <1>3, <3>1, <4>1
    <3>3. QED
      BY <1>1, <1>3, <2>2, <3>2 DEF AfLayerFrame, FramesKnown
  <2>3. CASE AfProcess
    <3>1. afCount' \in {-1, 0} /\ UNCHANGED <<afNew, afRendered>>
      BY <2>3 DEF AfProcess
    <3>2. QED
      BY <1>3, <3>1
  <2>4. QED
    BY <2>1, <2>2, <2>3
<1>5. AfTypeOK'
  BY <1>1, <1>2, <1>4 DEF AfTypeOK, MaxCount
<1>6. FramesKnown' /\ LastTick'
  BY <1>1, <1>2, <1>4 DEF AfInv, FramesKnown, LastTick
<1>7. QED
  BY <1>5, <1>6 DEF AfInv

\* The ages of the layers a tick later.
LEMMA ClockedIs ==
    ASSUME afAge \in [Layers -> 0..2]
    PROVE  /\ Clocked \in [Layers -> 0..2]
           /\ \A l \in Layers : afAge[l] = 0 => Clocked[l] = 1
<1>1. \A l \in Layers : Clocked[l] = IF afAge[l] + 1 < 2 THEN afAge[l] + 1 ELSE 2
  BY DEF Clocked, Capped, MaxAge
<1>2. \A l \in Layers : Clocked[l] \in 0..2
  BY <1>1
<1>3. Clocked = [l \in Layers |-> Clocked[l]]
  BY DEF Clocked
<1>4. QED
  BY <1>1, <1>2, <1>3

\* A tick that compares nothing leaves the reading, which grows older.
LEMMA NotComparedKeeps ==
    ASSUME AfTypeOK, FramesKnown, WithinAge, NotCompared
    PROVE  /\ afLast' \in [count : -1..2, ago : 0..2] /\ afSpan' \in 0..2
           /\ afLast'.ago = afSpan' /\ afLast'.count = afLast.count
           /\ afRendered' = afRendered
<1>1. afLast \in [count : -1..2, ago : 0..2] /\ afSpan \in 0..2 /\ afLast.ago = afSpan
  BY DEF AfTypeOK, FramesKnown, MaxCount, MaxAge
<1>2. afSpan < 2
  BY DEF WithinAge, MaxAge
<1>3. CASE afLast.count = -1
  BY <1>1, <1>3 DEF NotCompared
<1>4. CASE afLast.count # -1
  <2>1. /\ afLast' = [afLast EXCEPT !.ago = @ + 1] /\ afSpan' = afSpan + 1
        /\ afRendered' = afRendered
    BY <1>4 DEF NotCompared, Older
  <2>2. afLast.ago + 1 \in 0..2
    BY <1>1, <1>2
  <2>3. QED
    BY <1>1, <1>2, <2>1, <2>2
<1>5. QED
  BY <1>3, <1>4

LEMMA GfxFailureCounts == ASSUME AfInv, AfGfxFails PROVE AfInv'
<1>1. AfTypeOK /\ FramesKnown
  BY DEF AfInv
<1>2. /\ afFirst' = FALSE /\ afMissed' = TRUE /\ afAge' = Clocked /\ NotCompared /\ WithinAge
      /\ UNCHANGED <<afCount, afNew>> /\ afPhase' \in {"running", "ended"}
  BY DEF AfGfxFails, afDevice
<1>3. PICK k \in {"error", "fatal"} : afOut' = AfYielded(k)
  BY DEF AfGfxFails
<1>4. /\ afLast' \in [count : -1..2, ago : 0..2] /\ afSpan' \in 0..2
      /\ afLast'.ago = afSpan' /\ afLast'.count = afLast.count
      /\ afRendered' = afRendered
  BY <1>1, <1>2, NotComparedKeeps
<1>5. Clocked \in [Layers -> 0..2]
  BY <1>1, ClockedIs DEF AfTypeOK, MaxAge
<1>6. AfTypeOK'
  BY <1>1, <1>2, <1>3, <1>4, <1>5, YieldedIs DEF AfTypeOK, AfOuts, MaxCount, MaxAge
<1>7. FramesKnown'
  BY <1>1, <1>2, <1>4 DEF FramesKnown
<1>8. LastTick'
  BY <1>3, YieldedIs DEF LastTick
<1>9. QED
  BY <1>6, <1>7, <1>8 DEF AfInv

LEMMA TickCounts == ASSUME AfInv, AfTick PROVE AfInv'
<1>1. AfTypeOK /\ FramesKnown
  BY DEF AfInv
<1>2. /\ afCount \in -1..2 /\ afNew \in [Layers -> 0..2]
      /\ afLast \in [count : -1..2, ago : 0..2] /\ afLast.count \in -1..2 /\ afLast.ago \in 0..2
      /\ afRendered \in 0..2
      /\ afSpan \in 0..2 /\ afAge \in [Layers -> 0..2] /\ afMissed \in BOOLEAN
      /\ afLast.ago = afSpan
      /\ afLast.count # -1 /\ afCount # -1 => afCount <= afLast.count + afRendered
      /\ ~afMissed => \A l \in Layers : afAge[l] = 0
  BY <1>1 DEF AfTypeOK, FramesKnown, MaxCount, MaxAge
<1>3. PICK read \in SUBSET Layers, best \in Layers \cup {"none"} :
        /\ SvPass(read, best)
        /\ afNew' = [l \in Layers |-> IF l \in Reads(read) THEN 0 ELSE afNew[l]]
        /\ afAge' = [l \in Layers |-> IF l \in Reads(read) THEN 0 ELSE Clocked[l]]
        /\ afMissed' = (read # Layers)
        /\ Report(best)
  BY DEF AfTick
<1>4. /\ afFirst' = FALSE /\ afPhase' = afPhase /\ afCount' = afCount
      /\ afSpan < 2
  BY DEF AfTick, WithinAge, MaxAge
<1>5. /\ Clocked \in [Layers -> 0..2]
      /\ \A l \in Layers : afAge[l] = 0 => Clocked[l] = 1
  BY <1>2, ClockedIs
<1>6. afNew' \in [Layers -> 0..2] /\ afAge' \in [Layers -> 0..2] /\ afMissed' \in BOOLEAN
  BY <1>2, <1>3, <1>5
<1>7. ~afMissed' => \A l \in Layers : afAge'[l] = 0
  BY <1>3 DEF Reads
<1>8. \/ /\ afOut' \in {AfYielded("zero")} /\ NotCompared /\ afCount = -1
      \/ /\ afOut' = AfYielded("silent") /\ Seeds /\ afCount # -1
      \/ /\ afLast.count # -1 /\ afCount >= afLast.count
         /\ afOut' = [kind |-> "rates", gfx |-> afCount - afLast.count, over |-> afLast.ago + 1,
                      sv |-> SvRate(best), done |-> afRendered, span |-> afSpan + 1,
                      missed |-> afMissed,
                      age |-> IF SvRate(best) = 0 THEN 0 ELSE Clocked[best]]
         /\ Seeds
  BY <1>3, SilentIs DEF Report
<1>9. /\ SvRate(best) \in 0..2
      /\ SvRate(best) # 0 => best \in Layers
  BY <1>2, <1>3 DEF SvRate
<1>10. afOut' \in AfOuts /\ LastTick'
  <2>1. CASE \E k \in {"zero", "silent"} : afOut' = AfYielded(k)
    <3>1. PICK k \in {"zero", "silent"} : afOut' = AfYielded(k)
      BY <2>1
    <3>2. QED
      BY <3>1, YieldedIs DEF LastTick
  <2>2. CASE /\ afLast.count # -1 /\ afCount >= afLast.count
             /\ afOut' = [kind |-> "rates", gfx |-> afCount - afLast.count, over |-> afLast.ago + 1,
                          sv |-> SvRate(best), done |-> afRendered, span |-> afSpan + 1,
                          missed |-> afMissed,
                          age |-> IF SvRate(best) = 0 THEN 0 ELSE Clocked[best]]
    <3>1. /\ afCount - afLast.count \in 0..afRendered /\ afCount - afLast.count \in 0..2
          /\ afLast.ago + 1 = afSpan + 1 /\ afSpan + 1 \in 0..2
      BY <1>2, <1>4, <2>2
    <3>2. /\ (IF SvRate(best) = 0 THEN 0 ELSE Clocked[best]) \in 0..2
          /\ SvRate(best) > 0 =>
                (IF SvRate(best) = 0 THEN 0 ELSE Clocked[best]) = 1 \/ afMissed
      BY <1>2, <1>5, <1>9
    <3>3. /\ afOut'.gfx = afCount - afLast.count /\ afOut'.over = afLast.ago + 1
          /\ afOut'.sv = SvRate(best) /\ afOut'.done = afRendered /\ afOut'.span = afSpan + 1
          /\ afOut'.missed = afMissed
          /\ afOut'.age = IF SvRate(best) = 0 THEN 0 ELSE Clocked[best]
      BY <2>2
    <3>4. LastTick'
      BY <3>1, <3>2, <3>3 DEF LastTick
    <3>5. afOut' \in AfOuts
      BY <1>2, <1>9, <2>2, <3>1, <3>2 DEF AfOuts, MaxCount, MaxAge
    <3>6. QED
      BY <3>4, <3>5
  <2>3. QED
    BY <1>8, <2>1, <2>2
<1>11. /\ afLast' \in [count : -1..2, ago : 0..2] /\ afSpan' \in 0..2 /\ afRendered' \in 0..2
       /\ afLast'.ago = afSpan'
       /\ afLast'.count # -1 /\ afCount' # -1 => afCount' <= afLast'.count + afRendered'
  <2>1. CASE Seeds
    <3>1. afLast' = [count |-> afCount, ago |-> 0] /\ afSpan' = 0 /\ afRendered' = 0
      BY <2>1 DEF Seeds
    <3>2. QED
      BY <1>2, <1>4, <3>1
  <2>2. CASE NotCompared /\ afCount = -1
    <3>1. WithinAge
      BY DEF AfTick
    <3>2. QED
      BY <1>1, <1>2, <1>4, <2>2, <3>1, NotComparedKeeps
  <2>3. QED
    BY <1>8, <2>1, <2>2
<1>12. AfTypeOK'
  BY <1>1, <1>4, <1>6, <1>10, <1>11 DEF AfTypeOK, AfOuts, MaxCount, MaxAge
<1>13. FramesKnown'
  BY <1>7, <1>11 DEF FramesKnown
<1>14. QED
  BY <1>10, <1>12, <1>13 DEF AfInv

LEMMA FpsStep == AfInv /\ [AfNext]_afVars => AfInv'
<1>1. ASSUME AfInv, UNCHANGED afVars PROVE AfInv'
  BY <1>1 DEF afVars, afDevice, AfInv, AfTypeOK, FramesKnown, LastTick
<1>2. QED
  BY <1>1, FrameCounts, GfxFailureCounts, TickCounts DEF AfNext

\* The frames and the time a rate is made of are those of one span.
THEOREM FpsInvariance == AfSpec => []AfInv
<1>1. QED
  BY FpsStart, FpsStep, PTL DEF AfSpec

\* gfxinfo frames are divided by the time they were rendered in, and
\* SurfaceView frames by the tick they were read in (android/src/fps.rs:198-250).
THEOREM RatesAreHonest == AfSpec => [](GfxRateHonest /\ SvRateHonest)
<1>1. AfInv => GfxRateHonest /\ SvRateHonest
  BY DEF AfInv, LastTick, GfxRateHonest, SvRateHonest
<1>2. QED
  BY <1>1, FpsInvariance, PTL

-----------------------------------------------------------------------------
(***************************************************************************)
(* Probes: strikes count answers that said nothing, errors count trips.    *)
(***************************************************************************)

Limit == IF prKind = "gpu" THEN GpuEmptyLimit ELSE ThermalLimit

\* What a sampler counts is what happened to it since its last good answer.
CountsKnown ==
    /\ prKind \in {"gpu", "temperature"} /\ prPhase # "ended" =>
          prStrikes = prUnread /\ prStrikes < Limit
    /\ prKind = "graphics" /\ prPhase # "ended" =>
          prErrors = prFailed /\ prErrors < GraphicsErrorLimit
    /\ prPhase = "start" => prStrikes = 0 /\ prErrors = 0 /\ prUnread = 0 /\ prFailed = 0

PrInv == PrTypeOK /\ CountsKnown

LEMMA ProbesStart == PrInit => PrInv
<1>1. QED
  BY DEF PrInit, PrInv, PrTypeOK, CountsKnown, Limit, GpuEmptyLimit, ThermalLimit,
         GraphicsErrorLimit

LEMMA PickIsSource ==
    ASSUME NEW listed \in SUBSET SourceNames, listed # {}
    PROVE  PickSource(listed) \in SourceNames
<1>1. /\ DOMAIN Sources = 1..4
      /\ Sources[1] = "kgsl" /\ Sources[2] = "devfreq" /\ Sources[3] = "busy"
      /\ Sources[4] = "utilization"
  BY DEF Sources
<1>2. \E i \in 1..4 : Sources[i] \in listed /\ \A j \in 1..i - 1 : Sources[j] \notin listed
  <2>1. CASE "kgsl" \in listed
    BY <1>1, <2>1
  <2>2. CASE "kgsl" \notin listed /\ "devfreq" \in listed
    <3>1. \A j \in 1..2 - 1 : j = 1
      OBVIOUS
    <3>2. QED
      BY <1>1, <2>2, <3>1
  <2>3. CASE "kgsl" \notin listed /\ "devfreq" \notin listed /\ "busy" \in listed
    <3>1. \A j \in 1..3 - 1 : j = 1 \/ j = 2
      OBVIOUS
    <3>2. QED
      BY <1>1, <2>3, <3>1
  <2>4. CASE "kgsl" \notin listed /\ "devfreq" \notin listed /\ "busy" \notin listed
    <3>1. \A j \in 1..4 - 1 : j = 1 \/ j = 2 \/ j = 3
      OBVIOUS
    <3>2. "utilization" \in listed
      BY <2>4 DEF SourceNames
    <3>3. QED
      BY <1>1, <2>4, <3>1, <3>2
  <2>5. QED
    BY <2>1, <2>2, <2>3, <2>4
<1>3. PICK i \in 1..4 : PickSource(listed) = Sources[i] /\ Sources[i] \in listed
  BY <1>1, <1>2 DEF PickSource
<1>4. QED
  BY <1>3

\* What an answer does to the strikes, and when it ends the sampler.
LEMMA StruckIs ==
    ASSUME PrInv, prKind \in {"gpu", "temperature"}, prPhase = "running",
           NEW says \in {"value", "zero", "nothing"}, Answered(says), Struck(says, Limit),
           prKind' = prKind
    PROVE  /\ prStrikes' \in 0..5 /\ prUnread' \in 0..5 /\ prFailed' \in 0..5
           /\ prStrikes' = prUnread' /\ prPhase' \in {"running", "ended"}
           /\ prTrip' = "answered"
           /\ prOut' \in {"nothing", "value", "zero"}
           /\ prPhase' = "running" => prStrikes' < Limit
           /\ prPhase' = "ended" => prUnread' = Limit
<1>1. /\ prStrikes \in 0..5 /\ prStrikes = prUnread /\ prStrikes < Limit
      /\ Limit = IF prKind = "gpu" THEN 5 ELSE 3
  BY DEF PrInv, PrTypeOK, CountsKnown, Limit, GpuEmptyLimit, ThermalLimit
<1>2. /\ prUnread' = IF says = "nothing" THEN (IF prUnread < 5 THEN prUnread + 1 ELSE 5) ELSE 0
      /\ prFailed' = 0 /\ prTrip' = "answered"
  BY DEF Answered, UpToFive
<1>3. CASE says # "nothing"
  BY <1>1, <1>2, <1>3 DEF Struck
<1>4. CASE says = "nothing"
  <2>1. prStrikes' = prStrikes + 1 /\ prOut' = "nothing"
    BY <1>4 DEF Struck, EndsQuiet
  <2>2. prPhase' = IF prStrikes' = Limit THEN "ended" ELSE "running"
    BY <1>4 DEF Struck, EndsQuiet
  <2>3. QED
    BY <1>1, <1>2, <1>4, <2>1, <2>2
<1>5. QED
  BY <1>3, <1>4

LEMMA AnswersCount ==
    ASSUME PrInv, PrGpuAnswers \/ PrTemperatureAnswers
    PROVE  /\ PrInv'
           /\ prPhase' = "ended" => prUnread' = Limit /\ prKind \in {"gpu", "temperature"}
<1>1. /\ prKind \in {"gpu", "temperature"} /\ prPhase = "running"
      /\ UNCHANGED <<prKind, prSource, prErrors, prPlugged, prAllowed>>
  BY DEF PrGpuAnswers, PrTemperatureAnswers
<1>2. PICK says \in {"value", "zero", "nothing"} : Answered(says) /\ Struck(says, Limit)
  BY DEF PrGpuAnswers, PrTemperatureAnswers, Says, Limit
<1>3. /\ prStrikes' \in 0..5 /\ prUnread' \in 0..5 /\ prFailed' \in 0..5
      /\ prStrikes' = prUnread' /\ prPhase' \in {"running", "ended"}
      /\ prTrip' = "answered"
      /\ prOut' \in {"nothing", "value", "zero"}
      /\ prPhase' = "running" => prStrikes' < Limit
      /\ prPhase' = "ended" => prUnread' = Limit
  BY <1>1, <1>2, StruckIs
<1>4. PrTypeOK'
  BY <1>1, <1>3 DEF PrInv, PrTypeOK, GpuEmptyLimit, GraphicsErrorLimit
<1>5. CountsKnown'
  BY <1>1, <1>3 DEF CountsKnown, Limit
<1>6. QED
  BY <1>1, <1>3, <1>4, <1>5 DEF PrInv

LEMMA StartsCount ==
    ASSUME PrInv, PrGpuStart \/ PrStart \/ PrGraphicsStart \/ PrPullCable
    PROVE  PrInv'
<1>1. PrTypeOK /\ CountsKnown
  BY DEF PrInv
<1>2. UNCHANGED <<prKind, prStrikes, prErrors, prAllowed, prUnread, prFailed, prTrip>>
  BY DEF PrGpuStart, PrStart, PrGraphicsStart, PrPullCable, prGhost, prSampler
<1>3. /\ prPhase' \in {"start", "running", "ended"} /\ prPlugged' \in BOOLEAN
      /\ prOut' \in {"nothing", "value", "zero", "error", "fatal"}
      /\ prPhase' = "start" => prPhase = "start"
      /\ prPhase' # "ended" => prPhase # "ended"
  BY <1>1 DEF PrTypeOK, PrGpuStart, PrStart, PrGraphicsStart, PrPullCable, prSampler,
              EndsQuiet, EndsLoud
<1>4. prSource' \in SourceNames \cup {"none"}
  <2>1. CASE PrGpuStart
    <3>1. \/ prSource' = prSource
          \/ \E listed \in (SUBSET SourceNames) \ {{}} : prSource' = PickSource(listed)
      BY <2>1 DEF PrGpuStart
    <3>2. \A listed \in (SUBSET SourceNames) \ {{}} : PickSource(listed) \in SourceNames
      BY PickIsSource
    <3>3. QED
      BY <1>1, <3>1, <3>2 DEF PrTypeOK
  <2>2. CASE PrStart \/ PrGraphicsStart \/ PrPullCable
    BY <1>1, <2>2 DEF PrTypeOK, PrStart, PrGraphicsStart, PrPullCable, prSampler
  <2>3. QED
    BY <2>1, <2>2
<1>5. PrTypeOK'
  BY <1>1, <1>2, <1>3, <1>4 DEF PrTypeOK
<1>6. CountsKnown'
  BY <1>1, <1>2, <1>3 DEF CountsKnown, Limit
<1>7. QED
  BY <1>5, <1>6 DEF PrInv

LEMMA PlainAnswersCount == ASSUME PrInv, PrBatteryAnswers \/ PrMemoryAnswers PROVE PrInv'
<1>1. PICK says \in {"value", "zero", "nothing"} : Answered(says) /\ prOut' = says
  BY DEF PrBatteryAnswers, PrMemoryAnswers
<1>2. /\ prKind \in {"battery", "memory"} /\ prPhase = "running"
      /\ UNCHANGED <<prKind, prPhase, prSource, prStrikes, prErrors, prPlugged, prAllowed>>
  BY DEF PrBatteryAnswers, PrMemoryAnswers
<1>3. prUnread' \in 0..5 /\ prFailed' \in 0..5 /\ prTrip' = "answered"
  BY <1>1 DEF PrInv, PrTypeOK, Answered, UpToFive
<1>4. PrTypeOK'
  BY <1>1, <1>2, <1>3 DEF PrInv, PrTypeOK
<1>5. CountsKnown'
  BY <1>2 DEF CountsKnown
<1>6. QED
  BY <1>4, <1>5 DEF PrInv

\* A trip that failed ends these only by an error that cannot pass.
LEMMA FailuresCount ==
    ASSUME PrInv, PrSkips \/ PrMemoryFails
    PROVE  /\ PrInv'
           /\ prPhase' = "ended" => prKind # "graphics" /\ prTrip' \in {"gone", "fatal"}
<1>1. PrTypeOK /\ CountsKnown
  BY DEF PrInv
<1>2. /\ prKind \in {"gpu", "temperature", "battery", "memory"} /\ prPhase = "running"
      /\ UNCHANGED <<prKind, prSource, prStrikes, prErrors, prPlugged, prAllowed, prUnread>>
      /\ prFailed' = UpToFive(prFailed)
      /\ prTrip' \in {"transient", "gone", "fatal"}
  BY DEF PrSkips, PrMemoryFails, Skipped, StrikesAfterFailure, TripFailed, Failures
<1>3. PICK failure \in Failures :
         /\ prPhase' \in {"running", "ended"} /\ prOut' \in {"nothing", "error", "fatal"}
         /\ prPhase' = "ended" => failure # "transient"
         /\ prTrip' = failure
  BY <1>2 DEF PrSkips, PrMemoryFails, Skipped, EndsOn, EndsLoud, TripFailed
<1>4. failure # "transient" => failure \in {"gone", "fatal"}
  BY <1>3 DEF Failures
<1>5. prFailed' \in 0..5
  BY <1>1, <1>2 DEF PrTypeOK, UpToFive
<1>6. PrTypeOK'
  BY <1>1, <1>2, <1>3, <1>5 DEF PrTypeOK
<1>7. CountsKnown'
  BY <1>1, <1>2, <1>3 DEF CountsKnown, Limit
<1>8. QED
  BY <1>2, <1>3, <1>4, <1>6, <1>7 DEF PrInv

LEMMA GraphicsCounts ==
    ASSUME PrInv, PrGraphicsPush \/ PrGraphicsFails
    PROVE  /\ PrInv'
           /\ prPhase' = "ended" => prKind = "graphics" /\ prFailed' = GraphicsErrorLimit
<1>1. /\ prErrors \in 0..5 /\ prErrors = prFailed /\ prErrors < 5 /\ prUnread \in 0..5
      /\ prKind = "graphics" /\ prPhase = "running"
  BY DEF PrInv, PrTypeOK, CountsKnown, PrGraphicsPush, PrGraphicsFails, GraphicsErrorLimit
<1>2. UNCHANGED <<prKind, prSource, prStrikes, prPlugged, prAllowed>>
  BY DEF PrGraphicsPush, PrGraphicsFails
<1>3. /\ prErrors' = prFailed' /\ prErrors' \in 0..5 /\ prUnread' \in 0..5
      /\ prPhase' = (IF prErrors' >= 5 THEN "ended" ELSE "running")
      /\ prOut' \in {"nothing", "value", "zero", "error", "fatal"}
      /\ prTrip' \in {"answered", "transient"}
  <2>1. CASE PrGraphicsPush
    BY <1>1, <2>1 DEF PrGraphicsPush, Answered
  <2>2. CASE PrGraphicsFails
    BY <1>1, <2>2 DEF PrGraphicsFails, TripFailed, UpToFive, GraphicsErrorLimit, EndsLoud
  <2>3. QED
    BY <2>1, <2>2
<1>4. PrTypeOK'
  BY <1>2, <1>3 DEF PrInv, PrTypeOK, GraphicsErrorLimit
<1>5. CountsKnown'
  BY <1>1, <1>2, <1>3 DEF CountsKnown, GraphicsErrorLimit
<1>6. prPhase' = "ended" => prFailed' = 5
  BY <1>3
<1>7. QED
  BY <1>1, <1>4, <1>5, <1>6 DEF PrInv, GraphicsErrorLimit

LEMMA ProbesStep == PrInv /\ [PrNext]_prVars => PrInv'
<1>1. ASSUME PrInv, UNCHANGED prVars PROVE PrInv'
  BY <1>1 DEF prVars, prSampler, prGhost, PrInv, PrTypeOK, CountsKnown, Limit
<1>2. QED
  BY <1>1, AnswersCount, StartsCount, PlainAnswersCount, FailuresCount, GraphicsCounts DEF PrNext

\* What each sampler counts is what happened since its last good answer.
THEOREM ProbesInvariance == PrSpec => []PrInv
<1>1. QED
  BY ProbesStart, ProbesStep, PTL DEF PrSpec

\* A sampler that ran ends for its own reason only (android/src/gpu.rs:140-180,
\* temperature.rs:84-113, ios/src/graphics.rs:128-196).
THEOREM ProbesEndForCause == PrSpec => EndsForCause
<1>1. ASSUME PrInv, PrNext, prPhase = "running", prPhase' = "ended"
      PROVE  \/ prKind = "gpu" /\ prUnread' = GpuEmptyLimit
             \/ prKind = "temperature" /\ prUnread' >= ThermalLimit
             \/ prKind = "graphics" /\ prFailed' = GraphicsErrorLimit
             \/ prKind # "graphics" /\ prTrip' \in {"gone", "fatal"}
  <2>1. CASE PrGpuAnswers \/ PrTemperatureAnswers
    <3>1. prUnread' = Limit /\ prKind \in {"gpu", "temperature"}
      BY <1>1, <2>1, AnswersCount
    <3>2. QED
      BY <3>1 DEF Limit, ThermalLimit, GpuEmptyLimit
  <2>2. CASE PrSkips \/ PrMemoryFails
    BY <1>1, <2>2, FailuresCount
  <2>3. CASE PrGraphicsPush \/ PrGraphicsFails
    BY <1>1, <2>3, GraphicsCounts
  <2>4. CASE PrGpuStart \/ PrStart \/ PrGraphicsStart \/ PrPullCable \/ PrBatteryAnswers
             \/ PrMemoryAnswers
    BY <1>1, <2>4 DEF PrGpuStart, PrStart, PrGraphicsStart, PrPullCable, PrBatteryAnswers,
                      PrMemoryAnswers, prSampler
  <2>5. QED
    BY <1>1, <2>1, <2>2, <2>3, <2>4 DEF PrNext
<1>2. PrInv /\ [PrNext]_prVars =>
        [prPhase = "running" /\ prPhase' = "ended" =>
           \/ prKind = "gpu" /\ prUnread' = GpuEmptyLimit
           \/ prKind = "temperature" /\ prUnread' >= ThermalLimit
           \/ prKind = "graphics" /\ prFailed' = GraphicsErrorLimit
           \/ prKind # "graphics" /\ prTrip' \in {"gone", "fatal"}]_prVars
  BY <1>1
<1>3. QED
  BY <1>2, ProbesInvariance, PTL DEF PrSpec, EndsForCause

-----------------------------------------------------------------------------
(***************************************************************************)
(* DeviceNames: the cache and the listings under way agree with the phone, *)
(* for any number of overlapping listings and any time to live.            *)
(***************************************************************************)

ShownNames == Names \union {NoName}
NameRows == [transport : Transports, model : ShownNames]
CallSteps == {"idle", "rows", "asking", "answered", "returned"}
NameCalls == [step : CallSteps, left : Seq(Transports), known : ShownNames \union {Unasked},
          stale : 0..Long, rows : Seq(NameRows)]

DnTypes ==
    /\ dnName \in Names
    /\ dnGone \in [Names -> 0..Long]
    /\ dnCache \in [name : ShownNames, age : 0..Long]
    /\ dnCall \in [Callers -> NameCalls]

\* What the cache holds was the phone's name no longer ago than the entry is
\* old; the name of the moment has not gone.
CacheInv ==
    /\ dnCache.name # NoName => dnGone[dnCache.name] <= dnCache.age
    /\ dnGone[dnName] = 0

\* A call shows in all its rows the name it has settled on.
OneName(call) ==
    /\ call.stale < TTL
    /\ call.known = Unasked => call.rows = <<>>
    /\ \A i \in 1..Len(call.rows) : call.rows[i].model = call.known
    /\ call.step = "asking" => call.known = Unasked /\ call.left # <<>>

\* An answer not yet in the cache is of this moment.
Recent(call) ==
    call.step = "answered" =>
        call.rows # <<>> /\ call.known \in Names /\ dnGone[call.known] = 0

\* The inductive invariant.
DInv ==
    /\ DnTypes /\ CacheInv
    /\ \A c \in Callers : OneName(dnCall[c]) /\ Recent(dnCall[c])

-----------------------------------------------------------------------------
LEMMA LongIsNat == Long \in Nat /\ TTL < Long /\ 0 < TTL
<1>1. QED
  BY TTLAssumption DEF Long

\* A row is added under the name it is given.
LEMMA RowAdded ==
    ASSUME NEW call \in NameCalls, call.left # <<>>, NEW n \in ShownNames,
           call.stale < TTL,
           call.rows = <<>> \/ \A i \in 1..Len(call.rows) : call.rows[i].model = n
    PROVE  /\ WithRow(call, n) \in NameCalls
           /\ WithRow(call, n).known = n
           /\ WithRow(call, n).rows # <<>>
           /\ WithRow(call, n).step = "rows"
           /\ OneName(WithRow(call, n))
<1> DEFINE line == [transport |-> Head(call.left), model |-> n]
           new == WithRow(call, n)
<1>1. line \in NameRows
  BY HeadTailProperties DEF NameRows, NameCalls
<1>2. /\ call.left \in Seq(Transports) /\ call.rows \in Seq(NameRows)
      /\ Tail(call.left) \in Seq(Transports)
  BY HeadTailProperties DEF NameCalls
<1>3. /\ Append(call.rows, line) \in Seq(NameRows)
      /\ Len(Append(call.rows, line)) = Len(call.rows) + 1
      /\ Append(call.rows, line)[Len(call.rows) + 1] = line
      /\ \A i \in 1..Len(call.rows) : Append(call.rows, line)[i] = call.rows[i]
  BY <1>1, <1>2, AppendProperties
<1>4. new = [call EXCEPT !.step = "rows", !.left = Tail(call.left), !.known = n,
                         !.rows = Append(call.rows, line)]
  BY DEF WithRow, Remembered
<1>5. /\ new.step = "rows" /\ new.known = n /\ new.stale = call.stale
      /\ new.rows = Append(call.rows, line) /\ new.left = Tail(call.left)
  BY <1>4 DEF NameCalls
<1>6. new \in NameCalls
  BY <1>2, <1>3, <1>4 DEF NameCalls, CallSteps
<1>7. n # Unasked
  BY DEF ShownNames, Names, NoName, Unasked
<1>8. \A i \in 1..Len(new.rows) : new.rows[i].model = n
  <2>1. SUFFICES ASSUME NEW i \in 1..Len(new.rows)
                 PROVE  Append(call.rows, line)[i].model = n
    BY <1>5
  <2>2. Len(call.rows) \in Nat
    BY <1>2, LenProperties
  <2>3. CASE i = Len(call.rows) + 1
    BY <1>3, <2>3
  <2>4. CASE i # Len(call.rows) + 1
    <3>1. i \in 1..Len(call.rows)
      BY <1>3, <1>5, <2>2, <2>4
    <3>2. call.rows # <<>>
      BY <3>1
    <3>3. QED
      BY <1>3, <3>1, <3>2
  <2>5. QED
    BY <2>3, <2>4
<1>9. new.rows # <<>>
  BY <1>3, <1>5, <1>2, LenProperties
<1>10. OneName(new)
  BY <1>5, <1>7, <1>8 DEF OneName
<1>11. QED
  BY <1>5, <1>6, <1>9, <1>10

\* The rows of a call change places, nothing else.
LEMMA SortingKeepsNames ==
    ASSUME NEW call \in NameCalls, OneName(call)
    PROVE  /\ Sorted(call.rows) \in Seq(NameRows)
           /\ call.rows = <<>> => Sorted(call.rows) = <<>>
           /\ \A i \in 1..Len(Sorted(call.rows)) :
                 Sorted(call.rows)[i].model = call.known
<1>1. call.rows \in Seq(NameRows)
  BY DEF NameCalls
<1>2. CASE Len(call.rows) = 2
  <2>1. call.rows[1] \in NameRows /\ call.rows[2] \in NameRows
    BY <1>1, <1>2, ElementOfSeq
  <2>2. call.rows[1].model = call.known /\ call.rows[2].model = call.known
    BY <1>2 DEF OneName
  <2>3. call.rows # <<>>
    BY <1>2
  <2>4. <<call.rows[2], call.rows[1]>> \in Seq(NameRows)
    BY <2>1
  <2>5. QED
    BY <1>1, <2>2, <2>3, <2>4 DEF Sorted, OneName
<1>3. CASE Len(call.rows) # 2
  BY <1>1, <1>3 DEF Sorted, OneName
<1>4. QED
  BY <1>2, <1>3

\* What a step of one call must establish.
LEMMA CallStep ==
    ASSUME DInv, NEW c \in Callers, NEW new \in NameCalls,
           dnCall' = [dnCall EXCEPT ![c] = new],
           dnName' = dnName, dnGone' = dnGone, dnCache' = dnCache,
           OneName(new),
           new.step = "answered" =>
               new.rows # <<>> /\ new.known \in Names /\ dnGone[new.known] = 0
    PROVE  DInv'
<1>1. DnTypes'
  BY DEF DInv, DnTypes
<1>2. CacheInv'
  BY DEF DInv, CacheInv
<1>3. ASSUME NEW d \in Callers
      PROVE  OneName(dnCall[d])' /\ Recent(dnCall[d])'
  <2>1. CASE d = c
    <3>1. dnCall'[d] = new
      BY <2>1 DEF DInv, DnTypes
    <3>2. QED
      BY <3>1 DEF OneName, Recent
  <2>2. CASE d # c
    <3>1. dnCall'[d] = dnCall[d]
      BY <2>2 DEF DInv, DnTypes
    <3>2. OneName(dnCall[d]) /\ Recent(dnCall[d])
      BY DEF DInv
    <3>3. QED
      BY <3>1, <3>2 DEF OneName, Recent
  <2>3. QED
    BY <2>1, <2>2
<1>4. QED
  BY <1>1, <1>2, <1>3 DEF DInv

-----------------------------------------------------------------------------
LEMMA NamesStart == DnInit => DInv
<1>1. SUFFICES ASSUME DnInit PROVE DInv
  OBVIOUS
<1>2. NoCall \in NameCalls
  BY LongIsNat DEF NoCall, NameCalls, CallSteps, ShownNames, Unasked
<1>3. DnTypes
  BY <1>1, <1>2, LongIsNat
     DEF DnInit, DnTypes, Names, ShownNames, NoEntry
<1>4. CacheInv
  BY <1>1 DEF DnInit, CacheInv, NoEntry, Names
<1>5. ASSUME NEW c \in Callers PROVE OneName(dnCall[c]) /\ Recent(dnCall[c])
  <2>1. dnCall[c] = NoCall
    BY <1>1 DEF DnInit
  <2>2. QED
    BY <2>1, LongIsNat DEF OneName, Recent, NoCall
<1>6. QED
  BY <1>3, <1>4, <1>5 DEF DInv

\* Time passes: names go out of date no faster than the cache ages.
LEMMA TickKeeps ==
    ASSUME DInv, DnTick
    PROVE  DInv'
<1>1. /\ dnName' = dnName /\ dnCall' = dnCall
      /\ dnGone' = [n \in Names |-> IF n = dnName \/ dnGone[n] = Long
                                    THEN dnGone[n] ELSE dnGone[n] + 1]
      /\ dnCache' = [dnCache EXCEPT !.age = IF @ = Long THEN @ ELSE @ + 1]
      /\ \A c \in Callers : dnCall[c].step # "answered"
  BY DEF DnTick
<1>2. /\ dnName \in Names /\ dnGone \in [Names -> 0..Long]
      /\ dnCache \in [name : ShownNames, age : 0..Long] /\ dnCall \in [Callers -> NameCalls]
  BY DEF DInv, DnTypes
<1>3. ASSUME NEW n \in Names
      PROVE  /\ dnGone'[n] = IF n = dnName \/ dnGone[n] = Long
                             THEN dnGone[n] ELSE dnGone[n] + 1
             /\ dnGone'[n] \in 0..Long
  BY <1>1, <1>2, LongIsNat
<1>4. /\ dnCache'.name = dnCache.name
      /\ dnCache'.age = IF dnCache.age = Long THEN Long ELSE dnCache.age + 1
      /\ dnCache' \in [name : ShownNames, age : 0..Long]
  BY <1>1, <1>2, LongIsNat
<1>5. DnTypes'
  BY <1>1, <1>2, <1>3, <1>4 DEF DnTypes
<1>6. CacheInv'
  <2>1. dnGone'[dnName'] = 0
    BY <1>1, <1>2, <1>3 DEF DInv, CacheInv
  <2>2. ASSUME dnCache'.name # NoName
        PROVE  dnGone'[dnCache'.name] <= dnCache'.age
    <3>1. dnCache.name \in Names /\ dnGone[dnCache.name] <= dnCache.age
      BY <1>2, <1>4, <2>2 DEF DInv, CacheInv, ShownNames
    <3>2. dnGone[dnCache.name] \in 0..Long /\ dnCache.age \in 0..Long
      BY <1>2, <3>1
    <3>3. dnGone'[dnCache.name] = IF dnCache.name = dnName \/ dnGone[dnCache.name] = Long
                                  THEN dnGone[dnCache.name]
                                  ELSE dnGone[dnCache.name] + 1
      BY <1>3, <3>1
    <3>4. QED
      BY <1>4, <3>1, <3>2, <3>3, LongIsNat
  <2>3. QED
    BY <2>1, <2>2 DEF CacheInv
<1>7. ASSUME NEW c \in Callers
      PROVE  OneName(dnCall[c])' /\ Recent(dnCall[c])'
  BY <1>1 DEF DInv, OneName, Recent
<1>8. QED
  BY <1>5, <1>6, <1>7 DEF DInv

\* The phone is renamed: the old name is of this moment still.
LEMMA RenameKeeps ==
    ASSUME DInv, NEW n \in Names, DnRename(n)
    PROVE  DInv'
<1>1. /\ dnName' = n /\ dnGone' = [dnGone EXCEPT ![n] = 0]
      /\ dnCache' = dnCache /\ dnCall' = dnCall
  BY DEF DnRename
<1>2. /\ dnGone \in [Names -> 0..Long]
      /\ dnCache \in [name : ShownNames, age : 0..Long] /\ dnCall \in [Callers -> NameCalls]
  BY DEF DInv, DnTypes
<1>3. ASSUME NEW m \in Names
      PROVE  dnGone'[m] = IF m = n THEN 0 ELSE dnGone[m]
  BY <1>1, <1>2
<1>4. DnTypes'
  BY <1>1, <1>2, LongIsNat DEF DnTypes
<1>5. CacheInv'
  <2>1. ASSUME dnCache.name # NoName
        PROVE  dnGone'[dnCache.name] <= dnCache.age
    <3>1. dnCache.name \in Names /\ dnGone[dnCache.name] <= dnCache.age
      BY <1>2, <2>1 DEF DInv, CacheInv, ShownNames
    <3>2. dnCache.age \in 0..Long
      BY <1>2
    <3>3. QED
      BY <1>3, <3>1, <3>2, LongIsNat
  <2>2. QED
    BY <1>1, <1>3, <2>1 DEF CacheInv
<1>6. ASSUME NEW c \in Callers
      PROVE  OneName(dnCall[c])' /\ Recent(dnCall[c])'
  <2>1. OneName(dnCall[c]) /\ Recent(dnCall[c])
    BY DEF DInv
  <2>2. QED
    BY <1>1, <1>3, <2>1 DEF OneName, Recent
<1>7. QED
  BY <1>4, <1>5, <1>6 DEF DInv

LEMMA ListingKeeps ==
    ASSUME DInv, NEW c \in Callers,
           \/ DnList(c) \/ DnKnown(c) \/ DnHit(c) \/ DnMiss(c)
           \/ DnAnswer(c) \/ DnRefused(c) \/ DnReturn(c) \/ DnForget(c)
    PROVE  DInv'
<1> DEFINE call == dnCall[c]
<1>1. /\ call \in NameCalls /\ OneName(call)
      /\ dnCall \in [Callers -> NameCalls]
      /\ dnName \in Names /\ dnGone \in [Names -> 0..Long]
      /\ dnCache \in [name : ShownNames, age : 0..Long]
      /\ dnGone[dnName] = 0
  BY DEF DInv, DnTypes, CacheInv
<1>2. /\ call.known \in ShownNames \union {Unasked} /\ call.stale < TTL
      /\ call.known = Unasked => call.rows = <<>>
      /\ \A i \in 1..Len(call.rows) : call.rows[i].model = call.known
      /\ call.step = "asking" => call.known = Unasked /\ call.left # <<>>
  BY <1>1 DEF NameCalls, OneName
<1>3. CASE DnList(c)
  <2>1. PICK l \in Listings :
          dnCall' = [dnCall EXCEPT ![c] = [NoCall EXCEPT !.step = "rows", !.left = l]]
    BY <1>3 DEF DnList
  <2> DEFINE new == [NoCall EXCEPT !.step = "rows", !.left = l]
  <2>2. l \in Seq(Transports)
    <3>1. <<"usb">> \in Seq(Transports) /\ <<"wifi">> \in Seq(Transports)
      BY DEF Transports
    <3>2. <<"usb", "wifi">> \in Seq(Transports) /\ <<"wifi", "usb">> \in Seq(Transports)
      BY DEF Transports
    <3>3. QED
      BY <3>1, <3>2 DEF Listings
  <2>3. NoCall \in NameCalls /\ NoCall.known = Unasked /\ NoCall.stale = 0
        /\ NoCall.rows = <<>>
    <3>1. 0 \in 0..Long /\ <<>> \in Seq(NameRows) /\ <<>> \in Seq(Transports)
      BY LongIsNat
    <3>2. QED
      BY <3>1 DEF NoCall, NameCalls, CallSteps
  <2>4. /\ new \in NameCalls /\ new.step = "rows" /\ new.known = NoCall.known
        /\ new.stale = NoCall.stale /\ new.rows = NoCall.rows
    BY <2>2, <2>3 DEF NameCalls, CallSteps
  <2>5. OneName(new) /\ new.step # "answered"
    <3>1. Len(new.rows) = 0
      BY <2>3, <2>4
    <3>2. 1..Len(new.rows) = {}
      BY <3>1
    <3>3. new.stale < TTL
      BY <2>3, <2>4, LongIsNat
    <3>4. \A i \in 1..Len(new.rows) : new.rows[i].model = new.known
      BY <3>2
    <3>5. QED
      BY <2>3, <2>4, <3>3, <3>4 DEF OneName
  <2>6. dnCall' = [dnCall EXCEPT ![c] = new]
    BY <2>1
  <2>7. QED
    BY <1>3, <2>4, <2>5, <2>6, CallStep DEF DnList
<1>4. CASE DnKnown(c)
  <2> DEFINE new == WithRow(call, call.known)
  <2>1. call.known \in ShownNames /\ call.left # <<>>
    BY <1>2, <1>4 DEF DnKnown
  <2>2. new \in NameCalls /\ OneName(new) /\ new.step = "rows"
    BY <1>1, <1>2, <2>1, RowAdded
  <2>3. dnCall' = [dnCall EXCEPT ![c] = new]
    BY <1>4 DEF DnKnown
  <2>4. QED
    BY <1>4, <2>2, <2>3, CallStep DEF DnKnown
<1>5. CASE DnHit(c)
  <2> DEFINE row == WithRow(call, dnCache.name)
             new == [row EXCEPT !.stale = dnGone[dnCache.name]]
  <2>1. /\ call.left # <<>> /\ call.rows = <<>>
        /\ dnCache.name \in Names /\ dnCache.age < TTL
    BY <1>1, <1>2, <1>5 DEF DnHit, Fresh, ShownNames
  <2>2. dnGone[dnCache.name] < TTL /\ dnGone[dnCache.name] \in 0..Long
    <3>1. dnCache.name # NoName
      BY <1>5 DEF DnHit, Fresh
    <3>2. dnGone[dnCache.name] <= dnCache.age
      BY <3>1 DEF DInv, CacheInv
    <3>3. dnGone[dnCache.name] \in 0..Long /\ dnCache.age \in 0..Long
      BY <1>1, <2>1
    <3>4. QED
      BY <2>1, <3>2, <3>3, LongIsNat, TTLAssumption
  <2>3. row \in NameCalls /\ OneName(row) /\ row.step = "rows"
    BY <1>1, <1>2, <2>1, RowAdded DEF ShownNames
  <2>4. /\ new \in NameCalls /\ new.stale = dnGone[dnCache.name]
        /\ new.step = row.step /\ new.known = row.known
        /\ new.rows = row.rows /\ new.left = row.left
    BY <2>2, <2>3 DEF NameCalls
  <2>5. OneName(new) /\ new.step # "answered"
    BY <2>2, <2>3, <2>4 DEF OneName
  <2>6. dnCall' = [dnCall EXCEPT ![c] = new]
    BY <1>5 DEF DnHit
  <2>7. QED
    BY <1>5, <2>4, <2>5, <2>6, CallStep DEF DnHit
<1>6. CASE DnMiss(c)
  <2> DEFINE new == [call EXCEPT !.step = "asking"]
  <2>1. dnCall' = [dnCall EXCEPT ![c] = new]
    BY <1>1, <1>6 DEF DnMiss
  <2>2. call.known = Unasked /\ call.left # <<>>
    BY <1>6 DEF DnMiss
  <2>3. /\ new \in NameCalls /\ new.step = "asking" /\ new.stale = call.stale
        /\ new.known = call.known /\ new.rows = call.rows /\ new.left = call.left
    BY <1>1 DEF NameCalls, CallSteps
  <2>4. OneName(new) /\ new.step # "answered"
    BY <1>2, <2>2, <2>3 DEF OneName
  <2>5. QED
    BY <1>6, <2>1, <2>3, <2>4, CallStep DEF DnMiss
<1>7. CASE DnAnswer(c)
  <2> DEFINE row == WithRow(call, dnName)
             new == [row EXCEPT !.step = "answered"]
  <2>1. call.left # <<>> /\ call.rows = <<>>
    BY <1>2, <1>7 DEF DnAnswer
  <2>2. /\ row \in NameCalls /\ OneName(row) /\ row.known = dnName /\ row.rows # <<>>
    BY <1>1, <1>2, <2>1, RowAdded DEF ShownNames
  <2>3. /\ new \in NameCalls /\ new.step = "answered" /\ new.stale = row.stale
        /\ new.known = row.known /\ new.rows = row.rows /\ new.left = row.left
    BY <2>2 DEF NameCalls, CallSteps
  <2>4. OneName(new) /\ new.rows # <<>> /\ new.known \in Names /\ dnGone[new.known] = 0
    BY <1>1, <2>2, <2>3 DEF OneName
  <2>5. dnCall' = [dnCall EXCEPT ![c] = new]
    BY <1>7 DEF DnAnswer
  <2>6. QED
    BY <1>7, <2>3, <2>4, <2>5, CallStep DEF DnAnswer
<1>8. CASE DnRefused(c)
  <2> DEFINE new == WithRow(call, NoName)
  <2>1. call.left # <<>> /\ call.rows = <<>>
    BY <1>2, <1>8 DEF DnRefused
  <2>2. new \in NameCalls /\ OneName(new) /\ new.step = "rows"
    BY <1>1, <1>2, <2>1, RowAdded DEF ShownNames
  <2>3. dnCall' = [dnCall EXCEPT ![c] = new]
    BY <1>8 DEF DnRefused
  <2>4. QED
    BY <1>8, <2>2, <2>3, CallStep DEF DnRefused
<1>9. CASE DnReturn(c)
  <2> DEFINE new == [call EXCEPT !.step = "returned", !.rows = Sorted(call.rows)]
  <2>1. dnCall' = [dnCall EXCEPT ![c] = new]
    BY <1>1, <1>9 DEF DnReturn
  <2>2. /\ Sorted(call.rows) \in Seq(NameRows)
        /\ call.rows = <<>> => Sorted(call.rows) = <<>>
        /\ \A i \in 1..Len(Sorted(call.rows)) : Sorted(call.rows)[i].model = call.known
    BY <1>1, SortingKeepsNames
  <2>3. /\ new \in NameCalls /\ new.step = "returned" /\ new.stale = call.stale
        /\ new.known = call.known /\ new.rows = Sorted(call.rows)
    BY <1>1, <2>2 DEF NameCalls, CallSteps
  <2>4. OneName(new) /\ new.step # "answered"
    BY <1>2, <2>2, <2>3 DEF OneName
  <2>5. QED
    BY <1>9, <2>1, <2>3, <2>4, CallStep DEF DnReturn
<1>10. CASE DnForget(c)
  <2>1. NoCall \in NameCalls /\ OneName(NoCall) /\ NoCall.step # "answered"
    BY LongIsNat DEF NoCall, NameCalls, CallSteps, ShownNames, Unasked, OneName
  <2>2. QED
    BY <1>10, <2>1, CallStep DEF DnForget
<1>11. QED
  BY <1>3, <1>4, <1>5, <1>6, <1>7, <1>8, <1>9, <1>10

\* The answer enters the cache: a name of this moment, at age zero.
LEMMA KeepKeeps ==
    ASSUME DInv, NEW c \in Callers, DnKeep(c)
    PROVE  DInv'
<1> DEFINE call == dnCall[c]
           new == [call EXCEPT !.step = "rows"]
<1>1. /\ call \in NameCalls /\ OneName(call) /\ Recent(call)
      /\ dnCall \in [Callers -> NameCalls] /\ dnGone[dnName] = 0
      /\ dnName \in Names /\ dnGone \in [Names -> 0..Long]
  BY DEF DInv, DnTypes, CacheInv
<1>2. /\ dnName' = dnName /\ dnGone' = dnGone
      /\ dnCache' = [name |-> call.rows[Len(call.rows)].model, age |-> 0]
      /\ dnCall' = [dnCall EXCEPT ![c] = new]
      /\ call.step = "answered"
  BY <1>1 DEF DnKeep
<1>3. call.rows # <<>> /\ call.known \in Names /\ dnGone[call.known] = 0
  BY <1>1, <1>2 DEF Recent
<1>4. call.rows[Len(call.rows)].model = call.known
  <2>1. call.rows \in Seq(NameRows)
    BY <1>1 DEF NameCalls
  <2>2. Len(call.rows) \in 1..Len(call.rows)
    BY <1>3, <2>1, LenProperties, EmptySeq
  <2>3. QED
    BY <1>1, <2>2 DEF OneName
<1>5. /\ new \in NameCalls /\ new.step = "rows" /\ new.stale = call.stale
      /\ new.known = call.known /\ new.rows = call.rows /\ new.left = call.left
  BY <1>1 DEF NameCalls, CallSteps
<1>6. DnTypes'
  <2>1. dnCache' \in [name : ShownNames, age : 0..Long]
    BY <1>2, <1>3, <1>4, LongIsNat DEF ShownNames
  <2>2. dnCall' \in [Callers -> NameCalls]
    BY <1>1, <1>2, <1>5
  <2>3. QED
    BY <1>1, <1>2, <2>1, <2>2 DEF DnTypes
<1>7. CacheInv'
  BY <1>1, <1>2, <1>3, <1>4 DEF CacheInv
<1>8. ASSUME NEW d \in Callers
      PROVE  OneName(dnCall[d])' /\ Recent(dnCall[d])'
  <2>1. CASE d = c
    <3>1. dnCall'[d] = new
      BY <1>1, <1>2, <2>1
    <3>2. OneName(new) /\ new.step # "answered"
      BY <1>1, <1>5 DEF OneName
    <3>3. QED
      BY <3>1, <3>2 DEF OneName, Recent
  <2>2. CASE d # c
    <3>1. dnCall'[d] = dnCall[d]
      BY <1>1, <1>2, <2>2
    <3>2. OneName(dnCall[d]) /\ Recent(dnCall[d])
      BY DEF DInv
    <3>3. QED
      BY <1>2, <3>1, <3>2 DEF OneName, Recent
  <2>3. QED
    BY <2>1, <2>2
<1>9. QED
  BY <1>6, <1>7, <1>8 DEF DInv

LEMMA NamesStep == DInv /\ [DnNext]_dnVars => DInv'
<1>1. SUFFICES ASSUME DInv, [DnNext]_dnVars PROVE DInv'
  OBVIOUS
<1>2. CASE UNCHANGED dnVars
  <2>1. ASSUME NEW c \in Callers
        PROVE  OneName(dnCall[c])' /\ Recent(dnCall[c])'
    <3>1. OneName(dnCall[c]) /\ Recent(dnCall[c])
      BY <1>1 DEF DInv
    <3>2. QED
      BY <1>2, <3>1 DEF dnVars, OneName, Recent
  <2>2. DnTypes' /\ CacheInv'
    BY <1>1, <1>2 DEF DInv, dnVars, DnTypes, CacheInv
  <2>3. QED
    BY <2>1, <2>2 DEF DInv
<1>3. CASE DnTick
  BY <1>1, <1>3, TickKeeps
<1>4. ASSUME NEW n \in Names, DnRename(n) PROVE DInv'
  BY <1>1, <1>4, RenameKeeps
<1>5. ASSUME NEW c \in Callers,
             \/ DnList(c) \/ DnKnown(c) \/ DnHit(c) \/ DnMiss(c)
             \/ DnAnswer(c) \/ DnRefused(c) \/ DnReturn(c) \/ DnForget(c)
      PROVE  DInv'
  BY <1>1, <1>5, ListingKeeps
<1>6. ASSUME NEW c \in Callers, DnKeep(c) PROVE DInv'
  BY <1>1, <1>6, KeepKeeps
<1>7. QED
  BY <1>1, <1>2, <1>3, <1>4, <1>5, <1>6 DEF DnNext

-----------------------------------------------------------------------------
\* The cache and every listing under way agree with the phone.
THEOREM NamesInvariance == DnSpec => []DInv
<1>1. QED
  BY NamesStart, NamesStep, PTL DEF DnSpec

\* A phone is listed under a name it had within the time to live, and under
\* one name in each listing.
THEOREM NamesAreHonest == DnSpec => []NamesHonest
<1>1. DInv => NamesHonest
  <2>1. SUFFICES ASSUME DInv, NEW c \in Callers
                 PROVE  /\ dnCall[c].stale < TTL
                        /\ \A i, j \in DOMAIN dnCall[c].rows :
                             dnCall[c].rows[i].model = dnCall[c].rows[j].model
    BY DEF NamesHonest, NameLatelyTrue, OneNamePerListing
  <2>2. OneName(dnCall[c]) /\ dnCall[c].rows \in Seq(NameRows)
    BY <2>1 DEF DInv, DnTypes, NameCalls
  <2>3. DOMAIN dnCall[c].rows = 1..Len(dnCall[c].rows)
    BY <2>2, LenProperties
  <2>4. QED
    BY <2>2, <2>3 DEF OneName
<1>2. QED
  BY <1>1, NamesInvariance, PTL

-----------------------------------------------------------------------------
(***************************************************************************)
(* The samplers together.  A step is of one of them and leaves the others  *)
(* as they are, so what holds of each alone holds of all.                  *)
(***************************************************************************)

LEMMA EachStarts ==
    Init => /\ IcInit /\ CsInit /\ SuInit /\ AcInit /\ SfInit /\ AfInit /\ PrInit /\ DnInit
<1>1. QED
  BY DEF Init

LEMMA EachSteps ==
    [Next]_vars => /\ [IcNext]_icVars /\ [CsNext]_csVars /\ [SuNext]_suVars /\ [AcNext]_acVars
                   /\ [SfNext]_sfVars /\ [AfNext]_afVars /\ [PrNext]_prVars /\ [DnNext]_dnVars
<1>1. QED
  BY DEF Next, vars, IosCpuSteps, ColdStartSteps, StartupSteps, AndroidCpuSteps, FramesSteps,
         FpsSteps, ProbesSteps, NamesSteps

LEMMA EachMachine ==
    FairSpec => IcSpec /\ CsSpec /\ SuSpec /\ AcSpec /\ SfSpec /\ AfSpec /\ PrSpec /\ DnSpec
<1>1. QED
  BY EachStarts, EachSteps, PTL
  DEF FairSpec, IcSpec, CsSpec, SuSpec, AcSpec, SfSpec, AfSpec, PrSpec, DnSpec

\* An iOS cold time is of a process this attempt launched, and that of the
\* latest genuine event unless a read was dropped in the middle of a message
\* before the first; on Android a cold start is of a new process unless the old
\* one outlived both stops, a hot one of the old, and a time of zero of an app
\* that never left (ios/src/startup.rs:58-146,
\* core_profile_session_raw.rs:378-462, android/src/startup.rs:33-92).
THEOREM StartupTimesAreTrue == FairSpec => []StartupTimesTrue
<1>1. SuInv /\ CsInv => StartupTimesTrue
  BY DEF SuInv, Ownership, Leaving, CsInv, Captured, Attempted, StartupTimesTrue, NeverMixed,
         EveryTimingIsCold, ColdIsNewProcess, HotKeepsTheProcess, ZeroOnlyIfItStayed
<1>2. QED
  BY <1>1, EachMachine, StartupInvariance, ColdStartInvariance, PTL

\* The CPU share of an Android application is never more than its work of one
\* tick, over deaths, relaunches and failed readings, and zero once it is gone
\* (android/src/cpu.rs:116-152).
THEOREM AppShareIsHonest == FairSpec => AppShareHonest
<1>1. ASSUME AcInv, AcNext, acStep = "app", acStep' = "system"
      PROVE  /\ acOut'.app.part > 0 =>
                   acOut'.app.part <= acWork /\ acOut'.app.of = acCurr.total - acLast.total
             /\ AcRunning = {} => acOut'.app = ZeroShare
  <2>1. AcReadApp
    BY <1>1 DEF AcNext, AcRuns, AcProcessEnds, AcProcessStarts, AcStart, AcReadSystem, acSampler
  <2>2. QED
    BY <1>1, <2>1, ShareIs
<1>2. AcInv /\ [AcNext]_acVars
        => /\ [acStep = "app" /\ acStep' = "system" /\ acOut'.app.part > 0 =>
                 acOut'.app.part <= acWork /\ acOut'.app.of = acCurr.total - acLast.total]_acVars
           /\ [acStep = "app" /\ acStep' = "system" /\ AcRunning = {} => acOut'.app = ZeroShare]_acVars
  BY <1>1
<1>3. QED
  BY <1>2, EachMachine, CpuInvariance, PTL
  DEF AcSpec, AppShareHonest, AppNotOverreported, GoneReadsZero

\* No sampler gives up but for its own reason: as many failures or empty
\* answers in a row as its limit says, or, on Android, one error that cannot
\* pass (ios/src/cpu.rs:608-632, android/src/gpu.rs:140-180,
\* temperature.rs:84-113, ios/src/graphics.rs:128-196, schema/src/error.rs:22-24).
THEOREM NoneGivesUpUntimely == FairSpec => EndsOnlyForCause
<1>1. QED
  BY EachMachine, IosCpuGivesUp, ProbesEndForCause, PTL DEF EndsOnlyForCause

\* The frames of a layer are each counted once and judged alike wherever the
\* polls cut the stream, their times add up, and a rate is that of the frames
\* rendered over the time it is divided by (android/src/fps.rs:72-113,
\* 198-250, 374-409).
THEOREM FramesAreAccounted == FairSpec => []FramesAccounted
<1>1. SfInv /\ GfxRateHonest /\ SvRateHonest => FramesAccounted
  BY AccountsMean DEF FramesAccounted
<1>2. QED
  BY <1>1, EachMachine, FramesInvariance, RatesAreHonest, PTL

\* Every sampler's state, and that of the device calls, keeps to its values.
THEOREM TypesOfSamplers == FairSpec => []SamplersTypeOK
<1>1. DInv => DnTypeOK
  <2>1. SUFFICES ASSUME DInv
                 PROVE  DnTypeOK
    OBVIOUS
  <2>2. DnTypes
    BY <2>1 DEF DInv
  <2>3. ASSUME NEW c \in Callers
        PROVE  /\ dnCall[c].step \in {"idle", "rows", "asking", "answered", "returned"}
               /\ dnCall[c].known \in Names \cup {NoName, Unasked}
               /\ dnCall[c].rows \in Seq([transport : Transports, model : Names \cup {NoName}])
    <3>1. dnCall[c] \in NameCalls
      BY <2>2 DEF DnTypes
    <3>2. /\ dnCall[c].step \in CallSteps
          /\ dnCall[c].known \in ShownNames \cup {Unasked}
          /\ dnCall[c].rows \in Seq(NameRows)
      BY <3>1 DEF NameCalls
    <3>3. NameRows = [transport : Transports, model : Names \cup {NoName}]
      BY DEF NameRows, ShownNames
    <3>4. QED
      BY <3>2, <3>3 DEF CallSteps, ShownNames
  <2>4. QED
    BY <2>2, <2>3 DEF DnTypes, DnTypeOK, ShownNames
<1>2. IcInv /\ CsInv /\ SuInv /\ AcInv /\ SfInv /\ AfInv /\ PrInv /\ DInv => SamplersTypeOK
  BY <1>1, AccountsMean DEF IcInv, CsInv, SuInv, AcInv, AfInv, PrInv, SamplersTypeOK
<1>3. QED
  BY <1>2, EachMachine, IosCpuInvariance, ColdStartInvariance, StartupInvariance, CpuInvariance,
     FramesInvariance, FpsInvariance, ProbesInvariance, NamesInvariance, PTL
=============================================================================
