--------------------------- MODULE LogAttachProofs ---------------------------
(***************************************************************************)
(* Theorems of LogAttach for both platforms, any number of processes and   *)
(* of failed polls.                                                        *)
(***************************************************************************)
EXTENDS LogAttach, TLAPS

USE DEF world, faults, taskVars, vars

LEMMA InitInv == Init => AInv
<1> SUFFICES ASSUME Init PROVE AInv
  OBVIOUS
<1>1. status \in Status
  BY DEF Init, Status
<1>2. procs \in SUBSET Pids /\ target \in SUBSET Pids
  BY DEF Init
<1>3. lastPid \in 0..MaxPids /\ blips \in 0..MaxBlips /\ unchecked \in 0..3
  BY LogAttachAssumption DEF Init
<1>4. TypeOK
  BY <1>1, <1>2, <1>3 DEF Init, TypeOK
<1>5. QED
  BY <1>4 DEF Init, AInv, OneEventPerCheck, StatusHonest

LEMMA WorldKeeps == ASSUME AInv, World PROVE AInv'
<1>1. UNCHANGED <<platform, faults, taskVars>>
  BY DEF World, ProcessStarts, ProcessDies, Unplug, Stop
<1>2. /\ procs' \in SUBSET Pids /\ lastPid' \in 0..MaxPids
      /\ plugged' \in BOOLEAN /\ cancel' \in BOOLEAN
  <2>1. CASE ProcessStarts
    BY <2>1, LogAttachAssumption DEF ProcessStarts, AInv, TypeOK, Pids
  <2>2. CASE ProcessDies
    BY <2>2 DEF ProcessDies, AInv, TypeOK
  <2>3. CASE Unplug \/ Stop
    BY <2>3 DEF Unplug, Stop, AInv, TypeOK
  <2>4. QED
    BY <2>1, <2>2, <2>3 DEF World
<1>3. TypeOK'
  BY <1>1, <1>2 DEF AInv, TypeOK
<1>4. QED
  BY <1>1, <1>3 DEF AInv, OneEventPerCheck, StatusHonest

\* The status a step emits is one.
LEMMA Emitted ==
    ASSUME NEW state \in {"waiting", "attached"}, NEW pids \in SUBSET Pids,
           Emit(state, pids)
    PROVE  status' \in Status /\ status'.state = state /\ status'.pids = pids
  BY DEF Emit, Status

\* A poll changes nothing but the count of failed ones.
LEMMA Polls ==
    ASSUME TypeOK, TripSucceeds \/ PollFindsNone \/ PollErrs
    PROVE  blips' \in 0..MaxBlips /\ broken' \in BOOLEAN
<1>0. TripSucceeds \/ TripFails \/ Blip
  BY DEF PollFindsNone, PollErrs
<1>1. blips' \in 0..MaxBlips
  BY <1>0, LogAttachAssumption DEF TripSucceeds, TripFails, Blip, TypeOK
<1>2. broken' = broken
  BY <1>0 DEF TripSucceeds, TripFails, Blip
<1>3. QED
  BY <1>1, <1>2 DEF TypeOK

LEMMA WaitKeeps ==
    ASSUME AInv, WaitChecks \/ ProbeFinds \/ ProbeMisses \/ SleepEnds
    PROVE  AInv'
<1>1. CASE WaitChecks
  BY <1>1 DEF WaitChecks, AInv, TypeOK, OneEventPerCheck, StatusHonest
<1>2. CASE ProbeFinds
  BY <1>2 DEF ProbeFinds, PollFinds, TripSucceeds, AInv, TypeOK, OneEventPerCheck,
     StatusHonest
<1>3. CASE ProbeMisses
  <2>1. blips' \in 0..MaxBlips /\ broken' \in BOOLEAN
    BY <1>3, Polls DEF ProbeMisses, AInv
  <2>2. CASE announced
    BY <1>3, <2>1, <2>2 DEF ProbeMisses, AInv, TypeOK, OneEventPerCheck,
       StatusHonest
  <2>3. CASE ~announced
    BY <1>3, <2>1, <2>3 DEF ProbeMisses, Emit, AInv, TypeOK, Status,
       OneEventPerCheck, StatusHonest
  <2>4. QED
    BY <2>2, <2>3
<1>4. CASE SleepEnds
  BY <1>4 DEF SleepEnds, AInv, TypeOK, OneEventPerCheck, StatusHonest
<1>5. QED
  BY <1>1, <1>2, <1>3, <1>4

LEMMA AttachKeeps == ASSUME AInv, Attach PROVE AInv'
<1>1. blips' \in 0..MaxBlips /\ broken' \in BOOLEAN
  <2>1. blips' = blips
    BY DEF Attach, ConnectionFails
  <2>2. broken' \in BOOLEAN
    BY DEF Attach, ConnectionFails, AInv, TypeOK
  <2>3. QED
    BY <2>1, <2>2 DEF AInv, TypeOK
<1>2. status' \in Status /\ opened' \in BOOLEAN
  BY Emitted DEF Attach, AInv, TypeOK
<1>3. unchecked' = 1 /\ at' \in {"loop", "ended"}
  BY DEF Attach, Emit, AInv
<1>4. UNCHANGED <<world, cancel, target, announced>>
  BY DEF Attach
<1>5. TypeOK'
  BY <1>1, <1>2, <1>3, <1>4 DEF AInv, TypeOK
<1>6. StatusHonest'
  BY <1>3 DEF Attach, Emit, StatusHonest
<1>7. QED
  BY <1>3, <1>5, <1>6 DEF AInv, OneEventPerCheck

LEMMA StreamKeeps ==
    ASSUME AInv, LoopChecks \/ LineComes \/ ConnectionEnds \/ WatchTicks
    PROVE  AInv'
<1>1. UNCHANGED <<world, blips, cancel, opened, target, announced, status>>
  BY DEF LoopChecks, LineComes, ConnectionEnds, ConnectionFails, WatchTicks
<1>0. broken' \in BOOLEAN
  BY DEF LoopChecks, LineComes, ConnectionEnds, ConnectionFails, WatchTicks,
     AInv, TypeOK
<1>2. /\ at \in {"loop", "select"}
      /\ at' \in {"loop", "select", "watching", "ended"}
      /\ unchecked' \in {0, 1}
      /\ at' \in {"select", "watching"} => unchecked' = 0
  BY DEF LoopChecks, LineComes, ConnectionEnds, WatchTicks, AInv
<1>3. TypeOK'
  BY <1>0, <1>1, <1>2 DEF AInv, TypeOK, Status
<1>4. QED
  BY <1>1, <1>2, <1>3 DEF AInv, OneEventPerCheck, StatusHonest

LEMMA WatchKeeps ==
    ASSUME AInv, KeepsStreaming \/ AndroidDrifts \/ IosDrifts \/ IosResolves
    PROVE  AInv'
<1>0. blips' \in 0..MaxBlips /\ broken' \in BOOLEAN
  BY Polls DEF KeepsStreaming, AndroidDrifts, TargetMissed, IosDrifts,
     IosResolves, PollFinds, AInv
<1>1. CASE KeepsStreaming
  BY <1>0, <1>1 DEF KeepsStreaming, AInv, TypeOK, OneEventPerCheck,
     StatusHonest
<1>2. CASE AndroidDrifts
  <2>1. status' \in Status
    BY <1>2, Emitted DEF AndroidDrifts
  <2>2. /\ unchecked' = 1 /\ at' = "wait"
        /\ announced' = FALSE /\ opened' = FALSE
        /\ UNCHANGED <<world, cancel, target>>
    BY <1>2 DEF AndroidDrifts, Emit, AInv
  <2>3. TypeOK'
    <3>1. opened' \in BOOLEAN /\ announced' \in BOOLEAN
      BY <2>2, Zenon
    <3>2. unchecked' \in 0..3
      BY <2>2
    <3>3. TypeOK
      BY DEF AInv
    <3>4. QED
      BY <1>0, <2>1, <2>2, <3>1, <3>2, <3>3 DEF TypeOK
  <2>4. OneEventPerCheck' /\ StatusHonest'
    BY <2>2 DEF OneEventPerCheck, StatusHonest
  <2>5. QED
    BY <2>2, <2>3, <2>4 DEF AInv
<1>3. CASE IosDrifts
  BY <1>0, <1>3 DEF IosDrifts, AInv, TypeOK, OneEventPerCheck, StatusHonest
<1>4. CASE IosResolves
  <2>1. at = "resolving" /\ unchecked = 0 /\ TypeOK
    BY <1>4 DEF IosResolves, AInv
  <2>2. status' = status \/ Emit("waiting", {})
    BY <1>4 DEF IosResolves
  <2>3. status' \in Status
    BY <2>1, <2>2, Emitted DEF TypeOK
  <2>4. target' = target \/ target' = procs
    BY <1>4 DEF IosResolves
  <2>5. \/ /\ at' \in {"attaching", "ended"} /\ unchecked' = 0
           /\ announced' = announced
        \/ at' = "wait" /\ unchecked' = 1 /\ announced' = FALSE
    BY <1>4, <2>1 DEF IosResolves, Emit
  <2>6. UNCHANGED <<world, cancel, opened>>
    BY <1>4 DEF IosResolves
  <2>7. TypeOK'
    <3>1. announced \in BOOLEAN
      BY <2>1 DEF TypeOK
    <3>2. announced' \in BOOLEAN
      BY <2>5, <3>1, Zenon
    <3>3. unchecked' \in 0..3
      BY <2>5
    <3>4. at' \in {"attaching", "ended", "wait"}
      BY <2>5
    <3>5. QED
      BY <1>0, <2>1, <2>3, <2>4, <2>6, <3>2, <3>3, <3>4 DEF TypeOK
  <2>8. OneEventPerCheck'
    BY <2>5 DEF OneEventPerCheck
  <2>9. at' \notin {"loop", "select", "watching", "sleeping"}
    BY <2>5
  <2>10. StatusHonest'
    BY <2>9 DEF StatusHonest
  <2>11. QED
    BY <2>5, <2>7, <2>8, <2>10 DEF AInv
<1>5. QED
  BY <1>1, <1>2, <1>3, <1>4

LEMMA NextKeeps == ASSUME AInv, [Next]_vars PROVE AInv'
<1>1. CASE World
  BY <1>1, WorldKeeps
<1>2. CASE Task
  BY <1>2, WaitKeeps, AttachKeeps, StreamKeeps, WatchKeeps DEF Task
<1>3. CASE UNCHANGED vars
  BY <1>3 DEF AInv, TypeOK, OneEventPerCheck, StatusHonest
<1>4. QED
  BY <1>1, <1>2, <1>3 DEF Next

\* The inductive invariant of the attach machine.
THEOREM AttachInvariance == Spec => []AInv
<1>1. AInv /\ [Next]_vars => AInv'
  BY NextKeeps
<1>2. QED
  BY <1>1, InitInv, PTL DEF Spec

\* One event at most between two looks at the cancel flag.
THEOREM EventsPerCheck == Spec => []OneEventPerCheck
<1>1. AInv => OneEventPerCheck
  BY DEF AInv
<1>2. QED
  BY <1>1, AttachInvariance, PTL

\* The status on screen is what the task does.
THEOREM HonestStatus == Spec => []StatusHonest
<1>1. AInv => StatusHonest
  BY DEF AInv
<1>2. QED
  BY <1>1, AttachInvariance, PTL
=============================================================================
