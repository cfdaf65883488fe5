--------------------------- MODULE LiveViewProofs ---------------------------
(***************************************************************************)
(* Machine-checked proofs about LiveView, for any number of sessions, of   *)
(* stop commands in flight and of ticks in the heartbeat's timeout.        *)
(***************************************************************************)
EXTENDS LiveView, SequenceTheorems, FiniteSetTheorems, TLAPS

-----------------------------------------------------------------------------
(***************************************************************************)
(* The inductive invariant.                                                *)
(***************************************************************************)

\* How far the start, the tasks and the stop of a session determine each other.
SessionInv(s) ==
    /\ stage[s] = "none" <=> s > lastId
    /\ life[s] = "none" <=> s > lastId
    /\ watcher[s] = "none" <=> s > lastId
    /\ stage[s] \in {"none", "created"} => stopper[s] = "none"
    /\ slot = s <=> stage[s] \in {"installed", "replied"} /\ stopper[s] = "none"
    /\ stopper[s] = "done" => life[s] = "dead"
    /\ stopper[s] = "watcher" => watcher[s] = "cleaning"
    /\ watcher[s] \in {"cleaning", "done"} => life[s] = "dead"

\* A session of the past: what is left of it can do nothing to the screen.
Past(s) ==
    /\ stage[s] = "replied" /\ life[s] = "dead" /\ watcher[s] = "done"
    /\ stopper[s] \in {"none", "replaced", "done"}

\* Nothing of any session is under way.
Silence ==
    /\ active = Nobody
    /\ stopsAsked = 0 /\ stopsDone = 0 /\ endedEvents = <<>>
    /\ \A s \in 1..lastId : Past(s) /\ stopper[s] # "replaced"

\* A user who waits: one start at a time, and from silence.
Patient ==
    /\ dialog # "none" => StartsInFlight = 0 /\ Silence
    /\ StartsInFlight > 0 => StartsInFlight = 1 /\ Silence

\* Then the newest session n is on screen while it records and nobody stops
\* it, and a stop or an event under way finds nothing else to end.
Newest(n) ==
    /\ stopper[n] # "replaced"
    /\ stopper[n] = "command" => stage[n] = "replied"
    /\ stage[n] \in {"installed", "replied"} => slot \in {n, Nobody}
    /\ stage[n] # "replied" => active = Nobody /\ stopsAsked = 0 /\ stopsDone = 0
    /\ stopsDone > 0 => stopper[n] # "none"
    /\ endedEvents # <<>> => life[n] = "dead"
    /\ stage[n] = "replied" /\ life[n] = "running" /\ stopper[n] = "none" => active = n

OnlyNewest ==
    /\ active \in {Nobody, lastId}
    /\ \A i \in DOMAIN endedEvents : endedEvents[i] = lastId
    /\ lastId = 0 => stopsAsked = 0 /\ stopsDone = 0
    /\ \A s \in Ids : s < lastId => Past(s)
    /\ \A s \in Ids : s = lastId => Newest(s)

LiveTypes ==
    /\ LiveTypeOK
    /\ asking \in [Kinds -> 0..MaxSessions] /\ lastId + StartsInFlight <= MaxSessions
    /\ endedEvents \in Seq(Ids)

LiveInv ==
    /\ LiveTypes
    /\ \A s \in Ids : SessionInv(s)
    /\ ~crossed => Patient /\ OnlyNewest
    /\ strikes > 0 => devices = "unusable"

-----------------------------------------------------------------------------
\* The constants and the names of kinds.
LEMMA Bounds ==
    /\ MaxSessions \in Nat /\ MaxStops \in Nat /\ MaxStops >= 1
    /\ HeartbeatTicks \in Nat /\ HeartbeatTicks >= 1
<1>1. QED
  BY LiveViewAssumption

\* The counters of the starts in flight, and that of commands in flight.
LEMMA StartsCounted ==
    ASSUME LiveTypes
    PROVE  /\ asking["timed"] \in Nat /\ asking["plain"] \in Nat
           /\ StartsInFlight \in Nat /\ lastId \in Nat
           /\ lastId + StartsInFlight <= MaxSessions
<1>1. "timed" \in Kinds /\ "plain" \in Kinds
  BY DEF Kinds
<1>2. QED
  BY <1>1, Bounds DEF LiveTypes, LiveTypeOK, StartsInFlight

LEMMA StopsBounded ==
    ASSUME NEW n \in 0..MaxStops
    PROVE  /\ AtMostStops(n + 1) \in 1..MaxStops
           /\ AtMostStops(n + 1) >= n
<1>1. QED
  BY Bounds DEF AtMostStops

\* The watchdog asks for a stop only while a session is on screen.
LEMMA WatchdogSteps ==
    ASSUME LiveTypes, NEW rec \in BOOLEAN, NEW d, RunWatchdog(rec, d)
    PROVE  /\ strikes' \in 0..1
           /\ stopsAsked' \in 0..MaxStops
           /\ ~rec => stopsAsked' = stopsAsked
<1>1. strikes \in 0..1 /\ stopsAsked \in 0..MaxStops
  BY DEF LiveTypes, LiveTypeOK
<1>2. AtMostStops(stopsAsked + 1) \in 0..MaxStops
  BY <1>1, StopsBounded
<1>3. QED
  BY <1>1, <1>2 DEF RunWatchdog, WatchdogVerdict

\* Taking a session off the screen asks for nothing.
LEMMA SetActiveSteps ==
    ASSUME LiveTypes, NEW x, SetActive(x)
    PROVE  /\ active' = x /\ devices' = devices
           /\ strikes' \in 0..1 /\ quiet' \in 0..HeartbeatTicks
           /\ stopsAsked' \in 0..MaxStops
           /\ x = Nobody => stopsAsked' = stopsAsked
<1>1. /\ strikes \in 0..1 /\ quiet \in 0..HeartbeatTicks
      /\ stopsAsked \in 0..MaxStops
  BY DEF LiveTypes, LiveTypeOK
<1>2. CASE (x = Nobody) = (active = Nobody)
  BY <1>1, <1>2 DEF SetActive, watch
<1>3. CASE (x = Nobody) # (active = Nobody)
  <2>1. RunWatchdog(x # Nobody, devices) /\ quiet' = 0
    BY <1>3 DEF SetActive
  <2>2. /\ strikes' \in 0..1 /\ stopsAsked' \in 0..MaxStops
        /\ x = Nobody => stopsAsked' = stopsAsked
    BY <2>1, WatchdogSteps
  <2>3. QED
    BY <2>1, <2>2, Bounds DEF SetActive
<1>4. QED
  BY <1>2, <1>3

-----------------------------------------------------------------------------
\* Asking for a start: one more in flight, within the bound.
LEMMA AskSteps ==
    ASSUME LiveTypes, NEW k \in Kinds, AskStart(k)
    PROVE  /\ asking' \in [Kinds -> 0..MaxSessions]
           /\ StartsInFlight' = StartsInFlight + 1
           /\ lastId + StartsInFlight' <= MaxSessions
           /\ UNCHANGED <<lastId, sessions, stops, endedEvents, screen, cooling>>
<1>1. /\ asking' = [asking EXCEPT ![k] = asking[k] + 1]
      /\ asking \in [Kinds -> 0..MaxSessions]
      /\ lastId + StartsInFlight < MaxSessions
  BY DEF AskStart, LiveTypes
<1>2. /\ asking["timed"] \in Nat /\ asking["plain"] \in Nat /\ lastId \in Nat
      /\ MaxSessions \in Nat
  BY StartsCounted, Bounds
<1>3. asking[k] + 1 \in 0..MaxSessions
  BY <1>1, <1>2 DEF StartsInFlight, Kinds
<1>4. StartsInFlight' = StartsInFlight + 1
  BY <1>1, <1>2 DEF StartsInFlight, Kinds
<1>5. QED
  BY <1>1, <1>2, <1>3, <1>4 DEF AskStart, StartsInFlight

\* A start leaves the calls in flight: it has failed, or made its row.
LEMMA StartLeaves ==
    ASSUME LiveTypes, NEW k \in Kinds, asking[k] > 0,
           asking' = [asking EXCEPT ![k] = @ - 1]
    PROVE  /\ asking' \in [Kinds -> 0..MaxSessions]
           /\ StartsInFlight > 0 /\ StartsInFlight' = StartsInFlight - 1
<1>1. asking \in [Kinds -> 0..MaxSessions] /\ MaxSessions \in Nat
  BY Bounds DEF LiveTypes
<1>2. asking["timed"] \in Nat /\ asking["plain"] \in Nat
  BY StartsCounted
<1>3. QED
  BY <1>1, <1>2 DEF StartsInFlight, Kinds

\* The type invariant in four parts.
StartTypes ==
    /\ lastId \in 0..MaxSessions
    /\ asking \in [Kinds -> 0..MaxSessions] /\ lastId + StartsInFlight <= MaxSessions
SessionTypes ==
    /\ timed \subseteq 1..lastId /\ flag \subseteq 1..lastId
    /\ stage \in [Ids -> {"none", "created", "installed", "replied"}]
    /\ life \in [Ids -> {"none", "running", "dead"}]
    /\ watcher \in [Ids -> {"none", "armed", "cleaning", "done"}]
    /\ stopper \in [Ids -> {"none", "command", "replaced", "watcher", "done"}]
    /\ slot \in 0..lastId
StopTypes ==
    /\ stopsAsked \in 0..MaxStops /\ stopsDone \in 0..MaxStops
    /\ endedEvents \in Seq(Ids)
ScreenTypes ==
    /\ active \in 0..lastId /\ devices \in DeviceStates
    /\ strikes \in 0..1 /\ quiet \in 0..HeartbeatTicks
    /\ dialog \in {"none", "probing", "cooldown"}
    /\ cooling \in BOOLEAN /\ crossed \in BOOLEAN

LEMMA TypesInParts ==
    /\ LiveTypes => StartTypes /\ SessionTypes /\ StopTypes /\ ScreenTypes
    /\ (StartTypes /\ SessionTypes /\ StopTypes /\ ScreenTypes)' => LiveTypes'
<1>1. LiveTypes => StartTypes /\ SessionTypes /\ StopTypes /\ ScreenTypes
  BY DEF LiveTypes, LiveTypeOK, StartTypes, SessionTypes, StopTypes, ScreenTypes
<1>2. ASSUME StartTypes', SessionTypes', StopTypes', ScreenTypes'
      PROVE  LiveTypes'
  <2>1. asking'["timed"] \in Nat /\ asking'["plain"] \in Nat
    BY <1>2, Bounds DEF StartTypes, Kinds
  <2>2. StartsInFlight' \in 0..MaxSessions
    BY <1>2, <2>1, Bounds DEF StartTypes, StartsInFlight
  <2>3. \A i \in DOMAIN endedEvents' : endedEvents'[i] \in Ids
    BY <1>2, LenProperties, ElementOfSeq DEF StopTypes
  <2>4. LiveTypeOK'
    BY <1>2, <2>2, <2>3
       DEF LiveTypeOK, StartTypes, SessionTypes, StopTypes, ScreenTypes
  <2>5. QED
    BY <1>2, <2>4 DEF LiveTypes, StartTypes, StopTypes
<1>3. QED
  BY <1>1, <1>2

\* Who touches the counters of the starts.
LEMMA StartTypesStep ==
    ASSUME LiveTypes, [Next]_liveVars
    PROVE  StartTypes'
<1>0. StartTypes /\ SessionTypes
  BY TypesInParts
<1>1. ASSUME NEW k \in Kinds, AskStart(k)
      PROVE  StartTypes'
  BY <1>0, <1>1, AskSteps DEF StartTypes
<1>2. ASSUME NEW k \in Kinds, asking[k] > 0,
             asking' = [asking EXCEPT ![k] = @ - 1],
             lastId' \in {lastId, lastId + 1}
      PROVE  StartTypes'
  <2>1. /\ asking' \in [Kinds -> 0..MaxSessions]
        /\ StartsInFlight > 0 /\ StartsInFlight' = StartsInFlight - 1
    BY <1>2, StartLeaves
  <2>2. StartsInFlight \in Nat /\ lastId \in Nat /\ lastId + StartsInFlight <= MaxSessions
    BY StartsCounted
  <2>3. QED
    <3>0. lastId' = lastId \/ lastId' = lastId + 1
      BY <1>2
    <3>1. StartsInFlight' \in Nat /\ lastId' \in Nat /\ lastId' + StartsInFlight' <= MaxSessions
      BY <3>0, <2>1, <2>2, Bounds
    <3>2. QED
      BY <2>1, <3>1, Bounds DEF StartTypes
<1>3. CASE BackendCreates \/ StartFails
  BY <1>2, <1>3 DEF BackendCreates, StartFails
<1>4. CASE UNCHANGED <<lastId, asking>>
  BY <1>0, <1>4 DEF StartTypes, StartsInFlight
<1>5. CASE ClickStart \/ ProbeAnswers \/ CancelDialog \/ ConfirmDialog
  BY <1>1, <1>4, <1>5
     DEF ClickStart, ProbeAnswers, CancelDialog, ConfirmDialog, ShowDialog, Kinds
<1>6. CASE CooldownEnds \/ ClickStop \/ StopTakes \/ StopReplies \/ Poll
           \/ EndedDelivered \/ SampleArrives \/ HeartbeatTick
  BY <1>4, <1>6
     DEF CooldownEnds, ClickStop, StopTakes, StopReplies, Poll, EndedDelivered,
         SampleArrives, HeartbeatTick
<1>7. ASSUME NEW s \in Ids,
             \/ Installs(s) \/ StartReplies(s) \/ SessionStopped(s)
             \/ SchedulerDies(s) \/ WatcherAnnounces(s) \/ WatcherCleans(s)
      PROVE  StartTypes'
  BY <1>4, <1>7
     DEF Installs, StartReplies, SessionStopped, SchedulerDies,
         WatcherAnnounces, WatcherCleans
<1>8. QED
  BY <1>3, <1>4, <1>5, <1>6, <1>7 DEF Next, liveVars

\* Who touches the sessions: an id above the old ones is new to every table.
LEMMA SessionTypesStep ==
    ASSUME LiveTypes, \A s \in Ids : SessionInv(s), [Next]_liveVars
    PROVE  SessionTypes'
<1> USE Bounds
<1>0. StartTypes /\ SessionTypes
  BY TypesInParts
<1>a. lastId \in Nat /\ lastId + StartsInFlight <= MaxSessions
  BY StartsCounted
<1>1. CASE BackendCreates
  <2>1. PICK k \in Kinds : asking[k] > 0 /\ asking' = [asking EXCEPT ![k] = @ - 1]
    BY <1>1 DEF BackendCreates
  <2>2. StartsInFlight > 0 /\ StartsInFlight \in Nat
    BY <2>1, StartLeaves, StartsCounted
  <2>3. lastId' = lastId + 1 /\ lastId' \in Ids
    BY <1>1, <1>a, <2>2 DEF BackendCreates, Ids
  <2>4. timed' \subseteq 1..lastId' /\ flag' \subseteq 1..lastId' /\ slot' \in 0..lastId'
    BY <1>0, <1>1, <1>a, <2>3 DEF BackendCreates, SessionTypes
  <2>5. stage' \in [Ids -> {"none", "created", "installed", "replied"}]
    BY <1>0, <1>1, <2>3 DEF BackendCreates, SessionTypes
  <2>6. life' \in [Ids -> {"none", "running", "dead"}]
    BY <1>0, <1>1, <2>3 DEF BackendCreates, SessionTypes
  <2>7. watcher' \in [Ids -> {"none", "armed", "cleaning", "done"}]
    BY <1>0, <1>1, <2>3 DEF BackendCreates, SessionTypes
  <2>8. stopper' \in [Ids -> {"none", "command", "replaced", "watcher", "done"}]
    BY <1>0, <1>1 DEF BackendCreates, SessionTypes
  <2>9. QED
    BY <2>4, <2>5, <2>6, <2>7, <2>8 DEF SessionTypes
<1>2. CASE UNCHANGED <<lastId, sessions>>
  BY <1>0, <1>2 DEF SessionTypes, sessions
<1>3. CASE ClickStart \/ ProbeAnswers \/ CancelDialog \/ ConfirmDialog
  BY <1>2, <1>3
     DEF ClickStart, ProbeAnswers, CancelDialog, ConfirmDialog, AskStart, ShowDialog
<1>4. CASE CooldownEnds \/ StartFails \/ ClickStop \/ StopReplies \/ Poll
           \/ EndedDelivered \/ SampleArrives \/ HeartbeatTick
  BY <1>2, <1>4
     DEF CooldownEnds, StartFails, ClickStop, StopReplies, Poll, EndedDelivered,
         SampleArrives, HeartbeatTick
<1>5. CASE StopTakes
  <2>1. flag' \subseteq 1..lastId' /\ timed' \subseteq 1..lastId' /\ slot' \in 0..lastId'
    BY <1>0, <1>5, <1>a DEF StopTakes, SessionTypes, Nobody
  <2>2. stopper' \in [Ids -> {"none", "command", "replaced", "watcher", "done"}]
    BY <1>0, <1>5 DEF StopTakes, SessionTypes
  <2>3. QED
    BY <1>0, <1>5, <2>1, <2>2 DEF StopTakes, SessionTypes
<1>6. ASSUME NEW s \in Ids, Installs(s)
      PROVE  SessionTypes'
  <2>1. s \in 1..lastId
    BY <1>a, <1>6 DEF SessionInv, Installs, Ids
  <2>2. flag' \subseteq 1..lastId' /\ timed' \subseteq 1..lastId' /\ slot' \in 0..lastId'
    BY <1>0, <1>6, <1>a, <2>1 DEF Installs, SessionTypes, Nobody
  <2>3. stopper' \in [Ids -> {"none", "command", "replaced", "watcher", "done"}]
    BY <1>0, <1>6 DEF Installs, SessionTypes
  <2>4. stage' \in [Ids -> {"none", "created", "installed", "replied"}]
    BY <1>0, <1>6 DEF Installs, SessionTypes
  <2>5. QED
    BY <1>0, <1>6, <2>2, <2>3, <2>4 DEF Installs, SessionTypes
<1>7. ASSUME NEW s \in Ids, StartReplies(s) \/ SchedulerDies(s)
      PROVE  SessionTypes'
  BY <1>0, <1>7 DEF StartReplies, SchedulerDies, SessionTypes
<1>8. ASSUME NEW s \in Ids, SessionStopped(s) \/ WatcherAnnounces(s)
      PROVE  SessionTypes'
  BY <1>0, <1>8 DEF SessionStopped, WatcherAnnounces, SessionTypes
<1>9. ASSUME NEW s \in Ids, WatcherCleans(s)
      PROVE  SessionTypes'
  <2>0. s \in 1..lastId
    BY <1>a, <1>9 DEF SessionInv, WatcherCleans, Ids
  <2>1. slot' \in 0..lastId' /\ flag' \subseteq 1..lastId' /\ timed' \subseteq 1..lastId'
    <3>1. UNCHANGED <<lastId, timed>> /\ (slot' = Nobody \/ slot' = slot)
          /\ (flag' = flag \union {s} \/ flag' = flag)
      BY <1>9 DEF WatcherCleans
    <3>2. slot' \in 0..lastId' /\ timed' \subseteq 1..lastId'
      BY <1>0, <1>a, <3>1 DEF SessionTypes, Nobody
    <3>3. flag' \subseteq 1..lastId'
      BY <1>0, <2>0, <3>1 DEF SessionTypes
    <3>4. QED
      BY <3>2, <3>3
  <2>2. stopper' \in [Ids -> {"none", "command", "replaced", "watcher", "done"}]
    BY <1>0, <1>9 DEF WatcherCleans, SessionTypes
  <2>3. watcher' \in [Ids -> {"none", "armed", "cleaning", "done"}]
    BY <1>0, <1>9 DEF WatcherCleans, SessionTypes
  <2>4. QED
    BY <1>0, <1>9, <2>1, <2>2, <2>3 DEF WatcherCleans, SessionTypes
<1>10. QED
  BY <1>1, <1>2, <1>3, <1>4, <1>5, <1>6, <1>7, <1>8, <1>9 DEF Next, liveVars

\* Who touches the commands and the events under way.
LEMMA StopTypesStep ==
    ASSUME LiveTypes, [Next]_liveVars
    PROVE  StopTypes'
<1> USE Bounds
<1>0. StopTypes
  BY TypesInParts
<1>1. AtMostStops(stopsAsked + 1) \in 0..MaxStops /\ AtMostStops(stopsDone + 1) \in 0..MaxStops
  <2>1. ASSUME NEW n \in 0..MaxStops
        PROVE  AtMostStops(n + 1) \in 0..MaxStops
    BY StopsBounded
  <2>2. QED
    BY <1>0, <2>1 DEF StopTypes
<1>2. CASE UNCHANGED <<stops, endedEvents>>
  BY <1>0, <1>2 DEF StopTypes, stops
<1>3. CASE ClickStart \/ ProbeAnswers \/ CancelDialog \/ ConfirmDialog
           \/ CooldownEnds \/ BackendCreates \/ StartFails \/ SampleArrives
  BY <1>2, <1>3
     DEF ClickStart, ProbeAnswers, CancelDialog, ConfirmDialog, AskStart, ShowDialog,
         CooldownEnds, BackendCreates, StartFails, SampleArrives
<1>4. CASE ClickStop \/ StopTakes \/ HeartbeatTick
  BY <1>0, <1>1, <1>4 DEF ClickStop, StopTakes, HeartbeatTick, StopTypes
<1>5. CASE Poll
  <2>1. PICK d \in DeviceStates : RunWatchdog(Recording, d)
    BY <1>5 DEF Poll
  <2>2. stopsAsked' \in 0..MaxStops
    BY <2>1, WatchdogSteps DEF Recording
  <2>3. QED
    BY <1>0, <1>5, <2>2 DEF Poll, StopTypes
<1>6. CASE StopReplies
  <2>1. stopsAsked' \in 0..MaxStops
    BY <1>6, SetActiveSteps DEF StopReplies
  <2>2. QED
    BY <1>0, <1>6, <2>1 DEF StopReplies, StopTypes
<1>7. CASE EndedDelivered
  <2>1. stopsAsked' \in 0..MaxStops
    BY <1>7, SetActiveSteps DEF EndedDelivered
  <2>2. Tail(endedEvents) \in Seq(Ids)
    BY <1>0, <1>7, HeadTailProperties DEF EndedDelivered, StopTypes
  <2>3. QED
    BY <1>0, <1>7, <2>1, <2>2 DEF EndedDelivered, StopTypes
<1>8. ASSUME NEW s \in Ids, StartReplies(s)
      PROVE  StopTypes'
  <2>1. stopsAsked' \in 0..MaxStops
    BY <1>8, SetActiveSteps DEF StartReplies
  <2>2. QED
    BY <1>0, <1>8, <2>1 DEF StartReplies, StopTypes
<1>9. ASSUME NEW s \in Ids, Installs(s) \/ SchedulerDies(s) \/ WatcherCleans(s)
      PROVE  StopTypes'
  BY <1>2, <1>9 DEF Installs, SchedulerDies, WatcherCleans
<1>10. ASSUME NEW s \in Ids, SessionStopped(s)
       PROVE  StopTypes'
  BY <1>0, <1>1, <1>10 DEF SessionStopped, StopTypes
<1>11. ASSUME NEW s \in Ids, WatcherAnnounces(s)
       PROVE  StopTypes'
  <2>1. Append(endedEvents, s) \in Seq(Ids)
    BY <1>0, AppendProperties DEF StopTypes
  <2>2. endedEvents' \in Seq(Ids)
    BY <1>0, <1>11, <2>1 DEF WatcherAnnounces, StopTypes
  <2>3. QED
    BY <1>0, <1>11, <2>2 DEF WatcherAnnounces, StopTypes, stops
<1>12. QED
  BY <1>2, <1>3, <1>4, <1>5, <1>6, <1>7, <1>8, <1>9, <1>10, <1>11 DEF Next, liveVars, stops

\* Who touches the screen.
LEMMA ScreenTypesStep ==
    ASSUME LiveTypes, \A s \in Ids : SessionInv(s), [Next]_liveVars
    PROVE  ScreenTypes'
<1> USE Bounds
<1>0. ScreenTypes
  BY TypesInParts
<1>a. lastId \in Nat
  BY StartsCounted
<1>2. CASE UNCHANGED <<lastId, screen, dialogVars, crossed>>
  BY <1>0, <1>2 DEF ScreenTypes, screen, dialogVars
<1>3. CASE ClickStart
  BY <1>0, <1>3 DEF ClickStart, AskStart, ScreenTypes, screen
<1>4. CASE ProbeAnswers
  BY <1>0, <1>4 DEF ProbeAnswers, AskStart, ShowDialog, ScreenTypes, screen
<1>5. CASE CancelDialog \/ ConfirmDialog
  BY <1>0, <1>5 DEF CancelDialog, ConfirmDialog, AskStart, ShowDialog, ScreenTypes, screen
<1>6. CASE CooldownEnds
  BY <1>0, <1>6 DEF CooldownEnds, ScreenTypes, screen
<1>b. CASE BackendCreates
  <2>1. lastId' = lastId + 1 /\ UNCHANGED <<screen, dialogVars, crossed>>
    BY <1>b DEF BackendCreates
  <2>2. active' \in 0..lastId'
    BY <1>0, <1>a, <2>1 DEF ScreenTypes, screen
  <2>3. QED
    BY <1>0, <2>1, <2>2 DEF ScreenTypes, screen, dialogVars
<1>7. CASE StartFails \/ ClickStop \/ StopTakes
  BY <1>2, <1>7 DEF StartFails, ClickStop, StopTakes
<1>8. CASE Poll
  <2>1. PICK d \in DeviceStates : devices' = d /\ RunWatchdog(Recording, d)
    BY <1>8 DEF Poll
  <2>2. strikes' \in 0..1 /\ devices' \in DeviceStates
    BY <2>1, WatchdogSteps DEF Recording
  <2>3. QED
    BY <1>0, <1>8, <2>2 DEF Poll, ScreenTypes, dialogVars
<1>9. CASE StopReplies \/ EndedDelivered
  <2>1. SetActive(Nobody)
    BY <1>9 DEF StopReplies, EndedDelivered
  <2>2. /\ active' = Nobody /\ devices' = devices
        /\ strikes' \in 0..1 /\ quiet' \in 0..HeartbeatTicks
    BY <2>1, SetActiveSteps
  <2>3. QED
    BY <1>0, <1>a, <1>9, <2>2 DEF StopReplies, EndedDelivered, ScreenTypes, dialogVars, Nobody
<1>10. CASE SampleArrives \/ HeartbeatTick
  BY <1>0, <1>10 DEF SampleArrives, HeartbeatTick, ScreenTypes, dialogVars
<1>11. ASSUME NEW s \in Ids, StartReplies(s)
       PROVE  ScreenTypes'
  <2>1. s \in 1..lastId
    BY <1>a, <1>11 DEF SessionInv, StartReplies, Ids
  <2>2. /\ active' = s /\ devices' = devices
        /\ strikes' \in 0..1 /\ quiet' \in 0..HeartbeatTicks
    BY <1>11, SetActiveSteps DEF StartReplies
  <2>3. cooling' \in BOOLEAN
    BY <1>0, <1>11 DEF StartReplies, ScreenTypes
  <2>4. QED
    BY <1>0, <1>a, <1>11, <2>1, <2>2, <2>3 DEF StartReplies, ScreenTypes
<1>12. ASSUME NEW s \in Ids,
              \/ Installs(s) \/ SessionStopped(s) \/ SchedulerDies(s)
              \/ WatcherAnnounces(s) \/ WatcherCleans(s)
       PROVE  ScreenTypes'
  BY <1>2, <1>12
     DEF Installs, SessionStopped, SchedulerDies, WatcherAnnounces, WatcherCleans
<1>13. QED
  BY <1>2, <1>3, <1>4, <1>5, <1>6, <1>b, <1>7, <1>8, <1>9, <1>10, <1>11, <1>12
     DEF Next, liveVars

LEMMA TypesStep ==
    ASSUME LiveTypes, \A s \in Ids : SessionInv(s), [Next]_liveVars
    PROVE  LiveTypes'
<1>1. StartTypes' /\ SessionTypes' /\ StopTypes' /\ ScreenTypes'
  BY StartTypesStep, SessionTypesStep, StopTypesStep, ScreenTypesStep
<1>2. QED
  BY <1>1, TypesInParts

-----------------------------------------------------------------------------
\* The tables of a session, as functions.
LEMMA SessionTables ==
    ASSUME LiveTypes
    PROVE  /\ stage \in [Ids -> {"none", "created", "installed", "replied"}]
           /\ life \in [Ids -> {"none", "running", "dead"}]
           /\ watcher \in [Ids -> {"none", "armed", "cleaning", "done"}]
           /\ stopper \in [Ids -> {"none", "command", "replaced", "watcher", "done"}]
           /\ slot \in 0..lastId /\ lastId \in Nat /\ Ids = 1..MaxSessions
           /\ Nobody = 0 /\ Nobody \notin Ids
<1>1. SessionTypes
  BY TypesInParts
<1>2. QED
  BY <1>1, StartsCounted, Bounds DEF SessionTypes, Ids, Nobody

\* What a session's start, tasks and stop say of each other stays true.
LEMMA SessionsStep ==
    ASSUME LiveTypes, \A s \in Ids : SessionInv(s), [Next]_liveVars,
           NEW t \in Ids
    PROVE  SessionInv(t)'
<1>0. /\ SessionInv(t)
      /\ stage \in [Ids -> {"none", "created", "installed", "replied"}]
      /\ life \in [Ids -> {"none", "running", "dead"}]
      /\ watcher \in [Ids -> {"none", "armed", "cleaning", "done"}]
      /\ stopper \in [Ids -> {"none", "command", "replaced", "watcher", "done"}]
      /\ slot \in 0..lastId /\ lastId \in Nat
      /\ Nobody = 0 /\ t \in 1..MaxSessions /\ MaxSessions \in Nat
  BY SessionTables, Bounds
<1>1. CASE UNCHANGED <<lastId, sessions>>
  BY <1>0, <1>1 DEF SessionInv, sessions
<1>2. CASE BackendCreates
  BY <1>0, <1>2 DEF BackendCreates, SessionInv
<1>3. CASE ClickStart \/ ProbeAnswers \/ CancelDialog \/ ConfirmDialog
  BY <1>1, <1>3
     DEF ClickStart, ProbeAnswers, CancelDialog, ConfirmDialog, AskStart, ShowDialog
<1>4. CASE CooldownEnds \/ StartFails \/ ClickStop \/ StopReplies \/ Poll
           \/ EndedDelivered \/ SampleArrives \/ HeartbeatTick
  BY <1>1, <1>4
     DEF CooldownEnds, StartFails, ClickStop, StopReplies, Poll, EndedDelivered,
         SampleArrives, HeartbeatTick
<1>5. CASE StopTakes
  BY <1>0, <1>5 DEF StopTakes, SessionInv
<1>6. ASSUME NEW s \in Ids, Installs(s)
      PROVE  SessionInv(t)'
  <2>1. slot # s /\ SessionInv(s)
    BY <1>6 DEF Installs, SessionInv
  <2>2. CASE t = s
    BY <1>0, <1>6, <2>1, <2>2 DEF Installs, SessionInv
  <2>3. CASE t # s
    BY <1>0, <1>6, <2>3 DEF Installs, SessionInv
  <2>4. QED
    BY <2>2, <2>3
<1>7. ASSUME NEW s \in Ids, StartReplies(s)
      PROVE  SessionInv(t)'
  BY <1>0, <1>7 DEF StartReplies, SessionInv
<1>8. ASSUME NEW s \in Ids, SessionStopped(s)
      PROVE  SessionInv(t)'
  <2>1. CASE t = s
    BY <1>0, <1>8, <2>1 DEF SessionStopped, SessionInv
  <2>2. CASE t # s
    BY <1>0, <1>8, <2>2 DEF SessionStopped, SessionInv
  <2>3. QED
    BY <2>1, <2>2
<1>9. ASSUME NEW s \in Ids, SchedulerDies(s) \/ WatcherAnnounces(s)
      PROVE  SessionInv(t)'
  BY <1>0, <1>9 DEF SchedulerDies, WatcherAnnounces, SessionInv
<1>10. ASSUME NEW s \in Ids, WatcherCleans(s)
       PROVE  SessionInv(t)'
  <2>1. CASE slot = s
    BY <1>0, <1>10, <2>1 DEF WatcherCleans, SessionInv
  <2>2. CASE slot # s
    BY <1>0, <1>10, <2>2 DEF WatcherCleans, SessionInv
  <2>3. QED
    BY <2>1, <2>2
<1>11. QED
  BY <1>1, <1>2, <1>3, <1>4, <1>5, <1>6, <1>7, <1>8, <1>9, <1>10 DEF Next, liveVars

-----------------------------------------------------------------------------
\* What waiting means: with anything under way no start is, and no dialog.
LEMMA NotSilent ==
    ASSUME LiveTypes, Patient, ~Silence
    PROVE  StartsInFlight = 0 /\ dialog = "none"
<1>1. QED
  BY StartsCounted DEF Patient

\* At rest with an empty screen nothing of any session is under way.
LEMMA SilenceAtRest ==
    ASSUME LiveTypes, \A s \in Ids : SessionInv(s), OnlyNewest, Settled,
           active = Nobody
    PROVE  Silence
<1>1. stopsAsked = 0 /\ stopsDone = 0 /\ endedEvents = <<>>
  BY DEF Settled
<1>2. ASSUME NEW s \in 1..lastId
      PROVE  Past(s) /\ stopper[s] # "replaced"
  <2>1. s \in Ids /\ s > 0 /\ Nobody = 0 /\ s <= lastId /\ lastId \in Nat
    BY StartsCounted, SessionTables, Bounds
  <2>2. /\ stage[s] = "replied" /\ stopper[s] \in {"none", "done"}
        /\ life[s] = "dead" => watcher[s] = "done"
    BY <2>1, SessionTables DEF Settled, SessionInv
  <2>3. CASE s < lastId
    BY <2>1, <2>2, <2>3 DEF OnlyNewest
  <2>4. CASE s = lastId
    <3>1. life[s] # "none" /\ (stopper[s] = "done" => life[s] = "dead")
      BY <2>1 DEF SessionInv
    <3>2. life[s] # "running"
      BY <2>1, <2>2, <2>4, <3>1 DEF OnlyNewest, Newest
    <3>3. QED
      BY <2>1, <2>2, <3>1, <3>2, SessionTables DEF Past
  <2>5. QED
    BY <2>1, <2>3, <2>4
<1>3. QED
  BY <1>1, <1>2 DEF Silence

\* What a waiting user's session was while a stop, an event or a task of it
\* is at work: it is the newest, and nothing else is under way.
LEMMA AtWork ==
    ASSUME LiveTypes, \A s \in Ids : SessionInv(s), Patient, OnlyNewest,
           NEW s \in Ids, stage[s] # "none", ~Past(s)
    PROVE  s = lastId /\ Newest(s) /\ StartsInFlight = 0 /\ dialog = "none"
<1>1. s \in Nat /\ s >= 1 /\ s <= lastId /\ lastId \in Nat
  BY SessionTables, Bounds DEF SessionInv
<1>2. s = lastId
  BY <1>1 DEF OnlyNewest
<1>3. ~Silence
  BY <1>1 DEF Silence
<1>4. QED
  BY <1>2, <1>3, NotSilent DEF OnlyNewest

LEMMA CommandAtWork ==
    ASSUME LiveTypes, \A s \in Ids : SessionInv(s), Patient, OnlyNewest,
           Recording \/ stopsAsked > 0 \/ stopsDone > 0 \/ endedEvents # <<>>
    PROVE  /\ lastId \in Ids /\ Newest(lastId) /\ SessionInv(lastId)
           /\ StartsInFlight = 0 /\ dialog = "none"
           /\ stage[lastId] = "replied" \/ (endedEvents # <<>> /\ stage[lastId] # "none")
<1>1. lastId \in Nat /\ lastId <= MaxSessions /\ stopsAsked \in Nat /\ stopsDone \in Nat
      /\ endedEvents \in Seq(Ids)
  BY StartsCounted, Bounds DEF LiveTypes, LiveTypeOK
<1>2. endedEvents # <<>> => endedEvents[1] = lastId /\ endedEvents[1] \in Ids
  BY <1>1, EmptySeq, LenProperties, ElementOfSeq DEF OnlyNewest
<1>3. lastId \in Ids
  BY <1>1, <1>2, SessionTables DEF OnlyNewest, Recording, Nobody
<1>4. ~Silence
  BY <1>1 DEF Silence, Recording
<1>5. Newest(lastId) /\ SessionInv(lastId)
  BY <1>3 DEF OnlyNewest
<1>6. stage[lastId] # "none"
  BY <1>1, <1>5 DEF SessionInv
<1>7. QED
  BY <1>1, <1>3, <1>4, <1>5, <1>6, NotSilent DEF Newest, Recording

\* A start asked for by a user who waits, directly or through the dialog.
LEMMA AskCalm ==
    ASSUME LiveTypes, \A s \in Ids : SessionInv(s), Patient, OnlyNewest,
           active = Nobody \/ Silence, NEW k \in Kinds, AskStart(k), ~crossed',
           dialog' = "none" \/ dialog' = dialog
    PROVE  Settled /\ Silence /\ StartsInFlight' = 1
<1>1. Settled
  BY DEF AskStart
<1>2. Silence
  BY <1>1, SilenceAtRest
<1>3. QED
  BY <1>1, <1>2, AskSteps DEF Settled

\* The parts of the calm that only the sessions, the commands, the events
\* and the screen decide.
LEMMA CalmFrame ==
    ASSUME UNCHANGED <<lastId, sessions, stops, endedEvents, active>>
    PROVE  (Silence' <=> Silence) /\ (OnlyNewest => OnlyNewest')
<1>1. QED
  BY DEF Silence, OnlyNewest, Newest, Past, sessions, stops

\* A waiting user stays one: a start begins and ends in silence.
LEMMA PatientStep ==
    ASSUME LiveTypes, \A s \in Ids : SessionInv(s), Patient, OnlyNewest,
           [Next]_liveVars, ~crossed'
    PROVE  Patient'
<1>0. StartsInFlight \in Nat
  BY StartsCounted
<1>1. CASE ClickStart
  <2>1. active = Nobody
    BY <1>1 DEF ClickStart, Recording
  <2>2. CASE cooling
    <3>1. Settled /\ UNCHANGED <<lastId, asking, sessions, stops, endedEvents, screen>>
      BY <1>1, <2>2 DEF ClickStart
    <3>2. Silence /\ StartsInFlight = 0
      BY <2>1, <3>1, SilenceAtRest DEF Settled
    <3>3. Silence' /\ StartsInFlight' = 0
      BY <3>1, <3>2, CalmFrame DEF screen, StartsInFlight
    <3>4. QED
      BY <3>3 DEF Patient
  <2>3. CASE ~cooling
    <3>1. AskStart("timed") /\ "timed" \in Kinds /\ dialog' = "none"
      BY <1>1, <2>3 DEF ClickStart, Kinds
    <3>2. Silence /\ StartsInFlight' = 1
      BY <2>1, <3>1, AskCalm
    <3>3. Silence'
      BY <3>1, <3>2, AskSteps, CalmFrame DEF screen
    <3>4. QED
      BY <3>1, <3>2, <3>3 DEF Patient
  <2>4. QED
    BY <2>2, <2>3
<1>2. CASE ProbeAnswers \/ ConfirmDialog \/ CancelDialog
  <2>1. Silence /\ StartsInFlight = 0
    BY <1>2 DEF ProbeAnswers, ConfirmDialog, CancelDialog, Patient
  <2>2. ASSUME NEW k \in Kinds, AskStart(k), dialog' = "none"
        PROVE  Patient'
    <3>1. StartsInFlight' = 1
      BY <2>1, <2>2, AskCalm
    <3>2. Silence'
      BY <2>1, <2>2, AskSteps, CalmFrame DEF screen
    <3>3. QED
      BY <2>2, <3>1, <3>2 DEF Patient
  <2>3. CASE ShowDialog("cooldown") \/ ShowDialog("none")
    <3>1. Silence'
      BY <2>1, <2>3, CalmFrame DEF ShowDialog, screen
    <3>2. StartsInFlight' = 0
      BY <2>1, <2>3 DEF ShowDialog, StartsInFlight
    <3>3. QED
      BY <3>1, <3>2 DEF Patient
  <2>4. QED
    BY <1>2, <2>2, <2>3 DEF ProbeAnswers, ConfirmDialog, CancelDialog, Kinds
<1>3. CASE BackendCreates \/ StartFails
  <2>1. PICK k \in Kinds : asking[k] > 0 /\ asking' = [asking EXCEPT ![k] = @ - 1]
    BY <1>3 DEF BackendCreates, StartFails
  <2>2. StartsInFlight > 0 /\ StartsInFlight' = StartsInFlight - 1
    BY <2>1, StartLeaves
  <2>3. StartsInFlight' = 0 /\ dialog = "none" /\ dialog' = dialog
    BY <1>3, <2>2 DEF Patient, BackendCreates, StartFails, dialogVars
  <2>4. QED
    BY <2>3 DEF Patient
<1>4. CASE CooldownEnds \/ SampleArrives \/ UNCHANGED liveVars
  <2>1. UNCHANGED <<lastId, asking, sessions, stops, endedEvents, active, dialog>>
    BY <1>4 DEF CooldownEnds, SampleArrives, liveVars, screen, dialogVars
  <2>2. QED
    BY <2>1, CalmFrame DEF Patient, StartsInFlight
<1>5. CASE StartsInFlight = 0 /\ dialog = "none" /\ UNCHANGED <<asking, dialog>>
  BY <1>5 DEF Patient, StartsInFlight
<1>6. CASE Poll
  <2>1. CASE Recording
    BY <1>5, <1>6, <2>1, CommandAtWork DEF Poll, dialogVars
  <2>2. CASE ~Recording
    <3>1. UNCHANGED <<lastId, asking, sessions, stops, endedEvents, active, dialog>>
      BY <1>6, <2>2, WatchdogSteps DEF Poll, dialogVars, stops, RunWatchdog, WatchdogVerdict
    <3>2. QED
      BY <3>1, CalmFrame DEF Patient, StartsInFlight
  <2>3. QED
    BY <2>1, <2>2
<1>7. CASE ClickStop \/ StopTakes \/ StopReplies \/ EndedDelivered \/ HeartbeatTick
  <2>1. /\ Recording \/ stopsAsked > 0 \/ stopsDone > 0 \/ endedEvents # <<>>
        /\ UNCHANGED <<asking, dialog>>
    BY <1>7
       DEF ClickStop, StopTakes, StopReplies, EndedDelivered, HeartbeatTick, dialogVars
  <2>2. QED
    BY <1>5, <2>1, CommandAtWork
<1>8. ASSUME NEW s \in Ids,
             \/ Installs(s) \/ StartReplies(s) \/ SessionStopped(s)
             \/ SchedulerDies(s) \/ WatcherAnnounces(s) \/ WatcherCleans(s)
      PROVE  Patient'
  <2>1. stage[s] # "none"
    BY <1>8, SessionTables
       DEF Installs, StartReplies, SessionStopped, SchedulerDies, WatcherAnnounces,
           WatcherCleans, SessionInv
  <2>2. ~Past(s) \/ stopper[s] = "replaced"
    BY <1>8
       DEF Installs, StartReplies, SessionStopped, SchedulerDies, WatcherAnnounces,
           WatcherCleans, Past
  <2>3. ~Silence
    BY <2>1, <2>2, SessionTables, Bounds DEF Silence, SessionInv
  <2>4. StartsInFlight = 0 /\ dialog = "none"
    BY <2>3, NotSilent
  <2>5. UNCHANGED <<asking, dialog>>
    BY <1>8
       DEF Installs, StartReplies, SessionStopped, SchedulerDies, WatcherAnnounces,
           WatcherCleans, dialogVars
  <2>6. QED
    BY <1>5, <2>4, <2>5
<1>9. QED
  BY <1>1, <1>2, <1>3, <1>4, <1>6, <1>7, <1>8 DEF Next

\* The newest session stays the only one that matters.
LEMMA NewestStep ==
    ASSUME LiveTypes, \A s \in Ids : SessionInv(s), Patient, OnlyNewest,
           [Next]_liveVars, ~crossed'
    PROVE  OnlyNewest'
<1> USE SessionTables, Bounds
<1>0. /\ lastId \in Nat /\ stopsAsked \in Nat /\ stopsDone \in Nat
      /\ endedEvents \in Seq(Ids)
  BY StartsCounted DEF LiveTypes, LiveTypeOK
<1>1. CASE UNCHANGED <<lastId, sessions, stops, endedEvents, active>>
  BY <1>1, CalmFrame
<1>2. CASE ClickStart \/ ProbeAnswers \/ CancelDialog \/ ConfirmDialog
           \/ CooldownEnds \/ StartFails \/ SampleArrives \/ UNCHANGED liveVars
  BY <1>1, <1>2
     DEF ClickStart, ProbeAnswers, CancelDialog, ConfirmDialog, AskStart, ShowDialog,
         CooldownEnds, StartFails, SampleArrives, screen, liveVars
<1>3. CASE BackendCreates
  <2>1. StartsInFlight > 0
    BY <1>3, StartLeaves DEF BackendCreates
  <2>2. Silence
    BY <2>1 DEF Patient
  <2>3. /\ lastId' = lastId + 1
        /\ stage' = [stage EXCEPT ![lastId + 1] = "created"]
        /\ life' = [life EXCEPT ![lastId + 1] = "running"]
        /\ watcher' = [watcher EXCEPT ![lastId + 1] = "armed"]
        /\ UNCHANGED <<slot, stopper, stops, endedEvents, active>>
    BY <1>3 DEF BackendCreates, screen
  <2>4. ASSUME NEW s \in Ids, s < lastId'
        PROVE  Past(s)'
    BY <1>0, <2>2, <2>3, <2>4 DEF Silence, Past
  <2>5. ASSUME NEW s \in Ids, s = lastId'
        PROVE  Newest(s)'
    BY <1>0, <2>2, <2>3, <2>5 DEF Silence, Newest, SessionInv, stops
  <2>6. /\ active' = Nobody /\ endedEvents' = <<>> /\ lastId' # 0
    BY <1>0, <2>2, <2>3 DEF Silence
  <2>7. QED
    BY <2>4, <2>5, <2>6 DEF OnlyNewest
<1>4. CASE ClickStop \/ HeartbeatTick \/ (Poll /\ Recording)
  <2>1. /\ lastId \in Ids /\ Newest(lastId) /\ active # Nobody
    BY <1>4, CommandAtWork DEF ClickStop, HeartbeatTick, Recording
  <2>2. UNCHANGED <<lastId, stage, life, slot, watcher, stopper, stopsDone, endedEvents, active>>
    BY <1>4 DEF ClickStop, HeartbeatTick, Poll, sessions, screen
  <2>3. QED
    BY <2>1, <2>2 DEF OnlyNewest, Newest, Past
<1>5. CASE Poll /\ ~Recording
  BY <1>1, <1>5 DEF Poll, RunWatchdog, WatchdogVerdict, stops
<1>6. CASE StopTakes
  <2>1. lastId \in Ids /\ Newest(lastId) /\ SessionInv(lastId) /\ stage[lastId] = "replied"
    BY <1>0, <1>6, CommandAtWork DEF StopTakes, Newest
  <2>2. /\ slot' = Nobody
        /\ stopper' = [t \in Ids |-> IF t = slot THEN "command" ELSE stopper[t]]
        /\ slot # Nobody => stopsDone' = stopsDone
        /\ UNCHANGED <<lastId, stage, life, watcher, endedEvents, active>>
    BY <1>6 DEF StopTakes, screen
  <2>3. ASSUME NEW s \in Ids, s < lastId
        PROVE  Past(s)'
    BY <1>0, <2>1, <2>2, <2>3 DEF OnlyNewest, Newest, Past
  <2>4. Newest(lastId)'
    BY <2>1, <2>2 DEF Newest, SessionInv
  <2>5. QED
    BY <2>1, <2>2, <2>3, <2>4 DEF OnlyNewest
<1>7. CASE StopReplies
  <2>1. /\ lastId \in Ids /\ Newest(lastId) /\ stopper[lastId] # "none"
    BY <1>0, <1>7, CommandAtWork DEF StopReplies, Newest
  <2>2. active' = Nobody /\ stopsAsked' = stopsAsked
    BY <1>7, SetActiveSteps DEF StopReplies
  <2>3. stopsDone' = stopsDone - 1 /\ stopsDone > 0
        /\ UNCHANGED <<lastId, stage, life, slot, watcher, stopper, endedEvents>>
    BY <1>7 DEF StopReplies, sessions
  <2>4. ASSUME NEW s \in Ids, s < lastId
        PROVE  Past(s)'
    BY <2>3, <2>4 DEF OnlyNewest, Past
  <2>5. Newest(lastId)'
    BY <1>0, <2>1, <2>2, <2>3 DEF Newest
  <2>6. QED
    BY <2>1, <2>2, <2>3, <2>4, <2>5 DEF OnlyNewest
<1>8. CASE EndedDelivered
  <2>1. /\ lastId \in Ids /\ Newest(lastId) /\ life[lastId] = "dead"
    BY <1>0, <1>8, CommandAtWork DEF EndedDelivered, Newest
  <2>2. active' = Nobody /\ stopsAsked' = stopsAsked
    BY <1>8, SetActiveSteps DEF EndedDelivered
  <2>3. endedEvents' = Tail(endedEvents) /\ endedEvents # <<>>
        /\ UNCHANGED <<lastId, stage, life, slot, watcher, stopper, stopsDone>>
    BY <1>8 DEF EndedDelivered, sessions
  <2>4. ASSUME NEW s \in Ids, s < lastId
        PROVE  Past(s)'
    BY <2>3, <2>4 DEF OnlyNewest, Past
  <2>5. Newest(lastId)'
    BY <2>1, <2>2, <2>3 DEF Newest
  <2>6. \A i \in DOMAIN endedEvents' : endedEvents'[i] = lastId
    <3>1. /\ Tail(endedEvents) \in Seq(Ids)
          /\ Len(Tail(endedEvents)) = Len(endedEvents) - 1 /\ Len(endedEvents) \in Nat
          /\ \A i \in 1..Len(Tail(endedEvents)) :
                Tail(endedEvents)[i] = endedEvents[i + 1]
          /\ DOMAIN Tail(endedEvents) = 1..Len(Tail(endedEvents))
          /\ DOMAIN endedEvents = 1..Len(endedEvents)
      BY <1>0, <2>3, HeadTailProperties, LenProperties
    <3>2. QED
      BY <2>3, <3>1 DEF OnlyNewest
  <2>7. QED
    BY <2>1, <2>2, <2>3, <2>4, <2>5, <2>6 DEF OnlyNewest
<1>9. ASSUME NEW s \in Ids, Installs(s) \/ StartReplies(s)
      PROVE  OnlyNewest'
  <2>1. s = lastId /\ Newest(s) /\ SessionInv(s) /\ s # Nobody
    BY <1>9, AtWork DEF Installs, StartReplies, Past
  <2>2. CASE Installs(s)
    <3>1. /\ stage[s] = "created" /\ slot # s
          /\ stage' = [stage EXCEPT ![s] = "installed"] /\ slot' = s
          /\ stopper' = [t \in Ids |-> IF t = slot THEN "replaced" ELSE stopper[t]]
          /\ UNCHANGED <<lastId, life, watcher, stops, endedEvents, active>>
      BY <2>1, <2>2 DEF Installs, SessionInv, screen
    <3>2. ASSUME NEW t \in Ids, t < lastId
          PROVE  Past(t)'
      BY <2>1, <3>1, <3>2 DEF OnlyNewest, Past
    <3>3. Newest(s)'
      BY <2>1, <3>1 DEF Newest, SessionInv, stops
    <3>4. QED
      BY <2>1, <3>1, <3>2, <3>3 DEF OnlyNewest, stops
  <2>3. CASE StartReplies(s)
    <3>1. /\ stage[s] = "installed" /\ stage' = [stage EXCEPT ![s] = "replied"]
          /\ UNCHANGED <<lastId, life, slot, watcher, stopper, stopsDone, endedEvents>>
      BY <2>3 DEF StartReplies
    <3>2. active' = s
      BY <2>3, SetActiveSteps DEF StartReplies
    <3>3. ASSUME NEW t \in Ids, t < lastId
          PROVE  Past(t)'
      BY <2>1, <3>1, <3>3 DEF OnlyNewest, Past
    <3>4. Newest(s)'
      BY <2>1, <3>1, <3>2 DEF Newest
    <3>5. QED
      BY <2>1, <3>1, <3>2, <3>3, <3>4 DEF OnlyNewest
  <2>4. QED
    BY <1>9, <2>2, <2>3
<1>10. ASSUME NEW s \in Ids, SessionStopped(s)
       PROVE  OnlyNewest'
  <2>1. /\ stopper[s] \in {"command", "replaced", "watcher"}
        /\ stopper' = [stopper EXCEPT ![s] = "done"]
        /\ life' = [life EXCEPT ![s] = "dead"]
        /\ stopsDone' # stopsDone => stopper[s] = "command"
        /\ watcher' = [watcher EXCEPT ![s] = "done"] \/ watcher' = watcher
        /\ UNCHANGED <<lastId, stage, slot, stopsAsked, endedEvents, active>>
    BY <1>10 DEF SessionStopped, screen
  <2>2. SessionInv(s) /\ stage[s] \in {"installed", "replied"} /\ s <= lastId
    BY <1>0, <2>1 DEF SessionInv
  <2>3. ASSUME NEW t \in Ids, t < lastId
        PROVE  Past(t)'
    BY <2>1, <2>3 DEF OnlyNewest, Past
  <2>4. ASSUME NEW t \in Ids, t = lastId
        PROVE  Newest(t)'
    <3>1. Newest(t) /\ SessionInv(t)
      BY <2>4 DEF OnlyNewest
    <3>2. CASE t = s
      BY <2>1, <2>2, <3>1, <3>2 DEF Newest
    <3>3. CASE t # s
      <4>1. Past(s)
        BY <1>0, <2>2, <2>4, <3>3 DEF OnlyNewest
      <4>2. stopsDone' = stopsDone
        BY <2>1, <4>1 DEF Past
      <4>3. QED
        BY <2>1, <3>1, <3>3, <4>2 DEF Newest
    <3>4. QED
      BY <3>2, <3>3
  <2>5. lastId # 0
    BY <1>0, <2>2
  <2>6. QED
    BY <2>1, <2>3, <2>4, <2>5 DEF OnlyNewest
<1>11. ASSUME NEW s \in Ids, SchedulerDies(s) \/ WatcherAnnounces(s) \/ WatcherCleans(s)
       PROVE  OnlyNewest'
  <2>1. s = lastId /\ Newest(s) /\ SessionInv(s) /\ s # Nobody
    <3>1. stage[s] # "none" /\ ~Past(s)
      BY <1>11 DEF SchedulerDies, WatcherAnnounces, WatcherCleans, Past, SessionInv
    <3>2. QED
      BY <3>1, AtWork
  <2>2. UNCHANGED <<lastId, stage, stops, active>>
    BY <1>11 DEF SchedulerDies, WatcherAnnounces, WatcherCleans, screen
  <2>3. ASSUME NEW t \in Ids, t < lastId
        PROVE  Past(t)'
    BY <1>11, <2>1, <2>2, <2>3
       DEF SchedulerDies, WatcherAnnounces, WatcherCleans, OnlyNewest, Past
  <2>4. CASE SchedulerDies(s)
    <3>1. Newest(s)' /\ endedEvents' = endedEvents
      BY <2>1, <2>2, <2>4 DEF SchedulerDies, Newest, stops
    <3>2. QED
      BY <2>1, <2>2, <2>3, <3>1 DEF OnlyNewest, stops
  <2>5. CASE WatcherAnnounces(s)
    <3>1. Newest(s)'
      BY <2>1, <2>2, <2>5 DEF WatcherAnnounces, Newest, stops
    <3>2. endedEvents' = endedEvents \/ endedEvents' = Append(endedEvents, s)
      BY <2>5 DEF WatcherAnnounces
    <3>3. \A i \in DOMAIN endedEvents' : endedEvents'[i] = lastId
      <4>1. CASE endedEvents' = endedEvents
        BY <4>1 DEF OnlyNewest
      <4>2. CASE endedEvents' = Append(endedEvents, s)
        <5>1. /\ Append(endedEvents, s) \in Seq(Ids)
              /\ Len(Append(endedEvents, s)) = Len(endedEvents) + 1
              /\ \A i \in 1..Len(endedEvents) : Append(endedEvents, s)[i] = endedEvents[i]
              /\ Append(endedEvents, s)[Len(endedEvents) + 1] = s
              /\ Len(endedEvents) \in Nat /\ DOMAIN endedEvents = 1..Len(endedEvents)
              /\ DOMAIN Append(endedEvents, s) = 1..Len(Append(endedEvents, s))
          BY <1>0, AppendProperties, LenProperties
        <5>2. QED
          BY <2>1, <4>2, <5>1 DEF OnlyNewest
      <4>3. QED
        BY <3>2, <4>1, <4>2
    <3>4. QED
      BY <2>1, <2>2, <2>3, <3>1, <3>3 DEF OnlyNewest, stops
  <2>6. CASE WatcherCleans(s)
    <3>1. Newest(s)' /\ endedEvents' = endedEvents
      BY <2>1, <2>2, <2>6 DEF WatcherCleans, Newest, stops
    <3>2. QED
      BY <2>1, <2>2, <2>3, <3>1 DEF OnlyNewest, stops
  <2>7. QED
    BY <1>11, <2>4, <2>5, <2>6
<1>12. QED
  BY <1>2, <1>3, <1>4, <1>5, <1>6, <1>7, <1>8, <1>9, <1>10, <1>11 DEF Next

\* A strike is only ever counted against a device that is listed unusable.
LEMMA StrikesStep ==
    ASSUME LiveTypes, strikes > 0 => devices = "unusable", [Next]_liveVars
    PROVE  (strikes > 0 => devices = "unusable")'
<1>0. strikes \in 0..1 /\ devices \in DeviceStates
  BY DEF LiveTypes, LiveTypeOK
<1>1. CASE UNCHANGED <<strikes, devices>>
  BY <1>1
<1>2. ASSUME NEW rec \in BOOLEAN, NEW d \in DeviceStates, RunWatchdog(rec, d), devices' = d
      PROVE  (strikes > 0 => devices = "unusable")'
  BY <1>0, <1>2 DEF RunWatchdog, WatchdogVerdict, DeviceStates
<1>3. ASSUME NEW x, SetActive(x)
      PROVE  (strikes > 0 => devices = "unusable")'
  <2>1. CASE (x = Nobody) = (active = Nobody)
    BY <1>1, <1>3, <2>1 DEF SetActive, watch
  <2>2. CASE (x = Nobody) # (active = Nobody)
    <3>1. RunWatchdog(x # Nobody, devices) /\ devices' = devices
      BY <1>3, <2>2 DEF SetActive
    <3>2. QED
      BY <1>0, <1>2, <3>1
  <2>3. QED
    BY <2>1, <2>2
<1>4. CASE Poll
  BY <1>2, <1>4 DEF Poll, Recording
<1>5. CASE StopReplies \/ EndedDelivered
  BY <1>3, <1>5 DEF StopReplies, EndedDelivered
<1>6. CASE ClickStart \/ ProbeAnswers \/ CancelDialog \/ ConfirmDialog \/ CooldownEnds
           \/ BackendCreates \/ StartFails \/ ClickStop \/ StopTakes \/ SampleArrives
           \/ HeartbeatTick \/ UNCHANGED liveVars
  BY <1>1, <1>6
     DEF ClickStart, ProbeAnswers, CancelDialog, ConfirmDialog, AskStart, ShowDialog,
         CooldownEnds, BackendCreates, StartFails, ClickStop, StopTakes, SampleArrives,
         HeartbeatTick, screen, liveVars
<1>7. ASSUME NEW s \in Ids, StartReplies(s)
      PROVE  (strikes > 0 => devices = "unusable")'
  BY <1>3, <1>7 DEF StartReplies
<1>8. ASSUME NEW s \in Ids,
             \/ Installs(s) \/ SessionStopped(s) \/ SchedulerDies(s)
             \/ WatcherAnnounces(s) \/ WatcherCleans(s)
      PROVE  (strikes > 0 => devices = "unusable")'
  BY <1>1, <1>8
     DEF Installs, SessionStopped, SchedulerDies, WatcherAnnounces, WatcherCleans, screen
<1>9. QED
  BY <1>4, <1>5, <1>6, <1>7, <1>8 DEF Next

-----------------------------------------------------------------------------
\* The inductive invariant, for every number of sessions and stops.
THEOREM LiveInvariance == Spec => []LiveInv
<1>1. Init => LiveInv
  <2> SUFFICES ASSUME Init PROVE LiveInv
    OBVIOUS
  <2> USE Bounds
  <2>1. StartTypes
    BY DEF Init, StartTypes, StartsInFlight, Kinds
  <2>2. SessionTypes
    BY DEF Init, SessionTypes, Ids, Nobody
  <2>3. StopTypes
    BY EmptySeq DEF Init, StopTypes
  <2>4. ScreenTypes
    <3>1. cooling \in BOOLEAN /\ crossed \in BOOLEAN
      BY DEF Init
    <3>2. active \in 0..lastId /\ strikes \in 0..1 /\ quiet \in 0..HeartbeatTicks
      BY DEF Init, Nobody
    <3>3. QED
      BY <3>1, <3>2 DEF Init, ScreenTypes, DeviceStates
  <2>5. LiveTypes
    <3>1. asking["timed"] \in Nat /\ asking["plain"] \in Nat /\ StartsInFlight = 0
      BY DEF Init, StartsInFlight, Kinds
    <3>2. \A i \in DOMAIN endedEvents : endedEvents[i] \in Ids
      BY EmptySeq, LenProperties DEF Init
    <3>3. LiveTypeOK
      BY <2>1, <2>2, <2>3, <2>4, <3>1, <3>2
         DEF LiveTypeOK, StartTypes, SessionTypes, StopTypes, ScreenTypes
    <3>4. QED
      BY <2>1, <2>3, <3>3 DEF LiveTypes, StartTypes, StopTypes
  <2>6. ASSUME NEW s \in Ids
        PROVE  SessionInv(s)
    BY DEF Init, SessionInv, Ids, Nobody
  <2>7. Patient
    BY DEF Init, Patient, StartsInFlight, Kinds
  <2>8. OnlyNewest
    <3>1. \A i \in DOMAIN endedEvents : endedEvents[i] = lastId
      BY EmptySeq, LenProperties DEF Init
    <3>2. QED
      BY <3>1 DEF Init, OnlyNewest, Ids
  <2>9. QED
    BY <2>5, <2>6, <2>7, <2>8 DEF LiveInv, Init
<1>2. LiveInv /\ [Next]_liveVars => LiveInv'
  <2> SUFFICES ASSUME LiveInv, [Next]_liveVars PROVE LiveInv'
    OBVIOUS
  <2>1. /\ LiveTypes /\ \A s \in Ids : SessionInv(s)
        /\ strikes > 0 => devices = "unusable"
    BY DEF LiveInv
  <2>2. LiveTypes' /\ (\A s \in Ids : SessionInv(s))'
    BY <2>1, TypesStep, SessionsStep DEF Ids
  <2>3. (strikes > 0 => devices = "unusable")'
    BY <2>1, StrikesStep
  <2>4. ASSUME ~crossed'
        PROVE  Patient' /\ OnlyNewest'
    <3>1. ~crossed
      BY <2>4
         DEF Next, liveVars, ClickStart, ProbeAnswers, CancelDialog, ConfirmDialog,
             AskStart, ShowDialog, CooldownEnds, BackendCreates, StartFails, ClickStop,
             StopTakes, StopReplies, Poll, EndedDelivered, SampleArrives,
             HeartbeatTick, Installs, StartReplies, SessionStopped, SchedulerDies,
             WatcherAnnounces, WatcherCleans
    <3>2. Patient /\ OnlyNewest
      BY <3>1 DEF LiveInv
    <3>3. QED
      BY <2>1, <2>4, <3>2, PatientStep, NewestStep
  <2>5. QED
    BY <2>2, <2>3, <2>4 DEF LiveInv
<1>3. QED
  BY <1>1, <1>2, PTL DEF Spec

\* The types of every reachable state.
THEOREM TypesOfLiveView == Spec => []LiveTypeOK
<1>1. LiveInv => LiveTypeOK
  BY DEF LiveInv, LiveTypes
<1>2. QED
  BY <1>1, LiveInvariance, PTL

\* At rest the screen tells the truth: what records is the session in
\* AppState, it is alone, and to a user who waited it is the one on screen.
\* (LiveView.tsx:231-288, session.rs:291-311.)
THEOREM ScreenIsTrue == Spec => []ScreenTellsTheTruth
<1>1. ASSUME LiveInv, Settled, NEW s \in Ids, life[s] = "running"
      PROVE  slot = s /\ stage[s] = "replied" /\ stopper[s] = "none" /\ s <= lastId
  <2>1. LiveTypes /\ SessionInv(s)
    BY <1>1 DEF LiveInv
  <2>2. QED
    BY <1>1, <2>1, SessionTables, Bounds DEF SessionInv, Settled
<1>2. LiveInv => ScreenMatchesBackend
  <2> SUFFICES ASSUME LiveInv, ~crossed, Settled
               PROVE  /\ \A s \in Ids : life[s] = "running" => slot = s /\ active = s
                      /\ active # Nobody /\ slot # Nobody => slot = active
    BY DEF ScreenMatchesBackend
  <2>1. /\ LiveTypes /\ OnlyNewest /\ \A s \in Ids : SessionInv(s)
    BY DEF LiveInv
  <2>2. ASSUME NEW s \in Ids, life[s] = "running"
        PROVE  slot = s /\ active = s
    <3>1. slot = s /\ stage[s] = "replied" /\ stopper[s] = "none" /\ s <= lastId
      BY <1>1, <2>2
    <3>2. s = lastId
      BY <2>1, <2>2, <3>1, SessionTables, Bounds DEF OnlyNewest, Past
    <3>3. QED
      BY <2>1, <2>2, <3>1, <3>2 DEF OnlyNewest, Newest
  <2>3. ASSUME active # Nobody, slot # Nobody
        PROVE  slot = active
    <3>1. active = lastId /\ lastId \in Ids
      BY <2>1, <2>3, SessionTables, StartsCounted, Bounds DEF OnlyNewest
    <3>2. Newest(lastId)
      BY <2>1, <3>1 DEF OnlyNewest
    <3>3. QED
      BY <2>3, <3>1, <3>2 DEF Newest, Settled
  <2>4. QED
    BY <2>2, <2>3
<1>3. LiveInv => OneRecorderAtRest
  <2> SUFFICES ASSUME LiveInv, Settled
               PROVE  Cardinality({s \in Ids : life[s] = "running"}) <= 1
    BY DEF OneRecorderAtRest
  <2>1. {s \in Ids : life[s] = "running"} \subseteq {slot}
    BY <1>1
  <2>2. IsFiniteSet({slot}) /\ Cardinality({slot}) = 1
    BY FS_Singleton
  <2>3. QED
    BY <2>1, <2>2, FS_Subset
<1>4. LiveInv => ScreenTellsTheTruth
  BY <1>2, <1>3 DEF ScreenTellsTheTruth
<1>5. QED
  BY <1>4, LiveInvariance, PTL

\* The watchdog never ends a session for one flicker of its device.
\* (LiveView.tsx:426-495.)
THEOREM FlickersCostNothing == Spec => NoStopOnFlicker
<1>1. LiveInv /\ [Next]_liveVars
        => [Poll /\ stopsAsked' > stopsAsked =>
              devices' = "gone" \/ (devices = "unusable" /\ devices' = "unusable")]_liveVars
  <2> SUFFICES ASSUME LiveInv, Poll, stopsAsked' > stopsAsked
               PROVE  devices' = "gone"
                      \/ (devices = "unusable" /\ devices' = "unusable")
    OBVIOUS
  <2>1. /\ strikes \in 0..1 /\ stopsAsked \in Nat
        /\ strikes > 0 => devices = "unusable"
    BY Bounds DEF LiveInv, LiveTypes, LiveTypeOK
  <2>2. PICK d \in DeviceStates : devices' = d /\ RunWatchdog(Recording, d)
    BY DEF Poll
  <2>3. WatchdogVerdict(Recording, d, strikes).stop
    BY <2>1, <2>2 DEF RunWatchdog
  <2>4. d # "usable" /\ (d = "gone" \/ strikes + 1 >= 2)
    BY <2>1, <2>3 DEF WatchdogVerdict
  <2>5. QED
    BY <2>1, <2>2, <2>4 DEF DeviceStates
<1>2. QED
  BY <1>1, LiveInvariance, PTL DEF NoStopOnFlicker, Spec
=============================================================================
