------------------------------ MODULE LiveView ------------------------------
(***************************************************************************)
(* The Live tab against its backend: which session the screen believes to  *)
(* record (activeSessionId, owned by App), the Start and Stop buttons, the *)
(* cooldown dialog, the device watchdog and the sample heartbeat, and, on  *)
(* the other side of tauri's IPC, the session in AppState, its scheduler   *)
(* and its exit watcher.                                                   *)
(*                                                                         *)
(* The web view runs one handler at a time; an await splits a handler in   *)
(* two.  Commands run concurrently in the backend and their replies come   *)
(* back in any order.  The tasks inside a session are Recording's          *)
(* subject: here a session runs, or its scheduler died.                    *)
(***************************************************************************)
EXTENDS Naturals, Sequences, FiniteSets

CONSTANTS
    MaxSessions,     \* bound: ids handed out by create_session
    MaxStops,        \* bound: stop_session calls in flight at once
    HeartbeatTicks   \* interval ticks in HEARTBEAT_TIMEOUT_MS

ASSUME LiveViewAssumption ==
    /\ MaxSessions \in Nat
    /\ MaxStops \in Nat \ {0}
    /\ HeartbeatTicks \in Nat \ {0}

Ids == 1..MaxSessions
Nobody == 0
Kinds == {"timed", "plain"}   \* with or without startup_timing
DeviceStates == {"usable", "unusable", "gone"}

VARIABLES
    lastId,          \* ids handed out
    asking,          \* [Kinds -> start_session calls still launching the app]
    stage,           \* [Ids -> where the id's start_session call is]
    timed,           \* ids whose start measured the launch
    life,            \* [Ids -> the scheduler task]
    slot,            \* AppState.session
    flag,            \* ids whose user_stopping is set
    watcher,         \* [Ids -> the exit watcher task]
    stopper,         \* [Ids -> whose Session::stop runs on it]
    stopsAsked,      \* stop_session calls that have not reached the lock
    stopsDone,       \* their replies under way to the screen
    endedEvents,     \* EVENT_SESSION_ENDED under way, oldest first
    active,          \* activeSessionId
    devices,         \* the selected device in the last list_devices answer
    strikes,         \* disconnectStrikesRef
    quiet,           \* heartbeat ticks since lastSampleAtRef
    dialog,          \* "none", "probing" or "cooldown" (pendingStart)
    cooling,         \* cooldown.inCooldown
    crossed          \* history: Start was clicked, or a start asked for,
                     \* before everything had settled

sessions == <<stage, timed, life, slot, flag, watcher, stopper>>
stops == <<stopsAsked, stopsDone>>
watch == <<strikes, quiet>>
screen == <<active, devices, strikes, quiet>>
dialogVars == <<dialog, cooling>>
liveVars == <<lastId, asking, sessions, stops, endedEvents, screen,
              dialogVars, crossed>>

Recording == active # Nobody
StartsInFlight == asking["timed"] + asking["plain"]
AtMostStops(n) == IF n > MaxStops THEN MaxStops ELSE n

(* Everything begun has come to rest. *)
Settled ==
    /\ StartsInFlight = 0
    /\ stopsAsked = 0 /\ stopsDone = 0 /\ endedEvents = <<>>
    /\ \A s \in Ids :
          /\ stage[s] \in {"none", "replied"}
          /\ stopper[s] \in {"none", "done"}
          /\ life[s] = "dead" => watcher[s] = "done"

Init ==
    /\ devices = "usable"
    /\ lastId = 0 /\ slot = Nobody
    /\ asking = [k \in Kinds |-> 0]
    /\ stage = [s \in Ids |-> "none"]
    /\ life = [s \in Ids |-> "none"]
    /\ watcher = [s \in Ids |-> "none"]
    /\ stopper = [s \in Ids |-> "none"]
    /\ timed = {} /\ flag = {}
    /\ stopsAsked = 0 /\ stopsDone = 0 /\ endedEvents = <<>>
    /\ active = Nobody /\ strikes = 0 /\ quiet = 0
    /\ dialog = "none" /\ cooling = FALSE
    /\ crossed = FALSE

-----------------------------------------------------------------------------
(* The effects. *)

(* Mistake: a usable poll does not clear the strike. *)
WatchdogVerdictKeepsStrike(rec, d, k) ==
    IF ~rec THEN [strikes |-> 0, stop |-> FALSE]
    ELSE IF d = "usable" THEN [strikes |-> k, stop |-> FALSE]
    ELSE IF d = "gone" \/ k + 1 >= 2 THEN [strikes |-> 0, stop |-> TRUE]
    ELSE [strikes |-> k + 1, stop |-> FALSE]

(* Mistake: a third strike is waited for. *)
WatchdogVerdictThreeStrikes(rec, d, k) ==
    IF ~rec \/ d = "usable" THEN [strikes |-> 0, stop |-> FALSE]
    ELSE IF d = "gone" \/ k + 1 >= 3 THEN [strikes |-> 0, stop |-> TRUE]
    ELSE [strikes |-> k + 1, stop |-> FALSE]

(* The device watchdog's body: what it makes of a list in which the        *)
(* selected device is d, with k strikes so far.                            *)
WatchdogVerdict(rec, d, k) ==
    IF ~rec \/ d = "usable" THEN [strikes |-> 0, stop |-> FALSE]
    ELSE IF d = "gone" \/ k + 1 >= 2 THEN [strikes |-> 0, stop |-> TRUE]
    ELSE [strikes |-> k + 1, stop |-> FALSE]

RunWatchdog(rec, d) ==
    LET v == WatchdogVerdict(rec, d, strikes) IN
    /\ strikes' = v.strikes
    /\ stopsAsked' = IF v.stop THEN AtMostStops(stopsAsked + 1) ELSE stopsAsked

(* setActiveSessionId, and the effects that depend on `recording`. *)
SetActive(s) ==
    /\ active' = s
    /\ UNCHANGED devices
    /\ IF (s = Nobody) = (active = Nobody)
       THEN UNCHANGED <<watch, stopsAsked>>
       ELSE RunWatchdog(s # Nobody, devices) /\ quiet' = 0

-----------------------------------------------------------------------------
(* Start. *)

(* startSession(...): the command is on its way. *)
AskStart(kind) ==
    /\ lastId + StartsInFlight < MaxSessions
    /\ asking' = [asking EXCEPT ![kind] = @ + 1]
    /\ crossed' = (crossed \/ ~Settled)
    /\ UNCHANGED <<lastId, sessions, stops, endedEvents, screen, cooling>>

ShowDialog(d) ==
    /\ dialog' = d
    /\ UNCHANGED <<lastId, asking, sessions, stops, endedEvents, screen,
                   cooling, crossed>>

(* handleStart: inside the cooldown the launch is probed first. *)
ClickStart ==
    /\ ~Recording /\ devices = "usable" /\ dialog = "none"
    /\ IF cooling
       THEN /\ dialog' = "probing"
            /\ crossed' = (crossed \/ ~Settled)
            /\ UNCHANGED <<lastId, asking, sessions, stops, endedEvents, screen,
                           cooling>>
       ELSE AskStart("timed") /\ UNCHANGED dialog

(* detectStartupMode answers: the app runs (hot); or it does not, or the   *)
(* probe failed (cold).                                                    *)
ProbeAnswers ==
    /\ dialog = "probing"
    /\ \/ ShowDialog("cooldown")
       \/ AskStart("timed") /\ dialog' = "none"

CancelDialog == dialog = "cooldown" /\ ShowDialog("none")

(* The dialog's two ways on: without the timing, or after the wait. *)
ConfirmDialog ==
    /\ dialog = "cooldown" /\ dialog' = "none"
    /\ AskStart("plain") \/ (~cooling /\ AskStart("timed"))

CooldownEnds ==
    /\ cooling /\ cooling' = FALSE
    /\ UNCHANGED <<lastId, asking, sessions, stops, endedEvents, screen,
                   dialog, crossed>>

(* start_recording up to create_session and Scheduler::start: the launch   *)
(* is over, the row exists, the scheduler and the exit watcher run.        *)
BackendCreates ==
    \E k \in Kinds :
    LET s == lastId + 1 IN
    /\ asking[k] > 0
    /\ asking' = [asking EXCEPT ![k] = @ - 1]
    /\ lastId' = s
    /\ timed' = IF k = "timed" THEN timed \union {s} ELSE timed
    /\ stage' = [stage EXCEPT ![s] = "created"]
    /\ life' = [life EXCEPT ![s] = "running"]
    /\ watcher' = [watcher EXCEPT ![s] = "armed"]
    /\ UNCHANGED <<slot, flag, stopper, stops, endedEvents, screen,
                   dialogVars, crossed>>

(* start_session fails: the screen shows the error. *)
StartFails ==
    \E k \in Kinds :
    /\ asking[k] > 0
    /\ asking' = [asking EXCEPT ![k] = @ - 1]
    /\ UNCHANGED <<lastId, sessions, stops, endedEvents, screen, dialogVars,
                   crossed>>

(* The swap under the lock; the displaced session is stopped by a task of  *)
(* its own.                                                                *)
Installs(s) ==
    /\ stage[s] = "created"
    /\ stage' = [stage EXCEPT ![s] = "installed"]
    /\ slot' = s
    /\ flag' = flag \union ({slot} \ {Nobody})
    /\ stopper' = [t \in Ids |-> IF t = slot THEN "replaced" ELSE stopper[t]]
    /\ UNCHANGED <<lastId, asking, timed, life, watcher, stops, endedEvents,
                   screen, dialogVars, crossed>>

(* startSession resolves in actuallyStartSession; a cold measurement       *)
(* starts the cooldown.                                                    *)
StartReplies(s) ==
    /\ stage[s] = "installed"
    /\ stage' = [stage EXCEPT ![s] = "replied"]
    /\ SetActive(s)
    /\ cooling' \in (IF s \in timed THEN {cooling, TRUE} ELSE {cooling})
    /\ UNCHANGED <<lastId, asking, timed, life, slot, flag, watcher, stopper,
                   stopsDone, endedEvents, dialog, crossed>>

-----------------------------------------------------------------------------
(* Stop. *)

ClickStop ==
    /\ Recording
    /\ stopsAsked < MaxStops
    /\ stopsAsked' = stopsAsked + 1
    /\ UNCHANGED <<lastId, asking, sessions, stopsDone, endedEvents, screen,
                   dialogVars, crossed>>

(* Mistake: the session is taken and forgotten. *)
StopForgets ==
    /\ stopsAsked > 0
    /\ stopsAsked' = stopsAsked - 1
    /\ slot' = Nobody
    /\ stopsDone' = AtMostStops(stopsDone + 1)
    /\ UNCHANGED <<lastId, asking, stage, timed, life, flag, watcher, stopper,
                   endedEvents, screen, dialogVars, crossed>>

(* stop_session takes whatever session is in AppState; Session::stop sets  *)
(* its user_stopping first.                                                *)
StopTakes ==
    /\ stopsAsked > 0
    /\ stopsAsked' = stopsAsked - 1
    /\ slot' = Nobody
    /\ flag' = flag \union ({slot} \ {Nobody})
    /\ stopper' = [t \in Ids |-> IF t = slot THEN "command" ELSE stopper[t]]
    /\ stopsDone' = IF slot = Nobody THEN AtMostStops(stopsDone + 1)
                    ELSE stopsDone
    /\ UNCHANGED <<lastId, asking, stage, timed, life, watcher, endedEvents,
                   screen, dialogVars, crossed>>

(* Session::stop is through: scheduler ended, writer drained, row stamped. *)
SessionStopped(s) ==
    /\ stopper[s] \in {"command", "replaced", "watcher"}
    /\ stopper' = [stopper EXCEPT ![s] = "done"]
    /\ life' = [life EXCEPT ![s] = "dead"]
    /\ stopsDone' = IF stopper[s] = "command"
                    THEN AtMostStops(stopsDone + 1) ELSE stopsDone
    /\ watcher' = IF stopper[s] = "watcher"
                  THEN [watcher EXCEPT ![s] = "done"] ELSE watcher
    /\ UNCHANGED <<lastId, asking, stage, timed, slot, flag, stopsAsked,
                   endedEvents, screen, dialogVars, crossed>>

(* The `finally` of every stopSession call: setActiveSessionId(null). *)
StopReplies ==
    /\ stopsDone > 0
    /\ stopsDone' = stopsDone - 1
    /\ SetActive(Nobody)
    /\ UNCHANGED <<lastId, asking, sessions, endedEvents, dialogVars, crossed>>

-----------------------------------------------------------------------------
(* The device, and the session that dies of it. *)

(* A list_devices answer that differs from the last one: the selected      *)
(* device changed, or some other device in the list did.  (react-query     *)
(* hands an equal answer on as the old object: no effect runs.)            *)
Poll ==
    \E d \in DeviceStates :
    /\ devices' = d
    /\ RunWatchdog(Recording, d)
    /\ UNCHANGED <<lastId, asking, sessions, stopsDone, endedEvents, active,
                   quiet, dialogVars, crossed>>

SchedulerDies(s) ==
    /\ life[s] = "running" /\ stopper[s] = "none"
    /\ life' = [life EXCEPT ![s] = "dead"]
    /\ UNCHANGED <<lastId, asking, stage, timed, slot, flag, watcher,
                   stopper, stops, endedEvents, screen, dialogVars, crossed>>

(* The exit watcher: quiet after a user stop, else it announces the end    *)
(* (app.emit may fail) ...                                                 *)
WatcherAnnounces(s) ==
    /\ watcher[s] = "armed" /\ life[s] = "dead"
    /\ IF s \in flag
       THEN /\ watcher' = [watcher EXCEPT ![s] = "done"]
            /\ UNCHANGED endedEvents
       ELSE /\ watcher' = [watcher EXCEPT ![s] = "cleaning"]
            /\ endedEvents' \in {Append(endedEvents, s), endedEvents}
    /\ UNCHANGED <<lastId, asking, stage, timed, life, slot, flag, stopper,
                   stops, screen, dialogVars, crossed>>

(* ... and takes its own session, if it is still the one in AppState. *)
WatcherCleans(s) ==
    /\ watcher[s] = "cleaning" /\ stopper[s] # "watcher"
    /\ IF slot = s
       THEN /\ slot' = Nobody
            /\ flag' = flag \union {s}
            /\ stopper' = [stopper EXCEPT ![s] = "watcher"]
            /\ UNCHANGED watcher
       ELSE /\ watcher' = [watcher EXCEPT ![s] = "done"]
            /\ UNCHANGED <<slot, flag, stopper>>
    /\ UNCHANGED <<lastId, asking, stage, timed, life, stops, endedEvents,
                   screen, dialogVars, crossed>>

(* The EVENT_SESSION_ENDED listener: it does not look at the id. *)
EndedDelivered ==
    /\ endedEvents # <<>>
    /\ endedEvents' = Tail(endedEvents)
    /\ SetActive(Nobody)
    /\ UNCHANGED <<lastId, asking, sessions, stopsDone, dialogVars, crossed>>

(* A sample of any session resets the heartbeat. *)
SampleArrives ==
    /\ Recording /\ quiet > 0
    /\ \E s \in Ids : life[s] = "running"
    /\ quiet' = 0
    /\ UNCHANGED <<lastId, asking, sessions, stops, endedEvents, active,
                   devices, strikes, dialogVars, crossed>>

(* Mistake: > for >= in the timeout's comparison, with a counter that stops. *)
HeartbeatTickTooLate ==
    /\ Recording
    /\ quiet' = IF quiet < HeartbeatTicks THEN quiet + 1 ELSE quiet
    /\ stopsAsked' = IF quiet' > HeartbeatTicks
                     THEN AtMostStops(stopsAsked + 1) ELSE stopsAsked
    /\ UNCHANGED <<lastId, asking, sessions, stopsDone, endedEvents, active,
                   devices, strikes, dialogVars, crossed>>

(* The interval: once the silence is long enough, every tick asks for a    *)
(* stop.                                                                   *)
HeartbeatTick ==
    /\ Recording
    /\ quiet' = IF quiet < HeartbeatTicks THEN quiet + 1 ELSE quiet
    /\ stopsAsked' = IF quiet' >= HeartbeatTicks
                     THEN AtMostStops(stopsAsked + 1) ELSE stopsAsked
    /\ UNCHANGED <<lastId, asking, sessions, stopsDone, endedEvents, active,
                   devices, strikes, dialogVars, crossed>>

-----------------------------------------------------------------------------
Next ==
    \/ ClickStart \/ ProbeAnswers \/ CancelDialog \/ ConfirmDialog
    \/ CooldownEnds \/ BackendCreates \/ StartFails
    \/ ClickStop \/ StopTakes \/ StopReplies
    \/ Poll \/ EndedDelivered \/ SampleArrives \/ HeartbeatTick
    \/ \E s \in Ids :
          \/ Installs(s) \/ StartReplies(s) \/ SessionStopped(s)
          \/ SchedulerDies(s) \/ WatcherAnnounces(s) \/ WatcherCleans(s)

Spec == Init /\ [][Next]_liveVars

(* Commands and tasks run, replies and events arrive, the interval ticks.  *)
(* Nothing is assumed of the user, the device or the samples.              *)
FairSpec ==
    /\ Spec
    /\ WF_liveVars(StopTakes) /\ WF_liveVars(StopReplies)
    /\ WF_liveVars(EndedDelivered) /\ WF_liveVars(HeartbeatTick)
    /\ \A s \in Ids : WF_liveVars(SessionStopped(s))

-----------------------------------------------------------------------------
(* Properties. *)

LiveTypeOK ==
    /\ devices \in DeviceStates
    /\ lastId \in 0..MaxSessions /\ StartsInFlight \in 0..MaxSessions
    /\ timed \subseteq 1..lastId /\ flag \subseteq 1..lastId
    /\ stage \in [Ids -> {"none", "created", "installed", "replied"}]
    /\ life \in [Ids -> {"none", "running", "dead"}]
    /\ watcher \in [Ids -> {"none", "armed", "cleaning", "done"}]
    /\ stopper \in [Ids -> {"none", "command", "replaced", "watcher", "done"}]
    /\ slot \in 0..lastId /\ active \in 0..lastId
    /\ stopsAsked \in 0..MaxStops /\ stopsDone \in 0..MaxStops
    /\ \A i \in DOMAIN endedEvents : endedEvents[i] \in Ids
    /\ strikes \in 0..1 /\ quiet \in 0..HeartbeatTicks
    /\ dialog \in {"none", "probing", "cooldown"}
    /\ cooling \in BOOLEAN /\ crossed \in BOOLEAN

(* For a user who clicks Start only when nothing is under way, the screen  *)
(* and AppState agree whenever things have come to rest: a session that    *)
(* records is the one on screen, and the screen never names another        *)
(* session than AppState.  It holds through deaths, lost announcements,    *)
(* watchdog, heartbeat and stops in any order.                             *)
(* (LiveView.tsx:231-288, 379-401, session.rs:291-311.)                    *)
ScreenMatchesBackend ==
    ~crossed /\ Settled =>
        /\ \A s \in Ids : life[s] = "running" => slot = s /\ active = s
        /\ active # Nobody /\ slot # Nobody => slot = active

(* However the user clicks, two sessions never go on recording side by     *)
(* side once things are at rest.  (session.rs:291-311.)                    *)
OneRecorderAtRest ==
    Settled => Cardinality({s \in Ids : life[s] = "running"}) <= 1

(* At rest the user sees what the backend does: one session at most        *)
(* records, and it is the one on screen, which the next Stop will end.     *)
ScreenTellsTheTruth == ScreenMatchesBackend /\ OneRecorderAtRest

(* The device watchdog ends a session only for a device that left the list *)
(* or that two lists running showed unusable: a flicker costs nothing.     *)
(* (LiveView.tsx:426-495.)                                                 *)
NoStopOnFlicker ==
    [][Poll /\ stopsAsked' > stopsAsked =>
          devices' = "gone" \/ (devices = "unusable" /\ devices' = "unusable")]_liveVars

(* A screen that shows a recording hears of samples again and again or     *)
(* stops showing it: dead and silent sessions are found out even if the    *)
(* backend announced nothing.  (LiveView.tsx:497-547.)                     *)
SilenceEnds == []<>(~Recording \/ quiet = 0)
=============================================================================
