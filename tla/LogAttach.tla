----------------------------- MODULE LogAttach -----------------------------
(***************************************************************************)
(* One log-stream task at work (run_android and run_ios of log_stream.rs): *)
(* it waits for the app's process, attaches, forwards the lines of the     *)
(* process it knows, and looks now and then whether it is still there.     *)
(* A start of the app brings a fresh pid; on iOS an app may have several.  *)
(***************************************************************************)
EXTENDS Naturals, FiniteSets

CONSTANTS
    MaxPids,       \* bound: processes the app starts
    MaxBlips       \* bound: polls that fail although the device is there

ASSUME LogAttachAssumption == MaxPids \in Nat /\ MaxBlips \in Nat

Pids == 1..MaxPids

VARIABLES
    platform,    \* the stream is run_android's or run_ios's
    procs,       \* running processes of the app
    lastPid,     \* the newest pid
    plugged,     \* the device is there
    blips,       \* polls that have failed so far
    broken,      \* a log connection has ended although the device was there
                 \* (an adb server that restarts, a line that is not text)
    cancel,      \* the stream's cancel flag
    at,          \* where the task is
    opened,      \* the log connection is open
    target,      \* pid (Android) or target_pids (iOS)
    announced,   \* the running wait has emitted Waiting
    status,      \* the last LogStreamStatus emitted; the pid it names, the
                 \* first of target_pids, stands for all of them
    unchecked    \* events emitted since the task last looked at cancel

world == <<platform, procs, lastPid, plugged>>
taskVars == <<at, opened, target, announced, status, unchecked>>
faults == <<blips, broken>>
vars == <<world, faults, cancel, taskVars>>

Status == [state : {"none", "waiting", "attached"}, pids : SUBSET Pids]

TypeOK ==
    /\ platform \in {"android", "ios"}
    /\ procs \in SUBSET Pids
    /\ lastPid \in 0..MaxPids
    /\ plugged \in BOOLEAN
    /\ blips \in 0..MaxBlips
    /\ broken \in BOOLEAN
    /\ cancel \in BOOLEAN
    /\ at \in {"wait", "probing", "sleeping", "attaching", "loop", "select",
               "watching", "resolving", "ended"}
    /\ opened \in BOOLEAN
    /\ target \in SUBSET Pids
    /\ announced \in BOOLEAN
    /\ status \in Status
    /\ unchecked \in 0..3

Init ==
    /\ platform \in {"android", "ios"}
    /\ procs = {}
    /\ lastPid = 0
    /\ plugged = TRUE
    /\ blips = 0
    /\ broken = FALSE
    /\ cancel = FALSE
    /\ at = "wait"
    /\ opened = FALSE
    /\ target = {}
    /\ announced = FALSE
    /\ status = [state |-> "none", pids |-> {}]
    /\ unchecked = 0

-----------------------------------------------------------------------------
(***************************************************************************)
(* The device and the caller                                               *)
(***************************************************************************)
ProcessStarts ==
    /\ lastPid < MaxPids
    /\ platform = "android" => procs = {}
    /\ lastPid' = lastPid + 1
    /\ procs' = procs \union {lastPid + 1}
    /\ UNCHANGED <<platform, plugged, faults, cancel, taskVars>>

ProcessDies ==
    /\ \E p \in procs : procs' = procs \ {p}
    /\ UNCHANGED <<platform, lastPid, plugged, faults, cancel, taskVars>>

Unplug ==
    /\ plugged
    /\ plugged' = FALSE
    /\ UNCHANGED <<platform, procs, lastPid, faults, cancel, taskVars>>

Stop ==
    /\ ~cancel
    /\ cancel' = TRUE
    /\ UNCHANGED <<world, faults, taskVars>>

-----------------------------------------------------------------------------
(***************************************************************************)
(* A poll of the device: pidof, PidList or resolve_bundle_to_pids.  An adb *)
(* trip that fails is no error to pidof but the answer "no process": its   *)
(* error is an adb that cannot be run, with the cable in or out.           *)
(***************************************************************************)
TripSucceeds == plugged /\ UNCHANGED faults

Blip == blips < MaxBlips /\ blips' = blips + 1 /\ UNCHANGED broken

TripFails == (~plugged /\ UNCHANGED faults) \/ Blip

PollFinds == TripSucceeds /\ procs # {}

PollFindsNone ==
    \/ TripSucceeds /\ procs = {}
    \/ platform = "android" /\ TripFails

PollErrs ==
    \/ platform = "android" /\ Blip
    \/ platform = "ios" /\ TripFails

\* A connection ends, or cannot be opened, with the device or on its own.
ConnectionFails ==
    /\ broken' = (broken \/ plugged)
    /\ UNCHANGED blips

Emit(state, pids) ==
    /\ status' = [state |-> state, pids |-> pids]
    /\ unchecked' = unchecked + 1

-----------------------------------------------------------------------------
(***************************************************************************)
(* Waiting for the app (wait_for_android_pid, wait_for_ios_pids)           *)
(***************************************************************************)
WaitChecks ==
    /\ at = "wait"
    /\ at' = IF cancel THEN "ended" ELSE "probing"
    /\ unchecked' = 0
    /\ UNCHANGED <<world, faults, cancel, opened, target, announced, status>>

ProbeFinds ==
    /\ at = "probing"
    /\ PollFinds
    /\ target' = procs
    /\ at' = "attaching"
    /\ UNCHANGED <<world, cancel, opened, announced, status, unchecked>>

\* No process, or an error, which counts as transient: announce it once.
ProbeMisses ==
    /\ at = "probing"
    /\ PollFindsNone \/ PollErrs
    /\ at' = "sleeping"
    /\ announced' = TRUE
    /\ IF announced THEN UNCHANGED <<status, unchecked>> ELSE Emit("waiting", {})
    /\ UNCHANGED <<world, cancel, opened, target>>

SleepEnds ==
    /\ at = "sleeping"
    /\ at' = "wait"
    /\ UNCHANGED <<world, faults, cancel, opened, target, announced, status,
                   unchecked>>

\* Emit Attached, then open the log connection unless it is open; opening
\* it may fail, which ends the task.
Attach ==
    /\ at = "attaching"
    /\ Emit("attached", target)
    /\ \/ /\ at' = "loop"
          /\ opened' = TRUE
          /\ UNCHANGED faults
       \/ /\ ~opened
          /\ ConnectionFails
          /\ at' = "ended"
          /\ UNCHANGED opened
    /\ UNCHANGED <<world, cancel, target, announced>>

-----------------------------------------------------------------------------
(***************************************************************************)
(* Streaming                                                               *)
(***************************************************************************)

LoopChecks ==
    /\ at = "loop"
    /\ at' = IF cancel THEN "ended" ELSE "select"
    /\ unchecked' = 0
    /\ UNCHANGED <<world, faults, cancel, opened, target, announced, status>>

\* A line of a process of the app: logcat's --pid filter or target_pids lets
\* it through or not.
LineComes ==
    /\ at = "select"
    /\ plugged
    /\ \E p \in 1..lastPid : unchecked' = IF p \in target THEN unchecked + 1 ELSE unchecked
    /\ at' = "loop"
    /\ UNCHANGED <<world, faults, cancel, opened, target, announced, status>>

\* Mistake: the end of the file is taken for one more blank line.
SkipsEof ==
    /\ at = "select"
    /\ ~plugged
    /\ at' = "loop"
    /\ UNCHANGED <<world, faults, cancel, opened, target, announced, status,
                   unchecked>>

\* End of file, or an error of the connection.
ConnectionEnds ==
    /\ at = "select"
    /\ ConnectionFails
    /\ at' = "ended"
    /\ UNCHANGED <<world, cancel, opened, target, announced, status, unchecked>>

\* The pid_watch interval.
WatchTicks ==
    /\ at = "select"
    /\ at' = "watching"
    /\ UNCHANGED <<world, faults, cancel, opened, target, announced, status,
                   unchecked>>

\* Mistake: that the app runs at all is enough.
KeepsAnyway ==
    /\ at = "watching"
    /\ (TripSucceeds /\ procs # {}) \/ PollErrs
    /\ at' = "loop"
    /\ UNCHANGED <<world, cancel, opened, target, announced, status, unchecked>>

\* The target is still there, or the poll is an error: keep streaming.
KeepsStreaming ==
    /\ at = "watching"
    /\ (TripSucceeds /\ target \subseteq procs) \/ PollErrs
    /\ at' = "loop"
    /\ UNCHANGED <<world, cancel, opened, target, announced, status, unchecked>>

\* What makes run_android let its stream go: another pid, or none, which a
\* failed trip answers too, the device unplugged or not.
TargetMissed == (PollFinds /\ ~(target \subseteq procs)) \/ PollFindsNone

\* Mistake: no status is sent, and the wait believes it has sent one.
DriftsSilently ==
    /\ at = "watching" /\ platform = "android"
    /\ TargetMissed
    /\ opened' = FALSE
    /\ announced' = TRUE
    /\ at' = "wait"
    /\ UNCHANGED <<world, cancel, target, status, unchecked>>

\* Android: drop logcat, say so and start over.
AndroidDrifts ==
    /\ at = "watching" /\ platform = "android"
    /\ TargetMissed
    /\ Emit("waiting", {})
    /\ opened' = FALSE
    /\ announced' = FALSE
    /\ at' = "wait"
    /\ UNCHANGED <<world, cancel, target>>

\* iOS: some process is gone.  Resolve the bundle again.
IosDrifts ==
    /\ at = "watching" /\ platform = "ios"
    /\ TripSucceeds /\ ~(target \subseteq procs)
    /\ at' = "resolving"
    /\ UNCHANGED <<world, cancel, opened, target, announced, status, unchecked>>

\* An error ends the task; otherwise swap the filter or wait, the connection
\* staying open.
IosResolves ==
    /\ at = "resolving"
    /\ \/ /\ PollFinds
          /\ target' = procs
          /\ at' = "attaching"
          /\ UNCHANGED <<announced, status, unchecked>>
       \/ /\ PollFindsNone
          /\ Emit("waiting", {})
          /\ announced' = FALSE
          /\ at' = "wait"
          /\ UNCHANGED target
       \/ /\ PollErrs
          /\ at' = "ended"
          /\ UNCHANGED <<target, announced, status, unchecked>>
    /\ UNCHANGED <<world, cancel, opened>>

-----------------------------------------------------------------------------
World == ProcessStarts \/ ProcessDies \/ Unplug \/ Stop

Task ==
    \/ WaitChecks \/ ProbeFinds \/ ProbeMisses \/ SleepEnds \/ Attach
    \/ LoopChecks \/ LineComes \/ ConnectionEnds \/ WatchTicks
    \/ KeepsStreaming \/ AndroidDrifts \/ IosDrifts \/ IosResolves

Next == World \/ Task

Spec == Init /\ [][Next]_vars

(***************************************************************************)
(* Polls return and timers fire; the watch interval ticks however many     *)
(* lines come, and a closed connection is noticed however often it ticks   *)
(* (select! picks among ready branches at random).                         *)
(***************************************************************************)
Fairness ==
    /\ WF_vars(Task)
    /\ SF_vars(WatchTicks)
    /\ SF_vars(~plugged /\ ConnectionEnds)

FairSpec == Spec /\ Fairness

-----------------------------------------------------------------------------
(***************************************************************************)
(* Properties                                                              *)
(***************************************************************************)

\* Between two looks at the cancel flag the task emits one event at most, on
\* every path through waiting, attaching and streaming: what LogStream's
\* tasks assume.
OneEventPerCheck == unchecked <= 1

\* The status on screen is what the task does: the pids it filters for while
\* it streams, Waiting while it sleeps.
StatusHonest ==
    /\ at \in {"loop", "select", "watching"} =>
         status = [state |-> "attached", pids |-> target]
    /\ at = "sleeping" => status.state = "waiting"

\* If the app comes back for good, the stream finds it again and filters for
\* its living processes: on Android whatever polls failed meanwhile, on iOS
\* if none did (log_stream.rs:463-465 gives up on one), and while connections hold.
AppIsThere == procs # {} /\ plugged /\ ~cancel
FollowsApp ==
    <>[]AppIsThere /\ []~broken /\ (platform = "android" \/ [](blips = 0)) =>
        <>[](status.state = "attached" /\ target # {} /\ target \subseteq procs)

\* Once the device is unplugged no task stays in a stream that cannot bring
\* lines: it ends, or it says Waiting for good (a wait under way on either
\* platform, or a poll of the Android watch that fails before the end of the
\* file is read).  That wait itself polls on until a stop.
UnpluggedShows == ~plugged ~> [](at = "ended" \/ status.state = "waiting")

-----------------------------------------------------------------------------
\* The inductive invariant (proved in LogAttachProofs): where events may be
\* unchecked, and what a wait that has announced itself has on screen.
AInv ==
    /\ TypeOK
    /\ OneEventPerCheck
    /\ StatusHonest
    /\ at \in {"probing", "attaching", "select", "watching", "resolving"} =>
         unchecked = 0
    /\ at \in {"wait", "probing", "sleeping"} /\ announced =>
         status.state = "waiting"
=============================================================================
