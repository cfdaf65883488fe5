----------------------------- MODULE LogStream -----------------------------
(***************************************************************************)
(* The device-log stream of the back end (log_stream.rs): at most one      *)
(* LogStream in AppState behind an async mutex, the task that reads lines  *)
(* and emits events, and the start and stop commands, which the runtime    *)
(* runs concurrently.  A stream is named by the command that started it.   *)
(*                                                                         *)
(* How a task finds the app's process is LogAttach's subject.  Here a task *)
(* looks at its cancel flag, awaits something (a line, a poll, a sleep),   *)
(* perhaps emits one event, and looks again.                               *)
(***************************************************************************)
EXTENDS Naturals, FiniteSets

CONSTANTS
    MaxCalls,      \* bound: commands invoked
    MaxEvents      \* bound: events emitted by one stream

ASSUME LogStreamAssumption == MaxCalls \in Nat /\ MaxEvents \in Nat

Calls == 1..MaxCalls
Nobody == 0

VARIABLES
    issued,      \* commands invoked so far
    kind,        \* Calls -> "none", "start", "stop"
    pc,          \* how far a command is
    prior,       \* the stream a command has taken out of the slot
    lock,        \* the command that holds AppState.log_stream
    slot,        \* AppState.log_stream
    task,        \* streams' tasks
    cancel,      \* streams' cancel flags
    aborted,     \* tasks whose abort handle has been used
    events,      \* number of events a stream has emitted
    late         \* number of those emitted after cancel was raised

callVars == <<issued, kind, pc, prior>>
stateVars == <<lock, slot>>
taskVars == <<task, cancel, aborted, events, late>>
vars == <<callVars, stateVars, taskVars>>

TypeOK ==
    /\ issued \in 0..MaxCalls
    /\ kind \in [Calls -> {"none", "start", "stop"}]
    /\ pc \in [Calls -> {"none", "queued", "taken", "waiting", "done"}]
    /\ prior \in [Calls -> 0..MaxCalls]
    /\ lock \in 0..MaxCalls
    /\ slot \in 0..MaxCalls
    /\ task \in [Calls -> {"none", "checking", "awaiting", "emitting", "ended"}]
    /\ cancel \in [Calls -> BOOLEAN]
    /\ aborted \in [Calls -> BOOLEAN]
    /\ events \in [Calls -> 0..MaxEvents]
    /\ late \in [Calls -> 0..MaxEvents]

Init ==
    /\ issued = 0
    /\ kind = [c \in Calls |-> "none"]
    /\ pc = [c \in Calls |-> "none"]
    /\ prior = [c \in Calls |-> Nobody]
    /\ lock = Nobody
    /\ slot = Nobody
    /\ task = [c \in Calls |-> "none"]
    /\ cancel = [c \in Calls |-> FALSE]
    /\ aborted = [c \in Calls |-> FALSE]
    /\ events = [c \in Calls |-> 0]
    /\ late = [c \in Calls |-> 0]

Alive(i) == task[i] \in {"checking", "awaiting", "emitting"}

-----------------------------------------------------------------------------
(***************************************************************************)
(* The commands                                                            *)
(***************************************************************************)

\* The front end invokes a command; commands race for the lock.
Issue(k) ==
    /\ issued < MaxCalls
    /\ issued' = issued + 1
    /\ kind' = [kind EXCEPT ![issued + 1] = k]
    /\ pc' = [pc EXCEPT ![issued + 1] = "queued"]
    /\ UNCHANGED prior

\* Mistake: the lock is released around prior.stop().await.
StartTakesAndReleases(c) ==
    /\ kind[c] = "start" /\ pc[c] = "queued"
    /\ lock = Nobody
    /\ prior' = [prior EXCEPT ![c] = slot]
    /\ slot' = Nobody
    /\ cancel' = IF slot = Nobody THEN cancel ELSE [cancel EXCEPT ![slot] = TRUE]
    /\ pc' = [pc EXCEPT ![c] = "waiting"]
    /\ UNCHANGED <<issued, kind, lock, task, aborted, events, late>>

\* start_log_stream takes the lock and keeps it while it stops the prior
\* stream.
StartTakes(c) ==
    /\ kind[c] = "start" /\ pc[c] = "queued"
    /\ lock = Nobody
    /\ lock' = c
    /\ prior' = [prior EXCEPT ![c] = slot]
    /\ slot' = Nobody
    /\ cancel' = IF slot = Nobody THEN cancel ELSE [cancel EXCEPT ![slot] = TRUE]
    /\ pc' = [pc EXCEPT ![c] = "waiting"]
    /\ UNCHANGED <<issued, kind, task, aborted, events, late>>

\* stop_log_stream takes the stream and has released the lock again before
\* it stops it.
StopTakes(c) ==
    /\ kind[c] = "stop" /\ pc[c] = "queued"
    /\ lock = Nobody
    /\ prior' = [prior EXCEPT ![c] = slot]
    /\ slot' = Nobody
    /\ pc' = [pc EXCEPT ![c] = IF slot = Nobody THEN "done" ELSE "taken"]
    /\ UNCHANGED <<issued, kind, lock, taskVars>>

StopCancels(c) ==
    /\ pc[c] = "taken"
    /\ cancel' = [cancel EXCEPT ![prior[c]] = TRUE]
    /\ pc' = [pc EXCEPT ![c] = "waiting"]
    /\ UNCHANGED <<issued, kind, prior, stateVars, task, aborted, events, late>>

\* Mistake: the timeout drops the task's handle, which detaches it.
DetachAfterTimeout(c) ==
    /\ pc[c] = "waiting" /\ prior[c] # Nobody
    /\ Alive(prior[c])
    /\ prior' = [prior EXCEPT ![c] = Nobody]
    /\ UNCHANGED <<issued, kind, pc, stateVars, taskVars>>

\* LogStream::stop has waited 500 ms for the task.
AbortAfterTimeout(c) ==
    /\ pc[c] = "waiting" /\ prior[c] # Nobody
    /\ Alive(prior[c]) /\ ~aborted[prior[c]]
    /\ aborted' = [aborted EXCEPT ![prior[c]] = TRUE]
    /\ UNCHANGED <<callVars, stateVars, task, cancel, events, late>>

\* An aborted task is not waited for.
PriorStopped(c) ==
    prior[c] # Nobody => task[prior[c]] = "ended" \/ aborted[prior[c]]

\* Spawn the task, store the stream, release the lock.
StartSpawns(c) ==
    /\ kind[c] = "start" /\ pc[c] = "waiting"
    /\ PriorStopped(c)
    /\ task' = [task EXCEPT ![c] = "checking"]
    /\ slot' = c
    /\ lock' = Nobody
    /\ pc' = [pc EXCEPT ![c] = "done"]
    /\ UNCHANGED <<issued, kind, prior, cancel, aborted, events, late>>

StopReturns(c) ==
    /\ kind[c] = "stop" /\ pc[c] = "waiting"
    /\ PriorStopped(c)
    /\ pc' = [pc EXCEPT ![c] = "done"]
    /\ UNCHANGED <<issued, kind, prior, stateVars, taskVars>>

-----------------------------------------------------------------------------
(***************************************************************************)
(* The task of stream i (run_android, run_ios)                             *)
(***************************************************************************)

ChecksCancel(i) ==
    /\ task[i] = "checking"
    /\ task' = [task EXCEPT ![i] = IF cancel[i] THEN "ended" ELSE "awaiting"]
    /\ UNCHANGED <<callVars, stateVars, cancel, aborted, events, late>>

\* A line, or a poll with something to report.
HasEvent(i) ==
    /\ task[i] = "awaiting" /\ ~aborted[i]
    /\ events[i] < MaxEvents
    /\ task' = [task EXCEPT ![i] = "emitting"]
    /\ UNCHANGED <<callVars, stateVars, cancel, aborted, events, late>>

\* A poll, a sleep or a line of another process with nothing to report.
HasNothing(i) ==
    /\ task[i] = "awaiting" /\ ~aborted[i]
    /\ task' = [task EXCEPT ![i] = "checking"]
    /\ UNCHANGED <<callVars, stateVars, cancel, aborted, events, late>>

Emits(i) ==
    /\ task[i] = "emitting"
    /\ task' = [task EXCEPT ![i] = "checking"]
    /\ events' = [events EXCEPT ![i] = @ + 1]
    /\ late' = [late EXCEPT ![i] = IF cancel[i] THEN @ + 1 ELSE @]
    /\ UNCHANGED <<callVars, stateVars, cancel, aborted>>

\* EOF or an error; the slot keeps the LogStream.
EndsByItself(i) ==
    /\ task[i] = "awaiting" /\ ~aborted[i]
    /\ task' = [task EXCEPT ![i] = "ended"]
    /\ UNCHANGED <<callVars, stateVars, cancel, aborted, events, late>>

\* An abort takes effect where the task awaits.
AbortLands(i) ==
    /\ task[i] = "awaiting" /\ aborted[i]
    /\ task' = [task EXCEPT ![i] = "ended"]
    /\ UNCHANGED <<callVars, stateVars, cancel, aborted, events, late>>

-----------------------------------------------------------------------------
Serve(c) ==
    \/ StartTakes(c) \/ StopTakes(c) \/ StopCancels(c)
    \/ AbortAfterTimeout(c) \/ StartSpawns(c) \/ StopReturns(c)

\* What a task does, its events apart.
Run(i) ==
    \/ ChecksCancel(i) \/ HasEvent(i) \/ HasNothing(i)
    \/ EndsByItself(i) \/ AbortLands(i)

Invoke == \E k \in {"start", "stop"} : Issue(k) /\ UNCHANGED <<stateVars, taskVars>>

Next == Invoke \/ \E c \in Calls : Serve(c) \/ Run(c) \/ Emits(c)

Spec == Init /\ [][Next]_vars

(***************************************************************************)
(* The runtime polls commands and tasks that can go on, timers fire.  No   *)
(* device has to send a line, and no poll has to come back.                *)
(***************************************************************************)
Fairness ==
    \A c \in Calls :
        /\ WF_vars(Serve(c))
        /\ WF_vars(ChecksCancel(c) \/ Emits(c) \/ AbortLands(c))

FairSpec == Spec /\ Fairness

-----------------------------------------------------------------------------
(***************************************************************************)
(* Properties                                                              *)
(***************************************************************************)
Stopping(c, i) == prior[c] = i /\ pc[c] \in {"taken", "waiting"}

\* No task runs on with nobody to stop it: the slot holds its stream, or
\* one command is stopping it, or its abort is under way.  This is the bug
\* the comment at log_stream.rs:111-124 describes.
NoOrphanTask ==
    \A i \in Calls : Alive(i) =>
        \/ slot = i
        \/ \E c \in Calls : Stopping(c, i)
        \/ cancel[i] /\ aborted[i]

\* A stream has one owner: two commands never stop the same one, and what is
\* in the slot has not been cancelled.
OneOwner ==
    /\ \A i, c, d \in Calls : Stopping(c, i) /\ Stopping(d, i) => c = d
    /\ \A i \in Calls : slot = i =>
         ~cancel[i] /\ ~aborted[i] /\ \A c \in Calls : ~Stopping(c, i)

\* After its cancel flag is raised a task emits one more event at most
\* (log_stream.rs:59-60: the flag "stops the emit loop immediately").
AtMostOneLateEvent == \A i \in Calls : late[i] <= 1

\* Whatever the commands' order, a stream that runs can still be stopped, by
\* one command, and falls silent when it is.
StreamsUnderControl == NoOrphanTask /\ OneOwner /\ AtMostOneLateEvent

\* Every command returns, even if the task it stops never wakes up: the
\* 500 ms timeout of LogStream::stop.
CommandsReturn == \A c \in Calls : pc[c] = "queued" ~> pc[c] = "done"

\* A stream that is being stopped ends, one way or the other.
StoppedStreamEnds == \A i \in Calls : cancel[i] ~> task[i] = "ended"

\* A command returns within its timeout and what it set out to stop stops.
CommandsTakeEffect == CommandsReturn /\ StoppedStreamEnds

-----------------------------------------------------------------------------
(***************************************************************************)
(* The inductive invariant (proved in LogStreamProofs)                     *)
(***************************************************************************)
CallInv(c) ==
    /\ pc[c] = "none" <=> c > issued
    /\ lock = c <=> kind[c] = "start" /\ pc[c] = "waiting"
    /\ pc[c] = "taken" => kind[c] = "stop" /\ prior[c] \in Calls
    /\ pc[c] \in {"taken", "waiting"} /\ prior[c] # Nobody =>
         /\ task[prior[c]] # "none"
         /\ slot # prior[c]
         /\ pc[c] = "waiting" => cancel[prior[c]]

StreamInv(i) ==
    /\ task[i] # "none" => kind[i] = "start" /\ pc[i] = "done"
    /\ slot = i => task[i] # "none" /\ lock = Nobody
    /\ aborted[i] => cancel[i]
    /\ cancel[i] => task[i] # "none" /\ slot # i
    /\ ~cancel[i] => late[i] = 0
    /\ late[i] <= 1
    /\ late[i] = 1 => task[i] \in {"checking", "ended"}
    /\ task[i] = "emitting" => events[i] < MaxEvents

OneStopper(c, d) == \A i \in Calls : Stopping(c, i) /\ Stopping(d, i) => c = d

Owned(i) ==
    Alive(i) =>
        \/ slot = i
        \/ \E c \in Calls : Stopping(c, i)
        \/ cancel[i] /\ aborted[i]

\* What commands, streams, lock and slot know of each other, at every step.
LInv ==
    /\ TypeOK
    /\ \A c \in Calls : CallInv(c) /\ StreamInv(c) /\ Owned(c)
    /\ \A c, d \in Calls : OneStopper(c, d)
=============================================================================
