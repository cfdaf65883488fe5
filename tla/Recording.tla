----------------------------- MODULE Recording ------------------------------
(***************************************************************************)
(* The life of recording sessions in mperf's desktop shell: the commands   *)
(* start_session, stop_session and delete_session, and the tasks one       *)
(* session is made of -- the scheduler task (crates/core), the writer, the *)
(* UI pump and the exit watcher (session.rs) -- together with the sessions *)
(* table they write, an abrupt end of the process, and the clean-up pass   *)
(* of the next start.                                                      *)
(*                                                                         *)
(* A session is named by its database id.  tokio's runtime is              *)
(* multi-threaded, so a spawned task runs from the moment it is spawned:   *)
(* every step between two awaits that another task can observe is an       *)
(* action of its own.                                                      *)
(***************************************************************************)
EXTENDS Naturals

CONSTANTS
    MaxSessions,     \* bound: ids handed out by create_session
    MaxSamples,      \* bound: samples one session's samplers produce
    MaxCrashes,      \* bound: abrupt ends of the process
    StorageOutcomes  \* how a write of the writer or of stop may end

ASSUME BoundsAssumption ==
    /\ MaxSessions \in Nat
    /\ MaxSamples \in Nat
    /\ MaxCrashes \in Nat
    /\ StorageOutcomes \subseteq {"ok", "error"}

Sessions == 1..MaxSessions
NoSession == 0
Stamps == {"writer", "stop", "cleanup"}
StorageMayFail == "error" \in StorageOutcomes

VARIABLES
    up,              \* the process runs
    crashes,         \* abrupt ends so far
    lastId,          \* sqlite_sequence of the sessions table
    row,             \* [Sessions -> "absent", "open" (wall_end_ms NULL),
                     \*   whoever stamped wall_end_ms, or "deleted"]
    stored,          \* [Sessions -> sample rows in the database]
    slot,            \* AppState.session: the id of the Session in it
    starter,         \* [Sessions -> where its start_recording call is]
    sched,           \* [Sessions -> the scheduler task]
    died,            \* [Sessions -> history: the task left its loop by itself]
    permit,          \* [Sessions -> exit_notify holds a permit]
    cancel,          \* [Sessions -> value of the cancel watch channel]
    handle,          \* [Sessions -> the SchedulerHandle, with its live_tx]
    userStopping,    \* [Sessions -> the user_stopping flag]
    sent,            \* [Sessions -> samples broadcast so far]
    unread,          \* [Sessions -> samples the writer has yet to receive]
    batch,           \* [Sessions -> samples in the writer's batch]
    writer,          \* [Sessions -> the writer task]
    pump,            \* [Sessions -> the UI pump task]
    watcher,         \* [Sessions -> the exit watcher task]
    stopper,         \* [Sessions -> the one Session::stop call it ever gets]
    ended            \* [Sessions -> EVENT_SESSION_ENDED events emitted]

process == <<up, crashes>>
table == <<row, stored>>
schedVars == <<sched, died, permit>>
taskVars == <<writer, pump, watcher>>
samples == <<sent, unread, batch>>
vars == <<process, lastId, table, slot, starter, schedVars, cancel, handle,
          userStopping, samples, taskVars, stopper, ended>>

TypeOK ==
    /\ up \in BOOLEAN
    /\ crashes \in 0..MaxCrashes
    /\ lastId \in 0..MaxSessions
    /\ row \in [Sessions -> {"absent", "open", "deleted"} \union Stamps]
    /\ stored \in [Sessions -> Nat]
    /\ slot \in Sessions \union {NoSession}
    /\ starter \in [Sessions -> {"idle", "created", "scheduled", "spawned",
                                 "installed", "failed", "gone"}]
    /\ sched \in [Sessions -> {"none", "running", "exited", "finished"}]
    /\ died \in [Sessions -> BOOLEAN]
    /\ permit \in [Sessions -> BOOLEAN]
    /\ cancel \in [Sessions -> BOOLEAN]
    /\ handle \in [Sessions -> {"none", "held", "dropped"}]
    /\ userStopping \in [Sessions -> BOOLEAN]
    /\ sent \in [Sessions -> 0..MaxSamples]
    /\ unread \in [Sessions -> Nat]
    /\ batch \in [Sessions -> Nat]
    /\ writer \in [Sessions -> {"none", "running", "drained", "done"}]
    /\ pump \in [Sessions -> {"none", "running", "done"}]
    /\ watcher \in [Sessions -> {"none", "armed", "announcing", "cleaning",
                                 "done"}]
    /\ stopper \in [Sessions -> {"none", "taken", "flagged", "joining",
                                 "draining", "finishing", "done"}]
    /\ ended \in [Sessions -> Nat]

All(v) == [s \in Sessions |-> v]

Init ==
    /\ up = TRUE
    /\ crashes = 0
    /\ lastId = 0
    /\ row = All("absent")
    /\ stored = All(0)
    /\ slot = NoSession
    /\ starter = All("idle")
    /\ sched = All("none")
    /\ died = All(FALSE)
    /\ permit = All(FALSE)
    /\ cancel = All(FALSE)
    /\ handle = All("none")
    /\ userStopping = All(FALSE)
    /\ sent = All(0)
    /\ unread = All(0)
    /\ batch = All(0)
    /\ writer = All("none")
    /\ pump = All("none")
    /\ watcher = All("none")
    /\ stopper = All("none")
    /\ ended = All(0)

-----------------------------------------------------------------------------
(***************************************************************************)
(* Storage, as the tasks of a session use it.                              *)
(***************************************************************************)

\* Mistake: no WHERE wall_end_ms IS NULL.
StampEndAlways(s, who) ==
    row' = [row EXCEPT ![s] = IF @ \in {"absent", "deleted"} THEN @ ELSE who]

\* UPDATE sessions SET wall_end_ms = ? WHERE id = ? AND wall_end_ms IS NULL
StampEnd(s, who) ==
    row' = [row EXCEPT ![s] = IF @ = "open" THEN who ELSE @]

\* finish_session: callers only log an error.
FinishSession(s, who) ==
    \/ StampEnd(s, who)
    \/ StorageMayFail /\ UNCHANGED row

\* Mistake: foreign keys not enforced.
DrainAndWriteUnchecked(s) ==
    /\ batch' = [batch EXCEPT ![s] = 0]
    /\ stored' = [stored EXCEPT ![s] = @ + batch[s]]

\* insert_sample_batch of the drained batch, all in one transaction.  The
\* foreign key refuses samples of a deleted session; the caller only logs
\* an error, so the drained samples are lost then.
DrainAndWrite(s) ==
    /\ batch' = [batch EXCEPT ![s] = 0]
    /\ \/ /\ row[s] \notin {"absent", "deleted"}
          /\ stored' = [stored EXCEPT ![s] = @ + batch[s]]
       \/ /\ row[s] \in {"absent", "deleted"} \/ StorageMayFail
          /\ UNCHANGED stored

-----------------------------------------------------------------------------
(***************************************************************************)
(* start_recording                                                         *)
(***************************************************************************)

\* Launching the app and building the samplers touch no state kept here.
CreateSession(s) ==
    /\ up
    /\ s = lastId + 1
    /\ starter[s] = "idle"
    /\ lastId' = s
    /\ row' = [row EXCEPT ![s] = "open"]
    /\ starter' = [starter EXCEPT ![s] = "created"]
    /\ UNCHANGED <<process, stored, slot, schedVars, cancel, handle,
                   userStopping, samples, taskVars, stopper, ended>>

\* Some sampler refuses to start: the command returns its error.
SchedulerStartFails(s) ==
    /\ starter[s] = "created"
    /\ starter' = [starter EXCEPT ![s] = "failed"]
    /\ UNCHANGED <<process, lastId, table, slot, schedVars, cancel, handle,
                   userStopping, samples, taskVars, stopper, ended>>

\* Scheduler::start spawns the task before anyone has subscribed.
SchedulerStarts(s) ==
    /\ starter[s] = "created"
    /\ starter' = [starter EXCEPT ![s] = "scheduled"]
    /\ sched' = [sched EXCEPT ![s] = "running"]
    /\ handle' = [handle EXCEPT ![s] = "held"]
    /\ UNCHANGED <<process, lastId, table, slot, died, permit, cancel,
                   userStopping, samples, taskVars, stopper, ended>>

\* Subscribe, then spawn the writer, the pump and the watcher.
SpawnTasks(s) ==
    /\ starter[s] = "scheduled"
    /\ starter' = [starter EXCEPT ![s] = "spawned"]
    /\ writer' = [writer EXCEPT ![s] = "running"]
    /\ pump' = [pump EXCEPT ![s] = "running"]
    /\ watcher' = [watcher EXCEPT ![s] = "armed"]
    /\ UNCHANGED <<process, lastId, table, slot, schedVars, cancel, handle,
                   userStopping, samples, stopper, ended>>

\* Swap the new Session into AppState under the lock; a displaced one is
\* stopped by a task spawned for that.  What the command still does, writing
\* an auto-measured startup timing into the row's meta_json, is not read here.
InstallSession(s) ==
    /\ starter[s] = "spawned"
    /\ starter' = [starter EXCEPT ![s] = "installed"]
    /\ slot' = s
    /\ stopper' = IF slot = NoSession THEN stopper
                  ELSE [stopper EXCEPT ![slot] = "taken"]
    /\ UNCHANGED <<process, lastId, table, schedVars, cancel, handle,
                   userStopping, samples, taskVars, ended>>

-----------------------------------------------------------------------------
(***************************************************************************)
(* The scheduler task.  Its select is biased: a cancel already sent is     *)
(* seen before the next item of the merged sampler streams.                *)
(***************************************************************************)

\* broadcast::send reaches the receivers that have subscribed by now.
SchedulerSends(s) ==
    /\ sched[s] = "running"
    /\ ~cancel[s]
    /\ sent[s] < MaxSamples
    /\ sent' = [sent EXCEPT ![s] = @ + 1]
    /\ unread' = IF writer[s] = "running"
                 THEN [unread EXCEPT ![s] = @ + 1]
                 ELSE unread
    /\ UNCHANGED <<process, lastId, table, slot, starter, schedVars, cancel,
                   handle, userStopping, batch, taskVars, stopper, ended>>

\* A non-retriable sampler error, or every stream ran to completion.
SchedulerDies(s) ==
    /\ sched[s] = "running"
    /\ ~cancel[s]
    /\ sched' = [sched EXCEPT ![s] = "exited"]
    /\ died' = [died EXCEPT ![s] = TRUE]
    /\ UNCHANGED <<process, lastId, table, slot, starter, permit, cancel,
                   handle, userStopping, samples, taskVars, stopper, ended>>

SchedulerCancelled(s) ==
    /\ sched[s] = "running"
    /\ cancel[s]
    /\ sched' = [sched EXCEPT ![s] = "exited"]
    /\ UNCHANGED <<process, lastId, table, slot, starter, died, permit, cancel,
                   handle, userStopping, samples, taskVars, stopper, ended>>

\* notify_one stores a permit when the watcher does not wait yet.
SchedulerNotifies(s) ==
    /\ sched[s] = "exited"
    /\ sched' = [sched EXCEPT ![s] = "finished"]
    /\ permit' = [permit EXCEPT ![s] = TRUE]
    /\ UNCHANGED <<process, lastId, table, slot, starter, died, cancel, handle,
                   userStopping, samples, taskVars, stopper, ended>>

-----------------------------------------------------------------------------
(***************************************************************************)
(* The receivers of the broadcast.  It is closed once every sender is      *)
(* gone: the task drops its clone on exit, the handle holds the other.     *)
(***************************************************************************)
Closed(s) == sched[s] \in {"exited", "finished"} /\ handle[s] = "dropped"

\* Mistake: a sample pushed without one having been received.
WriterReceivesNothing(s) ==
    /\ writer[s] = "running"
    /\ batch[s] < MaxSamples
    /\ unread' = [unread EXCEPT ![s] = @ - 1]
    /\ batch' = [batch EXCEPT ![s] = @ + 1]
    /\ UNCHANGED <<process, lastId, table, slot, starter, schedVars, cancel,
                   handle, userStopping, sent, taskVars, stopper, ended>>

WriterReceives(s) ==
    /\ writer[s] = "running"
    /\ unread[s] > 0
    /\ unread' = [unread EXCEPT ![s] = @ - 1]
    /\ batch' = [batch EXCEPT ![s] = @ + 1]
    /\ UNCHANGED <<process, lastId, table, slot, starter, schedVars, cancel,
                   handle, userStopping, sent, taskVars, stopper, ended>>

\* The flush tick, or a full batch.
WriterFlushes(s) ==
    /\ writer[s] = "running"
    /\ batch[s] > 0
    /\ DrainAndWrite(s)
    /\ UNCHANGED <<process, lastId, row, slot, starter, schedVars, cancel,
                   handle, userStopping, sent, unread, taskVars, stopper,
                   ended>>

\* recv reports Closed only after the last buffered sample.
WriterSeesClosed(s) ==
    /\ writer[s] = "running"
    /\ Closed(s)
    /\ unread[s] = 0
    /\ writer' = [writer EXCEPT ![s] = "drained"]
    /\ IF batch[s] > 0 THEN DrainAndWrite(s) ELSE UNCHANGED <<batch, stored>>
    /\ UNCHANGED <<process, lastId, row, slot, starter, schedVars, cancel,
                   handle, userStopping, sent, unread, pump, watcher, stopper,
                   ended>>

WriterFinishes(s) ==
    /\ writer[s] = "drained"
    /\ FinishSession(s, "writer")
    /\ writer' = [writer EXCEPT ![s] = "done"]
    /\ UNCHANGED <<process, lastId, stored, slot, starter, schedVars, cancel,
                   handle, userStopping, samples, pump, watcher, stopper,
                   ended>>

\* Forwarding a sample changes nothing here; a failed emit ends the task.
PumpGivesUp(s) ==
    /\ pump[s] = "running"
    /\ sent[s] > 0
    /\ pump' = [pump EXCEPT ![s] = "done"]
    /\ UNCHANGED <<process, lastId, table, slot, starter, schedVars, cancel,
                   handle, userStopping, samples, writer, watcher, stopper,
                   ended>>

\* Mistake: the pump does not look at user_stopping.
PumpAlwaysAnnounces(s) ==
    /\ pump[s] = "running"
    /\ Closed(s)
    /\ pump' = [pump EXCEPT ![s] = "done"]
    /\ ended' = [ended EXCEPT ![s] = @ + 1]
    /\ UNCHANGED <<process, lastId, table, slot, starter, schedVars, cancel,
                   handle, userStopping, samples, writer, watcher, stopper>>

PumpSeesClosed(s) ==
    /\ pump[s] = "running"
    /\ Closed(s)
    /\ pump' = [pump EXCEPT ![s] = "done"]
    /\ ended' = IF userStopping[s] THEN ended
                ELSE [ended EXCEPT ![s] = @ + 1]
    /\ UNCHANGED <<process, lastId, table, slot, starter, schedVars, cancel,
                   handle, userStopping, samples, writer, watcher, stopper>>

-----------------------------------------------------------------------------
(***************************************************************************)
(* The exit watcher                                                        *)
(***************************************************************************)

\* notified() returns; the flag is read once, before anything is emitted.
WatcherWakes(s) ==
    /\ watcher[s] = "armed"
    /\ permit[s]
    /\ permit' = [permit EXCEPT ![s] = FALSE]
    /\ watcher' = [watcher EXCEPT ![s] =
                     IF userStopping[s] THEN "done" ELSE "announcing"]
    /\ UNCHANGED <<process, lastId, table, slot, starter, sched, died, cancel,
                   handle, userStopping, samples, writer, pump, stopper, ended>>

WatcherAnnounces(s) ==
    /\ watcher[s] = "announcing"
    /\ watcher' = [watcher EXCEPT ![s] = "cleaning"]
    /\ ended' = [ended EXCEPT ![s] = @ + 1]
    /\ UNCHANGED <<process, lastId, table, slot, starter, schedVars, cancel,
                   handle, userStopping, samples, writer, pump, stopper>>

\* Mistakes: take whatever session is there; emit the event and leave the
\* Session where it is.
WatcherCleansAnySession(s) ==
    /\ watcher[s] = "cleaning"
    /\ watcher' = [watcher EXCEPT ![s] = "done"]
    /\ IF slot # NoSession
       THEN slot' = NoSession /\ stopper' = [stopper EXCEPT ![slot] = "taken"]
       ELSE UNCHANGED <<slot, stopper>>
    /\ UNCHANGED <<process, lastId, table, starter, schedVars, cancel, handle,
                   userStopping, samples, writer, pump, ended>>
\* Mistake: the session is left in AppState.
WatcherOnlyAnnounces(s) ==
    /\ watcher[s] = "cleaning"
    /\ watcher' = [watcher EXCEPT ![s] = "done"]
    /\ UNCHANGED <<process, lastId, table, slot, starter, schedVars, cancel,
                   handle, userStopping, samples, writer, pump, stopper, ended>>

\* Take the Session out of AppState only if it is still this one, and run
\* its stop in this task.
WatcherCleans(s) ==
    /\ watcher[s] = "cleaning"
    /\ watcher' = [watcher EXCEPT ![s] = "done"]
    /\ IF slot = s
       THEN slot' = NoSession /\ stopper' = [stopper EXCEPT ![s] = "taken"]
       ELSE UNCHANGED <<slot, stopper>>
    /\ UNCHANGED <<process, lastId, table, starter, schedVars, cancel, handle,
                   userStopping, samples, writer, pump, ended>>

-----------------------------------------------------------------------------
(***************************************************************************)
(* The commands stop_session and delete_session, and Session::stop.        *)
(***************************************************************************)

\* Mistake: the Session is not taken out of AppState.
StopSessionInPlace ==
    /\ up
    /\ slot # NoSession
    /\ stopper' = [stopper EXCEPT ![slot] = "taken"]
    /\ UNCHANGED <<process, lastId, table, slot, starter, schedVars, cancel,
                   handle, userStopping, samples, taskVars, ended>>

\* The Session leaves AppState under the lock, then stops outside of it.
StopSession ==
    /\ up
    /\ slot # NoSession
    /\ stopper' = [stopper EXCEPT ![slot] = "taken"]
    /\ slot' = NoSession
    /\ UNCHANGED <<process, lastId, table, starter, schedVars, cancel, handle,
                   userStopping, samples, taskVars, ended>>

StopRaisesFlag(s) ==
    /\ stopper[s] = "taken"
    /\ stopper' = [stopper EXCEPT ![s] = "flagged"]
    /\ userStopping' = [userStopping EXCEPT ![s] = TRUE]
    /\ UNCHANGED <<process, lastId, table, slot, starter, schedVars, cancel,
                   handle, samples, taskVars, ended>>

StopCancels(s) ==
    /\ stopper[s] = "flagged"
    /\ stopper' = [stopper EXCEPT ![s] = "joining"]
    /\ cancel' = [cancel EXCEPT ![s] = TRUE]
    /\ UNCHANGED <<process, lastId, table, slot, starter, schedVars, handle,
                   userStopping, samples, taskVars, ended>>

\* Mistake: the handle outlives the stop.
StopKeepsHandle(s) ==
    /\ stopper[s] = "joining"
    /\ sched[s] = "finished"
    /\ stopper' = [stopper EXCEPT ![s] = "draining"]
    /\ UNCHANGED <<process, lastId, table, slot, starter, schedVars, cancel,
                   handle, userStopping, samples, taskVars, ended>>

\* SchedulerHandle::stop consumes the handle once the task is joined.
StopJoinsScheduler(s) ==
    /\ stopper[s] = "joining"
    /\ sched[s] = "finished"
    /\ stopper' = [stopper EXCEPT ![s] = "draining"]
    /\ handle' = [handle EXCEPT ![s] = "dropped"]
    /\ UNCHANGED <<process, lastId, table, slot, starter, schedVars, cancel,
                   userStopping, samples, taskVars, ended>>

\* Mistake: the writer task is not awaited.
StopSkipsWriter(s) ==
    /\ stopper[s] = "draining"
    /\ stopper' = [stopper EXCEPT ![s] = "finishing"]
    /\ UNCHANGED <<process, lastId, table, slot, starter, schedVars, cancel,
                   handle, userStopping, samples, taskVars, ended>>

StopJoinsWriter(s) ==
    /\ stopper[s] = "draining"
    /\ writer[s] = "done"
    /\ stopper' = [stopper EXCEPT ![s] = "finishing"]
    /\ UNCHANGED <<process, lastId, table, slot, starter, schedVars, cancel,
                   handle, userStopping, samples, taskVars, ended>>

StopFinishes(s) ==
    /\ stopper[s] = "finishing"
    /\ FinishSession(s, "stop")
    /\ stopper' = [stopper EXCEPT ![s] = "done"]
    /\ UNCHANGED <<process, lastId, stored, slot, starter, schedVars, cancel,
                   handle, userStopping, samples, taskVars, ended>>

\* The command checks nothing: a session still recording can be deleted.
DeleteSession(s) ==
    /\ up
    /\ row[s] \in {"open"} \union Stamps
    /\ row' = [row EXCEPT ![s] = "deleted"]
    /\ stored' = [stored EXCEPT ![s] = 0]
    /\ UNCHANGED <<process, lastId, slot, starter, schedVars, cancel, handle,
                   userStopping, samples, taskVars, stopper, ended>>

-----------------------------------------------------------------------------
(***************************************************************************)
(* The process ends without a chance to clean up (a quit does no more),    *)
(* and is started again: Storage::open ends every session left open.       *)
(***************************************************************************)
Crash ==
    /\ up
    /\ crashes < MaxCrashes
    /\ up' = FALSE
    /\ crashes' = crashes + 1
    /\ slot' = NoSession
    /\ starter' = [s \in Sessions |->
                     IF starter[s] = "idle" THEN "idle" ELSE "gone"]
    /\ sched' = All("none")
    /\ permit' = All(FALSE)
    /\ cancel' = All(FALSE)
    /\ handle' = All("none")
    /\ userStopping' = All(FALSE)
    /\ unread' = All(0)
    /\ batch' = All(0)
    /\ writer' = All("none")
    /\ pump' = All("none")
    /\ watcher' = All("none")
    /\ stopper' = All("none")
    /\ UNCHANGED <<lastId, table, died, sent, ended>>

Restart ==
    /\ ~up
    /\ up' = TRUE
    /\ row' = [s \in Sessions |-> IF row[s] = "open" THEN "cleanup" ELSE row[s]]
    /\ UNCHANGED <<crashes, lastId, stored, slot, starter, schedVars, cancel,
                   handle, userStopping, samples, taskVars, stopper, ended>>

-----------------------------------------------------------------------------
StartStep(s) ==
    \/ SchedulerStartFails(s) \/ SchedulerStarts(s)
    \/ SpawnTasks(s) \/ InstallSession(s)

WriterStep(s) ==
    WriterReceives(s) \/ WriterFlushes(s) \/ WriterSeesClosed(s)
        \/ WriterFinishes(s)

WatcherStep(s) == WatcherWakes(s) \/ WatcherAnnounces(s) \/ WatcherCleans(s)

StopStep(s) ==
    \/ StopRaisesFlag(s) \/ StopCancels(s) \/ StopJoinsScheduler(s)
    \/ StopJoinsWriter(s) \/ StopFinishes(s)

Next ==
    \/ \E s \in Sessions :
         \/ CreateSession(s) \/ StartStep(s)
         \/ SchedulerSends(s) \/ SchedulerDies(s)
         \/ SchedulerCancelled(s) \/ SchedulerNotifies(s)
         \/ WriterStep(s)
         \/ PumpGivesUp(s) \/ PumpSeesClosed(s)
         \/ WatcherStep(s)
         \/ StopStep(s)
         \/ DeleteSession(s)
    \/ StopSession
    \/ Crash
    \/ Restart

Spec == Init /\ [][Next]_vars

(***************************************************************************)
(* The runtime polls every task that can make progress; what the user, the *)
(* samplers and the process itself do is never promised.                   *)
(***************************************************************************)
Fairness ==
    \A s \in Sessions :
        /\ WF_vars(StartStep(s))
        /\ WF_vars(SchedulerCancelled(s))
        /\ WF_vars(SchedulerNotifies(s))
        /\ WF_vars(WriterReceives(s))
        /\ WF_vars(WriterSeesClosed(s))
        /\ WF_vars(WriterFinishes(s))
        /\ WF_vars(PumpSeesClosed(s))
        /\ WF_vars(WatcherStep(s))
        /\ WF_vars(StopStep(s))

FairSpec == Spec /\ Fairness
-----------------------------------------------------------------------------
(***************************************************************************)
(* Safety                                                                  *)
(***************************************************************************)

StarterOwns(s) == starter[s] \in {"scheduled", "spawned"}
SlotOwns(s) == slot = s
StopperOwns(s) == stopper[s] \in {"taken", "flagged", "joining"}

\* A SchedulerHandle that has not been dropped always has exactly one owner:
\* the start call that made it, AppState, or the stop that tears it down
\* (SchedulerHandle and Session are moved, session.rs:294-310, 545-569).
\* An owner lost on the way would leave a scheduler nobody can cancel; two
\* would stop a session twice.
SingleOwner ==
    \A s \in Sessions :
        IF handle[s] = "held"
        THEN \/ StarterOwns(s) /\ ~SlotOwns(s) /\ ~StopperOwns(s)
             \/ ~StarterOwns(s) /\ SlotOwns(s) /\ ~StopperOwns(s)
             \/ ~StarterOwns(s) /\ ~SlotOwns(s) /\ StopperOwns(s)
        ELSE ~StarterOwns(s) /\ ~SlotOwns(s) /\ ~StopperOwns(s)

\* The watcher and the pump can both emit EVENT_SESSION_ENDED for a session;
\* between them they do so at most once (docs/architecture.md:88-90: "so the
\* frontend toasts at most once per session").
AtMostOneEndedEvent == \A s \in Sessions : ended[s] <= 1

\* The event is only for a scheduler that left its loop by itself: neither a
\* Stop nor a displacing Start alone ever raises it, however the watcher and
\* the pump interleave with Session::stop (session.rs:67 before :68).
EndedOnlyOnOwnDeath == \A s \in Sessions : ended[s] > 0 => died[s]

\* What the front end may believe of EVENT_SESSION_ENDED: it comes once, and
\* only for a session whose scheduler died (session.rs:420-445, 522-543).
EndedEventTruthful == AtMostOneEndedEvent /\ EndedOnlyOnOwnDeath

\* By the time a task stamps wall_end_ms, every sample that reached the
\* writer has been drained: nothing is waiting in the channel or the batch
\* (Session::stop awaits the writer before it finishes the row).
EndedRowIsComplete ==
    \A s \in Sessions :
        row[s] \in {"writer", "stop"} => unread[s] = 0 /\ batch[s] = 0

\* An open row belongs to a start of the running process: rows orphaned by
\* a crash were ended by the clean-up pass of Storage::open.
NoOrphanRow ==
    \A s \in Sessions : up /\ row[s] = "open" => starter[s] # "gone"

\* What the History tab may believe of a row: with an end stamp it is
\* complete, without one somebody of this process is still recording it.
RowsTellTheTruth == EndedRowIsComplete /\ NoOrphanRow

\* With a storage that works, the writer's stamp always wins over the one of
\* Session::stop, so wall_end_ms is when sampling ended and not when the
\* clean-up did (docs/architecture.md:223-228).
WriterStampsTheEnd ==
    ~StorageMayFail => \A s \in Sessions : row[s] # "stop"

\* With a storage that works, somebody is left to end every open row: a
\* start under way, AppState (so the next Stop or Start), or a stop under
\* way.  The exception is a start whose scheduler failed (session.rs:264).
OpenRowHasOwner ==
    ~StorageMayFail =>
        \A s \in Sessions :
            up /\ row[s] = "open" =>
                \/ starter[s] \in {"created", "scheduled", "spawned", "failed"}
                \/ slot = s
                \/ stopper[s] \notin {"none", "finishing", "done"}

\* With a storage that works every row is ended by the task that wrote its
\* samples, and until then somebody is left to make it do so.
RowsEndedByWriter == WriterStampsTheEnd /\ OpenRowHasOwner

\* Only the user takes a living session out of AppState: the watcher of a
\* dead session never tears down the one that has replaced it
\* (docs/architecture.md:131-134).
LivingSessionLeavesByUser ==
    [][\A t \in Sessions :
         slot = t /\ slot' # t /\ ~died[t] =>
             StopSession \/ Crash \/ \E s \in Sessions : InstallSession(s)]_vars

\* What the History tab sees of all this is SessionHistory.
History == INSTANCE SessionHistory WITH entry <- row, samples <- stored
HistorySpec == History!Spec

-----------------------------------------------------------------------------
(***************************************************************************)
(* Liveness                                                                *)
(***************************************************************************)

\* A Session taken out of AppState -- by Stop, by a displacing Start or by
\* the exit watcher -- is stopped to the end and its row is closed: no task
\* in the stop, scheduler, writer chain waits on one that waits on it.
StopCompletes ==
    \A s \in Sessions :
        stopper[s] = "taken" ~> (stopper[s] = "done" /\ row[s] # "open") \/ ~up

\* A session whose scheduler has died while AppState holds it and its
\* watcher still runs is torn down, and its row closed, without any help
\* from the user (session.rs:522-553).
InstalledDeathIsFinalized ==
    \A s \in Sessions :
        slot = s /\ died[s] /\ watcher[s] # "done"
            ~> row[s] # "open" \/ starter[s] = "gone"

\* Whoever dies is heard: the permit of notify_one survives until the
\* watcher waits, however early the scheduler exits (scheduler.rs:134-139),
\* unless a stop is under way by then.
DeathIsAnnounced ==
    \A s \in Sessions :
        died[s] ~> ended[s] > 0 \/ userStopping[s] \/ starter[s] = "gone"

\* A scheduler that dies by itself has both consequences: the toast and, if
\* its session is installed, the end of the recording.
DeathHasConsequences == InstalledDeathIsFinalized /\ DeathIsAnnounced

-----------------------------------------------------------------------------
(***************************************************************************)
(* What the comments say and the code does not do                          *)
(***************************************************************************)

\* docs/architecture.md:110: when a sampler returns a non-retriable error the
\* watcher "takes the matching Session out of AppState.session and runs
\* Session::stop so the writer drains and finish_session fires".  Not if the
\* watcher has looked before start_recording installs the session.
DeathIsFinalized ==
    \A s \in Sessions :
        died[s] ~> row[s] # "open" \/ starter[s] = "gone"
=============================================================================
