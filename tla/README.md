# Verification of mperf

mperf is a desktop application (Tauri: a Rust back end, a React front end) that
records performance metrics of an app running on an Android or iOS device.
This directory holds TLA+ models of it, the TLC runs that check them on small
instances, and proofs checked by TLAPS. Paths such as `session.rs` are relative
to the part of the repository named in the inventory.

## 1. Inventory

| Part | Code | State it keeps | Operations |
|---|---|---|---|
| Recording sessions | `apps/desktop/src-tauri/src/session.rs`, `commands.rs` | `AppState.session` (at most one `Session`), `user_stopping`, the writer, pump and watcher tasks | `start_session`, `stop_session`, `delete_session`, automatic end |
| Scheduler | `crates/core/src/scheduler.rs` | the task, its cancel channel, the broadcast sender, `exit_notify` | `Scheduler::start`, `SchedulerHandle::{subscribe, stop}` |
| Sample pipeline | `scheduler.rs`, `session.rs` (writer, pump) | a broadcast ring of 1024, the writer's batch | send, receive, lag, flush, final drain |
| Storage | `crates/storage/src` | SQLite tables `sessions`, `samples_wide`, `samples_long`, `markers`, `schema_version` | create, finish, insert batch, load, delete, markers, timings, migrations, orphan clean-up |
| Log stream | `apps/desktop/src-tauri/src/log_stream.rs`, `crates/android/src/logcat.rs`, `crates/ios/src/os_trace.rs`, `LogTerminal.tsx` | `AppState.log_stream`, the attached pid(s), the terminal's fence and ring | start, stop, attach, wait for the app, re-attach |
| Live view | `apps/desktop/src/components/LiveView.tsx` | `activeSessionId`, watchdog strikes, heartbeat, cooldown dialog, its list of markers | start, stop, ended event, device-list watchdog, heartbeat watchdog, marker edits |
| History view | `HistoryView.tsx` | the list as last fetched, ticks, open row, dialog | list, tick, delete, marker edits |
| Android samplers | `crates/android/src/{cpu,fps,memory,gpu,temperature,battery}.rs` | previous counters, strike counts, high-water marks of layers | one stream each |
| iOS samplers | `crates/ios/src/{cpu,sysmontap_raw,graphics,graphics_raw}.rs` | strike counts, transient-error counts, last memory | one stream each |
| Launch and start-up timing | `startup.rs` of both crates, `core_profile_session_raw.rs`, `session.rs` | the attempt, the capture window | probe, cold start, hot start, retry |
| Devices and apps | `devices.rs`, `apps.rs` of both crates | the iOS name cache | list |
| Charts and intervals | `Live*Chart.tsx`, `Static*Chart.tsx`, `useMetricFrequencies.ts` | points, the pending row of cores, copies of the chosen intervals | sample event, edit, start |

How the parts meet: the front end calls commands (`invoke`) and listens to
events (`live-sample`, `session-ended`, `log-*`). `start_recording` measures the
launch if asked to, creates a row, builds the samplers at their intervals, starts
a scheduler and spawns three tasks that share the broadcast channel, the
`exit_notify` permit and the `user_stopping` flag; `AppState` holds the session
behind an async mutex. Everything that persists goes through one SQLite
connection, owned by one thread. The samplers share no state with each other:
each is a stream the scheduler polls.

What is hard about it:

* A session ends in four ways (Stop, a displacing Start, its scheduler's own
  death, the end of the process) that may overlap; each of its tasks holds
  something another one waits for; a watcher acts on what it read before an await.
* A row, an event and the front end's idea of the active session are three
  records of one fact; the front end has three watchdogs and no ordering of
  replies.
* The broadcast ring overtakes a slow writer.
* Log-stream commands run concurrently and a task blocked in a device read does
  not look at its cancel flag; the app under test restarts under another pid.
* The front end filters events of a stream that is gone by a time stamp.
* The process may end between any two SQL statements, and several builds open
  the same database.
* Lists are shown before they are saved (live markers) or after (history), and a
  deletion works on ticks made earlier.
* Samplers must tell a device that says nothing for a moment from one that never
  will again, and an app that is gone from a list that lacks it.
* Rates and times are differences of two readings; what came between them
  (a restart, a failed trip, a ring that wrapped) decides if they mean anything.

What makes each part correct:

* Recording: a handle has one owner; a row ends once, complete, with a stamp by
  the task that wrote its samples; the ended event speaks of the scheduler's own
  end only and comes once; no row stays open for good; nothing hangs.
* Pipeline: each sample has one fate, stored samples keep their order, what is
  in memory gets to disk although nobody stops.
* Log stream: no task without an owner, stop works on a task that is not
  listening, the status is what the task does, the stream follows the app.
* Log terminal: order, no gaps, a stream if and only if the terminal is open.
* Live view: at rest it shows the session that records; a flicker of the device
  ends nothing, silence ends the recording.
* Storage: no data without its session, whole batches, migrations that survive a
  crash and a downgrade.
* Markers, history: the lists are the table's; a recording session is not deleted.
* Samplers: absence is neither invented nor missed, a stream ends for cause and
  only then, a rate is over the time it is of.
* Start-up timing: a cold time is of a process that did not run before.
* Charts and intervals: live and recorded charts agree; each card is fed as
  often as promised.

## 2. Plan

Everything below is done.

1. `SessionHistory` (abstract), `Recording`, its invariant and proofs.
2. `SampleFate` (abstract), `Pipeline`, its invariant and proofs.
3. `LogStream`, `LogAttach` with proofs; `LogTerminal`, which composes the
   terminal with `LogStream`.
4. `LiveView`: the front end's active session, its watchdogs and the ended event
   against the session slot of the back end; `HistoryView`.
5. `Tables` and `Migrations`; `Markers`.
6. Samplers: `IosCpu`, `AndroidCpu`, `SurfaceFrames`, `AndroidFps`, `Probes`.
7. Start-up measurement: `Startup`, `ColdStart`. The device-name cache:
   `DeviceNames`. `Charts` and `Rates`.
8. Proofs about the rest: `LiveView`; `Tables` and `Migrations`; `HistoryView`,
   `Markers`, `Charts` and `Rates`; `LogTerminal`; every sampler and `DeviceNames`.

What further work would be worth: `StreamMatchesSwitch` under an ordering of
commands that makes it true; `LiveView` composed with `Recording`'s tasks in one
instance; an abstract specification of the marker table that `Markers`
implements.

## 3. The modules

| Module | Role | Code |
|---|---|---|
| `SessionHistory` | what the history promises: increasing ids, samples in open sessions only, one end stamp | the contract of `storage/src/lib.rs` |
| `Recording` | sessions, their four tasks, commands, crash and restart | `session.rs`, `commands.rs`, `scheduler.rs`, `storage/src/lib.rs` |
| `RecordingInv`, `RecordingProofs` | inductive invariant, theorems | |
| `SampleFate` | each sample is undecided, then stored or lost, once | the contract of the pipeline |
| `Pipeline` | one session's broadcast ring, writer, pump and inserts | `scheduler.rs`, `session.rs`, `storage/src/lib.rs` |
| `PipelineInv`, `PipelineProofs` | inductive invariant, theorems | |
| `LogStream` | slot, lock, start and stop commands, a task's cancel protocol | `log_stream.rs`, `commands.rs` |
| `LogStreamProofs` | theorems about `LogStream` (whose invariant is there) and `LogTerminal` | |
| `LogAttach` | one task in detail: wait, attach, stream, re-attach | `log_stream.rs`, `logcat.rs`, `os_trace.rs`, `pid_resolver.rs` |
| `LogAttachProofs` | theorems (the invariant is in `LogAttach`) | |
| `LogTerminal` | `LogStream` with the terminal, the event channel and clocks | `LogTerminal.tsx`, `logcat.rs`, `os_trace.rs` |
| `LiveView` | the Live tab against `AppState` across IPC | `LiveView.tsx`, `session.rs`, `commands.rs` |
| `LiveViewProofs` | inductive invariant, theorems | |
| `HistoryView` | list, ticks, deletion dialog | `HistoryView.tsx` |
| `Tables` | the tables, statement by statement, under crashes | `storage/src/lib.rs` |
| `Migrations` | schema and version table under crashes and several builds | `storage/src/schema.rs` |
| `StorageProofs` | invariants and theorems of `Tables` and `Migrations` | |
| `Markers` | marker commands, table, both views' lists | `LiveView.tsx`, `HistoryView.tsx`, `commands.rs`, `storage/src/lib.rs` |
| `Charts` | live CPU charts beside the recorded ones | `LiveCpuChart.tsx`, `LivePerCoreChart.tsx`, `Static*Chart.tsx` |
| `Rates` | intervals from the picker to the samplers | `useMetricFrequencies.ts`, `LiveView.tsx`, `session.rs` |
| `ViewsProofs` | invariants and theorems of `HistoryView`, `Markers`, `Charts` and `Rates` | |
| `IosCpu` | the iOS CPU and memory sampler over its channel | `ios/src/cpu.rs`, `sysmontap_raw.rs` |
| `ColdStart` | the iOS cold start: attempts and the kernel trace | `ios/src/startup.rs`, `core_profile_session_raw.rs` |
| `Startup` | probe, choice of mode and launch, both platforms | `session.rs`, `android/src/startup.rs`, `ios/src/startup.rs`, `ios/src/launch.rs` |
| `AndroidCpu` | the Android CPU sampler | `android/src/cpu.rs` |
| `SurfaceFrames` | frames of one SurfaceView layer, jank tiers | `android/src/fps.rs` |
| `AndroidFps` | the tick of the FPS sampler, its two sources | `android/src/fps.rs` |
| `Probes` | the one-question-per-tick samplers of both platforms | `android/src/{gpu,temperature,memory,battery}.rs`, `ios/src/graphics*.rs`, `android/src/adb.rs`, `schema/src/error.rs` |
| `DeviceNames` | overlapping listings and their name cache | `ios/src/devices.rs` |
| `SamplersProofs` | invariants and theorems of every sampler, of the launch and of `DeviceNames` | |
| `MC*` | instances for TLC | |

**Recording.** A session is named by its row id. `starter`, `sched`, `writer`,
`pump`, `watcher` and `stopper` say how far the call or task of that name is;
`slot` is `AppState.session`. Every stretch of code between two awaits that
another task can observe is one action. Samples are counted, not named; what a
lag loses is Pipeline's subject. Storage writes end as `StorageOutcomes` allows.
`Crash` drops everything but the database, `Restart` runs the clean-up of
`Storage::open`.

**Pipeline.** Samples are numbered in the order they are sent; `cursor` is the
writer's place in the ring of `Cap` samples, `batch` and `writing` what it holds.
`stored`, `lagged` and `failed` are the three fates. The refinement maps them to
`SampleFate`. The pump is there for its own lag and end; it loses samples on
screen only.

**LogStream.** A stream is named by the start command that made it. The lock is
a variable, since whether it is held while a stream is being stopped is the
point. A task alternates between looking at its cancel flag, awaiting, and
emitting one event; that it emits one event at most in between is
`LogAttach!OneEventPerCheck`, proved there. An abort takes effect at an await.

**LogAttach.** `at` is where the task is; the device side starts and kills
processes, with fresh pids, and may be unplugged for good. A poll finds
the pids of the moment, finds none, or is an error. On Android an adb trip that
fails, whether the device left or hiccups, is answered "no process" by `pidof`; only
an adb that cannot be run is an error. So a watch that misses its pid drops the
connection and waits, also after an unplug, and that wait polls on until a stop. On
iOS a failed trip is an error. Failures while the device is there are bounded by
`MaxBlips`. `broken` records that a log connection ended under a device that is
there; `FollowsApp` speaks of behaviours without that.

**LogTerminal.** `Open`, `SwitchCleansUp`, `SwitchStarts`, `Close`, `Deliver` and
`Flush` are the callbacks of the component, which JavaScript runs one at a time;
between the cleanup and the next run of an effect nothing else runs, hence
`switching`. Events are lines of a stream with a number and a time stamp. Time
is a counter that `Tick` advances.

**LiveView.** The web view runs one handler at a time, an await splits it in two;
commands run concurrently in the back end and their replies come in any order.
Inside the back end a session runs or its scheduler has died: its tasks are
`Recording`'s subject. `Poll` is the answer of `list_devices` together with the
effect it triggers; `HeartbeatTick` is the interval. `crossed` records that the
user clicked Start, or confirmed the dialog that a click within the cooldown
opens, while a call was still under way.

**HistoryView.** The recorder is reduced to what the tab can see of it: a session
gets its row, the reply of its start puts it on the screen (or its scheduler did not
start), and its end and the screen letting go of it come in either order: the screen
may clear, or show the reply of another start, while the session records on. `early`
collects ticks made before the start had returned, `lost` the sessions the screen
let go of while they recorded.

**Tables.** One call at a time has the connection. A call in a transaction works
on a copy (`work`) that COMMIT writes; `Crash` drops it. Cells carry the batch
they came with, so that a part of a batch shows. `told` records which timings
were reported as stored.

**Migrations.** `ddl` and `versions` are the schema and the version table on disk,
`tx` the open transaction. `Launch` starts any of `Builds`; the process may end
at every step.

**Markers.** An edit is shown first and sent afterwards in the live view, sent
first and fetched afterwards in the history; each call goes its own way to the
one database thread, so they may land in any order. Any
session may be opened in the history, the one being recorded too; its list is cached
under its id and fetched again only after an edit of the history itself or when it has
grown old. `outdated` holds the sessions whose markers the Live tab changed after their
list was fetched. Fetches succeed here, and so do starts. `muddled` records the cases
the code does not promise anything about (section 4).

**Charts.** A sample's value is the stamp of its push, so a value at the wrong place
shows. Pushes may come less than half a second (`Near`) apart and any sample of one
may be missing: at the interval of 500 ms, and on iOS, where the total and the app's
value of one reading may come in two pushes, the live chart's half-second pairing is
not the recorded chart's equality of stamps. The recorded charts are operators over
the set of samples.

**Rates.** Storage of the window, two hooks' copies of it, the event that makes
them load again, the copy captured by Start, and the interval of each sampler.

**Samplers.** In each the device is part of the model: processes start and die, the
cable is pulled, trips fail, files are withheld. What a shell command or a push says
is abstracted to what the sampler tells apart. In `Startup` each of the two stops
before an Android cold start may fall short: `am force-stop` may fail, and the stop
implied by `am start -S` may come after the launch. In `Probes` a failed trip is
transient, says that the device is gone, or is fatal; with the cable in all three
occur, since `adb.rs` goes by the text of stderr and by what is UTF-8, and only a
transient one lets a sampler go on. In `SurfaceFrames` the ring itself and the times
of frames are there; `AndroidFps` counts frames only. In `ColdStart` device ticks
are small numbers around the anchor, with stale and forged stamps, since a read that
was cut leaves the decoder out of step.

`Mistake:` definitions are not used by any specification. Each is a plausible
wrong version of the definition that follows it, kept so that every property can
be seen to fail on some wrong code.

## 4. The runs

| Run | Bounds | Properties |
|---|---|---|
| `recording` | 2 sessions, 1 sample, 1 crash, writes may fail | `SingleOwner`, `EndedEventTruthful`, `RowsTellTheTruth`, `LivingSessionLeavesByUser`, `HistorySpec` (refinement of `SessionHistory`) |
| `recording_live` | 2 sessions, no sample, storage works | `RowsEndedByWriter`; `StopCompletes`, `DeathHasConsequences` |
| `pipeline` | ring 2, batch 2, 5 samples, inserts may fail | `EverySampleAccounted`, `FateSpec` (refinement of `SampleFate`), `EverySampleDecided` |
| `log_commands` | 3 commands, 2 events a stream | `StreamsUnderControl`, `CommandsTakeEffect` |
| `terminal_safety` | 3 commands, 2 lines a stream, ring of 1, 2 readings of the clock | `TerminalTypeOK`, `ShownFaithfully` |
| `attach_app` | both platforms, 3 processes, 2 failed polls, connections break | `StatusHonest`, `FollowsApp`, `UnpluggedShows` |
| `live_view` | 2 sessions, 1 stop call at a time, heartbeat of 2 ticks | `LiveTypeOK`, `ScreenTellsTheTruth`, `NoStopOnFlicker`, `SilenceEnds` |
| `records` | tables: 2 rows, 1 ms, 1 batch; builds of 1, 2 and 3 migrations; markers: 2 recordings, 1 marker, 2 edits; history: 2 rows; charts: window 2, stamps to 4, half a second of 2, 2 cores; 2 choices of an interval | `RecordsTypeOK`, `TablesSound`, `MigrationsSound`, `MarkerListsStored`, `OnlyUnseenEndangered`, `DeletedLeavesNoTrace`, `ChartsAgree`, `IntervalsHonoured`, `CallsConclude` |
| `samplers` | 2 listings at once, time to live 2; the bounds of the other machines are named in their modules | `SamplersTypeOK`, `AbsenceHonest`, `EndsOnlyForCause`, `EndsWhenGone`, `StartupTimesTrue`, `MeasurementEnds`, `AppShareHonest`, `FramesAccounted`, `NamesHonest` |

Several properties are conjunctions of named parts, which their modules define
and comment one by one: `TablesSound`, for instance, is `NoOrphanData`,
`BatchesWhole`, `TimingsKept`, `SamplesWithinSession` and `EndKept`. The parts
were refuted one by one by mistakes in the definitions they are about; one
mistake per property is kept.

`records` and `samplers` each hold machines that share no state in the code.
Their MC module chooses one in the initial state (`subject`), which alone moves:
the run explores the sum of the machines, not their product, and the fairness of
a machine is that of its own actions, which are disabled in the others'
behaviours.

Every invariant and every action property of the passing runs is also proved
(section 5); the inductive invariants behind them were checked by TLC before they
were proved and are not repeated in the runs. The runs alone show liveness.

Why the bounds do. Two sessions are what a displacing Start or a stale watcher
needs, and the proofs hold for any number. A ring of two with five samples wraps
twice. Three commands let a stop be at work on one stream while a start replaces it;
the proofs hold for any number. Three processes are two restarts. Two rows let one
be deleted while the other stays; one batch holds two cells, so that part of it can
be lost; builds 1 to 3 allow an upgrade by two steps, by one and a downgrade. Two
edits overlap or follow each other. A chart window of two with four pushes is
shifted twice, and with half a second of two stamps pushes come both within it and
at it. In `SurfaceFrames` the ring of 128 is a ring of 4 and up to 7 frames are
rendered, so it wraps, and the window of three durations is filled; in `AndroidCpu`
counters go to 3, in `AndroidFps` to 2; strike limits (3 and 5) are the code's own,
save the heartbeat's, which is 2 ticks of its interval. Every property's mistake is
found within these bounds. Runs say `CHECK_DEADLOCK FALSE` where a finished
recording, a stopped stream or used-up bounds are ordinary ends.

Runs that find a violation compare what the repository says of itself with what
the code does; each has an entry under `findings` in `PROJECT.json`:

| Run | Statement | What happens |
|---|---|---|
| `recording_race` | a scheduler's death finalizes its session | the watcher may look before the session is installed |
| `terminal_matches` | the stream matches the switch | the stop of a close may run before the start of the open and find no stream: the terminal is closed and its stream runs |
| `live_delete` | a recording session cannot be deleted from the history | a row ticked while its start starts the samplers stays ticked |

Smaller disagreements and limits that no run is spent on. Where a property would
be false because of one, its module names the exception: `muddled` and `outdated`
(`Markers`), `crossed` (`LiveView`), `early`, `lost` and `dismissed` (`HistoryView`),
`missed` (`AndroidFps`), `broken` (`LogAttach`), `Outlived` (`Startup`), `csForged`
(`ColdStart`), `OfAnotherPush` (`Charts`).

Recording and pipeline:

* `session.rs:268` promises a subscription before the first sample; the
  scheduler task is spawned earlier (`scheduler.rs:96`) and may send first.
* `docs/abstractions.md:272` says back pressure is real; the broadcast ring
  overwrites what a slow writer has not read (`session.rs:448`).
* A start whose scheduler fails (`session.rs:264`) leaves an open row until the
  next launch of the program.
* A second instance of the program ends the live session of the first when it
  opens the database.

Log stream and terminal:

* `log_stream.rs:122` says that only one task can exist at a time; a stop releases
  the lock before its task has ended, so a start may spawn a second one.
* `log_stream.rs:54` says that the slot is cleared on a natural end; a stream that
  ended by itself stays there until the next command.
* `log_stream.rs:278-280` says that a transient failure of `pidof` keeps the stream; an
  adb trip that fails while the device is there reads like an app that is gone
  (`logcat.rs:200-202`), and the connection of the living process is dropped.
* An unplug ends a stream, but a wait under way polls on until a stop, and an Android
  watch whose poll fails before the end of the file is read goes into that wait.
* One failed resolve ends the iOS stream (`log_stream.rs:463-465`), although
  `log_stream.rs:330-332` describes the recovery for both platforms.
* Lines pending at a switch are flushed into the new buffer
  (`LogTerminal.tsx:143` against `:102-105`).
* `docs/test-cases.md:218` expects the Android stream to stay locked on the pid of
  a dead process; the code re-attaches.
* `log_stream.rs:509` says that `wait_for_ios_pids` returns hard errors; it polls on.

Live view, markers, history:

* The watchdog's second strike needs a second run of its effect; on an unchanged
  list the query library returns the same object and the effect does not run.
* A stale ended event, or the continuation of a late stop, clears the id of a newer
  session; of two starts in flight the replies may come out of order. Both need a
  Start before the last one has settled (`crossed`).
* The other half of that: the screen may let go of a session that still records, by the
  ended event of another session (`LiveView.tsx:384-386`), a late stop (`:281-287`) or
  the heartbeat (`:537-540`); its row can then be ticked and deleted (`lost`).
* What the Live tab does to the markers of its session does not reach the list the
  history has cached of it (`outdated`).
* Overlapping edits of one marker may land out of order, a failed edit is not
  rolled back, and the reply of `add_marker` after a new Start appends a foreign
  marker.
* Cancelling the dialog during a deletion lets a deleted row be ticked
  (`dismissed`).
* A cold start that fails after measuring, or one measured from the screen tab,
  does not start the cooldown.

Start-up timing:

* `session.rs:115-117` calls a failed probe a mislabel at worst; taking a running
  app for dead makes it a cold start, which force-stops the app.
* `session.rs:106` says the launch happened without a timing; if the launch
  activity cannot be resolved nothing is launched.
* An Android hot start of 0 ms is returned as such if HOME does not bring the app
  to the back, although `startup.rs:57-63, 78-80` say it is measured again.
* An Android cold start measures the process that ran before if `am force-stop` fails
  (its failure is ignored, `startup.rs:45`) and the device delays the stop of
  `am start -S` (`startup.rs:36-37`): `Outlived`.
* The 400 ms wait of the iOS capture may drop a read half way through a message; if no
  event was kept before, the time returned may come from bytes read out of step
  (`csForged`).
* `ios/src/startup.rs` documents a pool of sessions per device; the code opens a
  fresh one. UIKit events are not filtered by process.

Samplers:

* `session.rs:384-385` says three empty polls end the GPU sampler; `gpu.rs` counts five.
* iOS CPU: without the name attribute the app is a flat zero; when the target is
  gone a process whose name starts alike is taken for it.
* One adb error ends the Android CPU sampler; a failed reading of the app's share
  reads as zero. A memory answer without TOTAL reads 0. "device unauthorized"
  and "closed" count as passing errors for GPU, temperature and battery.
* A trip whose stderr speaks of a device that is offline or not found, or whose output
  is not UTF-8, ends the GPU, temperature, memory and battery samplers at once, with the
  cable in too (`adb.rs:57-62, 68-70`).
* After a failed gfxinfo poll the SurfaceView rate divides the frames of two spans by
  one (`missed`). Frames and jank of a layer are thrown away when the read of a later
  layer fails, and nothing tells (`fps.rs:214-217, 361`).
* The ring of 128 frames overflows at intervals of 5 and 10 s; counts of jank are
  dropped on a layer's first tick and when the layer is gone.
* Temperature falls back to zones that are not the CPU's; the Mali load detection
  prefers by what is readable at that moment.
* Wireless adb serials without a colon are listed as USB.

Charts and intervals:

* The live CPU chart pairs the app's value with the latest total less than half a
  second away, the recorded chart by equal stamps (`StaticCpuChart.tsx:86-88`). A value
  whose push has no total is drawn at the point of another push, although
  `LiveCpuChart.tsx:236-237` speaks of a same-tick backfill, and is a gap in the
  history (`OfAnotherPush`).
* A core first seen after the first row is drawn at the oldest points of the live chart.
* `LiveView.tsx:253-255` says each card has its own interval; cards that share a
  sampler have the fastest.
* A failed save of the chosen intervals is undone by the change event that follows it.
* `metricsCatalog` calls start-up timing unimplemented; the fps statistics assume
  one sample a second; a core's label on Android is its position among those online.

**Fairness.** Only steps of tasks and commands the runtime will poll are fair; no
user has to act, no device has to send, no sampler has to stop or fail. `Recording`:
every task and call goes on. `Pipeline`: the writer is fair in receiving and, on its
own, in its flush tick (`tokio::select!` chooses among ready branches at random, and
between receives the tick stays due). `LogStream`: commands, looks at the flag,
emissions and aborts are fair, awaits are not, since a quiet device never answers.
`LogAttach`: polls return and timers fire; the watch tick and the end of the
connection to a device that is gone are strongly fair because `select!` must choose
them sooner or later among branches that are ready again and again. `LiveView`:
commands return, events arrive, the interval ticks. `Migrations`: a launched process
goes on. `HistoryView`: the handler of a
deletion goes on, its calls return. `IosCpu`, `Probes`: attempts to connect
end, ticks come while the scheduler polls, and a trip to a device that is not there
fails. `ColdStart`: the capabilities, the capture's waits and window and the backoff
have timeouts in the code; connecting, mounting, anchoring and launching have none,
and that these requests answer or fail is assumed: `MeasurementEnds` says nothing of
a phone that keeps one of them open.

## 5. The proofs

All theorems hold for every value of the constants, from the `ASSUME`s named
beside the constants (bounds are numbers, outcomes are known ones).

* `RecordingProofs`: `IInv` (in `RecordingInv`) is inductive. It says, for each
  session, how the control points of its tasks determine each other: before the
  scheduler starts a session has nothing (`Dormant`); the `Session` object is
  with its start call, then in the slot, then with its one stop (`LifeInv`); how
  far the stop is fixes flags and handle (`StopInv`); a writer past its loop has
  an empty channel (`ChannelInv`); a watcher past its wait means a death
  (`EventInv`); a stamp means a finished writer or a gone process (`RowInv`).
  None of the safety properties is inductive alone: that a row ends complete
  needs the channel closed, which needs the handle dropped, which needs the
  scheduler finished. Types, owners, the event, stamps, rows and the refinement
  of `SessionHistory` follow.
* `PipelineProofs`: `PInv` adds to the accounting where the cursor is and that a
  writer beyond its loop has an empty batch and a closed, drained channel.
  Accounting, the last batch, the batch's bound and the refinement of
  `SampleFate` follow.
* `LogStreamProofs`: `LInv` ties the lock to the start that holds it, the slot to
  a started, uncancelled stream, a stopping command to the stream it has taken,
  and late events to where the task is. Owners, orphans and late events follow.
  For the terminal `TInv` adds one sequence, `Seen`: what is shown, waits for the
  flush or is in the channel. It is in order, each of its lines was said, and of
  the stream shown it misses none from its first line on. That needs the fence to
  be no later than the stamps of lines to come, and a terminal that does not
  listen to have nothing. `ShownFaithfully` follows for any number of commands,
  lines and readings of the clock, and any length of the ring.
* `LogAttachProofs`: `AInv` says where events may be unchecked and that a wait
  that has announced itself has Waiting on screen. `OneEventPerCheck` and
  `StatusHonest` follow, for both platforms, whichever polls fail, find nothing or
  find another pid.
* `LiveViewProofs`: `LiveInv` says how the start, the tasks and the stop of each
  session determine each other (`SessionInv`), and, for a user who waits
  (`~crossed`), that a start is made from silence (`Patient`) and that nothing
  under way concerns any but the newest session (`OnlyNewest`).
  `ScreenTellsTheTruth` follows for any number of sessions and of stops in flight;
  `NoStopOnFlicker` needs only that a strike stands for an unusable device.
* `StorageProofs`: for `Tables`, `TablesInv` says what the call at work has done to
  its copy: the cells of a batch written so far (`Written`), the tables emptied so
  far (`Deleted`), the timing's columns. `TablesSound` follows for any number of
  rows and batches, over any time. For `Migrations`, on disk the versions are an
  initial segment of the numbers and the schema is theirs; within the loop the
  transaction is one migration ahead. `MigrationsSound` follows for builds with any
  number of migrations, launched in any order and ended at any point.
* `ViewsProofs`: the ticks of the history (`HistInv`): what is ticked, open or
  refused has its row, but for what the deletion under way has taken; a session that
  records is answering, shown or lost, and one that is ticked meanwhile is early or
  lost. The markers (`MarkInv`): ids are handed out in order and one to a call, a
  start finds nothing under way, edits under way together change different fields,
  the live list is the table as it will be when the calls have landed, and so is
  each list the history has cached unless it is outdated. The charts (`ChartsInv`):
  samples come in the order of their stamps and none again, a live chart's places
  are the last of the stamps in order (there is one such order, and adding a later
  stamp slides the window), the value at each place is its own or that of a push
  less than half a second later which has no total, and the pending row is of the
  latest push a core was heard of. The intervals (`RatesInv`): both views show what
  is stored unless an event is on its way, and a session runs at what the picker
  showed. `MarkerListsStored`, `OnlyUnseenEndangered`, `DeletedLeavesNoTrace`,
  `ChartsAgree` and `IntervalsHonoured` follow for any bounds, as do the types of
  the whole instance.
* `SamplersProofs`: each machine has its invariant. A strike is a list that lacked
  the application (`IosCpu`); the capture of a cold start is of this attempt and its
  times in step, but for one `csForged` by a cut read (`ColdStart`); the process
  whose launch is timed is the probed one for a hot start and a new one for a cold
  start, unless the old one outlived both stops (`Startup`); what the last reading
  shows plus the work since covers the counters (`AndroidCpu`); the span a rate is
  divided by is the age of the last reading (`AndroidFps`); strikes are answers
  unread in a row, and a failed trip ends a sampler only if it is of a kind that
  does not pass (`Probes`); what the name cache holds was the phone's name no longer
  ago than the entry is old, and a listing's rows all carry the name it has settled
  on (`DeviceNames`). For `SurfaceFrames` the argument goes along the ring frame by
  frame: before each, the account is right for the frames up to the mark, the window
  holds the last three proper durations, and, unless the ring lost some, it still
  holds the mark or the frame after it. A behaviour of the instance is a behaviour
  of each machine (`EachMachine`), from which the properties of the run follow;
  those of `DeviceNames` hold for any number of overlapping listings and any time to
  live, the others at the bounds their modules name.

Induction over numbers is done by a least counterexample, both for the folds
along a ring of frames and for the order of a finite set of ticks.

What the proofs found in the models:

* `LiveView` counted a user as impatient only when a start was asked for. With the
  dialog open over a session still settling, `ScreenTellsTheTruth` was false for
  three sessions, which the run's bound of two hid; the click counts now too.
* `BatchesWhole` of the tables, `NoGap` and `ShownInOrder` of the terminal were
  restated over what their proofs argue about (the terminal's three queues as one
  sequence, `Seen`); `ChartsAgree` and `TiersIndependentOfTicks` were computed with
  folds and filters and now say what order, window and tier mean.
* The terminal's clock needs a first reading (`MaxTime` at least 1).

Only model-checked: all liveness properties, since TLAPS proves none under
fairness, and whatever a violation run shows.

## 6. Not modelled

In the parts that are modelled: the unfiltered Android log stream (the front end
never asks for it); pause, filter, search and status badge of the terminal; the
app list, statistics and layout of the views; parsers of shell output, which are
abstracted to what was read or that nothing was; the iOS battery sampler, which
nothing starts; the other live charts, which repeat the listener of the CPU
chart's total. The examples under `crates/*/examples` are tools of the developers.

Whole parts: the iOS syslog relay is superseded by `os_trace`; program set-up
registers commands and opens the storage; device and app queries other than the
iOS list are stateless text processing; the rest of the catalog, translations
and styling formats and lays out. Reasons are also listed under `components` in
`PROJECT.json`.
