----------------------------- MODULE ColdStart -----------------------------
(***************************************************************************)
(* The measurement of a cold start on iOS (crates/ios/src/startup.rs) and  *)
(* the kernel-trace session it reads (core_profile_session_raw.rs).        *)
(*                                                                         *)
(* An attempt opens a session of its own, anchors the device's clock,      *)
(* launches the application over it if it runs, and keeps the latest UIKit *)
(* event of the three seconds that follow.  A failed attempt is repeated   *)
(* twice.                                                                  *)
(*                                                                         *)
(* Device time is a small integer, the anchor being T0; the host's clock   *)
(* counts the 400 ms waits of one capture.  A wait that expires drops a    *)
(* read that may be half way through a message: from then on the bytes are *)
(* read out of step, and what looks like events may be anything.           *)
(***************************************************************************)
EXTENDS Integers

VARIABLES
    csPhase,    \* the step the measurement is at
    csAttempt,  \* attempt, 1..MAX_ATTEMPTS
    csApp,      \* the attempt that launched the process that runs, 0 for an older one, -1 for none
    csClock,    \* 400 ms waits since the capture began
    csSeen,     \* events_seen > 0
    csLast,     \* last_2b_mach, -1 for None
    csTiming,   \* the ticks returned, -1 for none
    csCut,      \* a read of this session was dropped half way through a message
    csGenuine,  \* the latest UIKit event of the anchor's window read in step, -1 for none
    csForged    \* csLast came from bytes read out of step

csVars == <<csPhase, csAttempt, csApp, csClock, csSeen, csLast, csTiming, csCut, csGenuine, csForged>>
csCapture == <<csClock, csSeen, csLast, csCut, csGenuine, csForged>>

MAX_ATTEMPTS == 3
StreamAlive == 4    \* 1500 ms in waits of 400 ms
MaxWindow == 8      \* 3000 ms in waits of 400 ms
CsNone == -1

T0 == 1             \* mach_absolute_time of the anchor
MaxTicks == 2       \* five seconds in device ticks
CsStamps == 0..4      \* before the anchor, at it, twice within the limit, beyond
TickWord == 8       \* u64

CsPhases == { "idle", "springboard", "transport", "capabilities", "mount", "anchor", "launch",
              "capture", "backoff", "ok", "failed" }

CsTypeOK ==
    /\ csPhase \in CsPhases /\ csAttempt \in 1..MAX_ATTEMPTS
    /\ csApp \in {CsNone, 0} \cup (1..MAX_ATTEMPTS)
    /\ csClock \in 0..MaxWindow /\ csSeen \in BOOLEAN /\ csLast \in {CsNone} \cup CsStamps
    /\ csTiming \in {CsNone} \cup (0..TickWord - 1)
    /\ csCut \in BOOLEAN /\ csGenuine \in {CsNone} \cup CsStamps /\ csForged \in BOOLEAN

CsInit ==
    /\ csPhase = "idle" /\ csAttempt = 1 /\ csApp \in {CsNone, 0} /\ csTiming = CsNone
    /\ csClock = 0 /\ csSeen = FALSE /\ csLast = CsNone
    /\ csCut = FALSE /\ csGenuine = CsNone /\ csForged = FALSE

-----------------------------------------------------------------------------
(* One attempt up to the launch *)

\* The wrapper gives up after the third failure and sleeps before the next attempt otherwise.
AttemptFails ==
    csPhase' = IF csAttempt < MAX_ATTEMPTS THEN "backoff" ELSE "failed"

\* A step that answers or fails.
CsAttempt(from, to) ==
    /\ csPhase = from
    /\ csPhase' = to \/ AttemptFails
    /\ UNCHANGED <<csAttempt, csApp, csTiming, csCapture>>

\* Bringing SpringBoard to the front may fail; the measurement goes on.
CsSpringBoard ==
    /\ csPhase = "idle" /\ csPhase' = "transport"
    /\ UNCHANGED <<csAttempt, csApp, csTiming, csCapture>>

\* A session of its own for every call: provider, tunnel, handshake, service.
CsAcquire ==
    /\ csPhase = "transport"
    /\ \/ /\ csPhase' = "capabilities"
          /\ csClock' = 0 /\ csSeen' = FALSE /\ csLast' = CsNone
          /\ csCut' = FALSE /\ csGenuine' = CsNone /\ csForged' = FALSE
       \/ AttemptFails /\ UNCHANGED csCapture
    /\ UNCHANGED <<csAttempt, csApp, csTiming>>

\* The first message on the new connection is dropped unread; five seconds for it.
CsCapabilities == CsAttempt("capabilities", "mount")

\* The reply to the channel request among the pushes; configuration and start are not answered.
CsMount == CsAttempt("mount", "anchor")

\* A second connection, the device's clock and the process control channel.
CsAnchor == CsAttempt("anchor", "launch")

\* Mistake: the application is left running when it runs.
LaunchOverNone(app) == IF app = CsNone THEN csAttempt ELSE app

\* launch_app with kill_existing.
LaunchOver(app) == csAttempt

\* The request may fail after the device has carried it out.
CsLaunch ==
    /\ csPhase = "launch"
    /\ \/ csPhase' = "capture" /\ csApp' = LaunchOver(csApp)
       \/ AttemptFails /\ csApp' \in {csApp, CsNone, LaunchOver(csApp)}
    /\ UNCHANGED <<csAttempt, csTiming, csCapture>>

-----------------------------------------------------------------------------
(* capture_post_launch_timestamp *)

CsLater(a, b) == IF a > b THEN a ELSE b

CsTicks(stamp) == (stamp - T0) % TickWord

\* An event at or before the anchor or five seconds after it is passed over.
Kept(last, stamp) ==
    IF stamp <= T0 \/ CsTicks(stamp) > MaxTicks THEN last ELSE CsLater(last, stamp)

\* Mistake: the loop ends only by an error or by quiet.
WindowNever == FALSE

WindowOver == csPhase = "capture" /\ csClock >= MaxWindow

Waited == IF csClock < MaxWindow THEN csClock + 1 ELSE csClock

CsWatching == csPhase = "capture" /\ ~WindowOver

\* Nothing at all 1.5 s after the launch: the trace is taken to be wedged.
CsWedged == ~csSeen /\ csClock >= StreamAlive /\ csLast = CsNone

\* A batch of events; UIKit ones carry a stamp, the others only show that the stream is alive.
\* Out of step, a batch may be anything.  Reading takes up to one wait.
CsBatch ==
    /\ CsWatching /\ ~CsWedged
    /\ csSeen' = TRUE
    /\ \/ UNCHANGED <<csLast, csGenuine, csForged>>
       \/ \E stamp \in CsStamps :
            /\ csLast' = Kept(csLast, stamp)
            /\ IF csCut
                 THEN csForged' = (csForged \/ csLast' # csLast) /\ UNCHANGED csGenuine
                 ELSE /\ csGenuine' = (IF stamp - T0 \in 1..MaxTicks THEN CsLater(csGenuine, stamp) ELSE csGenuine)
                      /\ UNCHANGED csForged
    /\ csClock' \in {csClock, Waited}
    /\ UNCHANGED <<csPhase, csAttempt, csApp, csTiming, csCut>>

\* The status message that refuses the trace, a broken connection, or a message that does not add up.
CsReadFails ==
    /\ CsWatching /\ ~CsWedged
    /\ AttemptFails
    /\ UNCHANGED <<csAttempt, csApp, csTiming, csCapture>>

\* 400 ms without a batch are the end once a UIKit event was kept.
QuietEnds(last) == last # CsNone

\* The wait drops the read, half way through a message or between two.
CsQuiet ==
    /\ CsWatching /\ ~CsWedged
    /\ csClock' = Waited
    /\ IF QuietEnds(csLast)
         THEN csPhase' = "ok" /\ csTiming' = CsTicks(csLast) /\ UNCHANGED csCut
         ELSE csCut' \in {csCut, TRUE} /\ UNCHANGED <<csPhase, csTiming>>
    /\ UNCHANGED <<csAttempt, csApp, csSeen, csLast, csGenuine, csForged>>

CsWedge ==
    /\ CsWatching /\ CsWedged
    /\ AttemptFails
    /\ UNCHANGED <<csAttempt, csApp, csTiming, csCapture>>

\* The window ends: the latest event kept, or the attempt has failed.
CsWindowEnds ==
    /\ WindowOver
    /\ IF csLast # CsNone
         THEN csPhase' = "ok" /\ csTiming' = CsTicks(csLast)
         ELSE AttemptFails /\ UNCHANGED csTiming
    /\ UNCHANGED <<csAttempt, csApp, csCapture>>

CsRetry ==
    /\ csPhase = "backoff"
    /\ csPhase' = "idle" /\ csAttempt' = csAttempt + 1
    /\ UNCHANGED <<csApp, csTiming, csCapture>>

\* The process may die at any time.
CsAppDies ==
    /\ csApp # CsNone /\ csPhase \notin {"ok", "failed"} /\ csApp' = CsNone
    /\ UNCHANGED <<csPhase, csAttempt, csTiming, csCapture>>

CsStep ==
    \/ CsSpringBoard \/ CsAcquire \/ CsCapabilities \/ CsMount \/ CsAnchor \/ CsLaunch
    \/ CsBatch \/ CsQuiet \/ CsWedge \/ CsWindowEnds \/ CsRetry

CsNext == CsStep \/ CsReadFails \/ CsAppDies

CsSpec == CsInit /\ [][CsNext]_csVars

\* What answers or fails in the end, and the time that passes while the trace is read.
CsProgress == CsStep /\ (csClock' # csClock \/ csPhase' # csPhase)

-----------------------------------------------------------------------------
(* Properties *)

\* The time returned is past the anchor and within the limit.  It is that of the latest event of
\* the launch's own window, but where a read was dropped half way through a message before any
\* such event was kept: it then comes from bytes read out of step
\* (core_profile_session_raw.rs:378-462).
TimingHonest ==
    csPhase = "ok" =>
        /\ csTiming \in 1..MaxTicks
        /\ \/ csTiming = csGenuine - T0
           \/ csForged /\ csCut /\ csGenuine = CsNone

\* A capture that has kept a genuine event never reads on after a dropped read: what it returns is
\* not mixed with bytes read out of step (core_profile_session_raw.rs:420-439).
NeverMixed == ~(csCut /\ csGenuine # CsNone)

\* The time returned is that of a process this attempt started, also after an attempt that failed
\* once it had launched the application (startup.rs:118-126).
EveryTimingIsCold == csPhase \in {"capture", "ok"} => csApp \in {CsNone, csAttempt}

\* A measurement ends, also under a stream of events that never goes quiet and never shows a UIKit
\* one (core_profile_session_raw.rs:411-418, startup.rs:58-90).
MeasurementEnds == [](csPhase = "transport" => <>(csPhase \in {"ok", "failed"}))
=============================================================================
