------------------------------ MODULE Startup ------------------------------
(***************************************************************************)
(* The measurement of an application's start: the probe that tells a hot   *)
(* start from a cold one (apps/desktop/src-tauri/src/session.rs) and, on   *)
(* Android, the shell commands that launch the application and print how   *)
(* long it took (crates/android/src/startup.rs).  On iOS the hot start is  *)
(* one request; the cold one is the subject of ColdStart.                  *)
(*                                                                         *)
(* A time is "none", "zero" or "some".  The application's process is where *)
(* it shows - in front, on its way to the back, or in the back - and which *)
(* of its processes it is: the one running before, or the launch's own.    *)
(***************************************************************************)
EXTENDS Naturals

VARIABLES
    suPlatform,  \* "android" | "ios"
    suStep,      \* the next command of the measurement
    suMode,      \* "hot" | "cold", "none" before the probe
    suPlace,     \* where the process shows: "front" | "moving" | "back", "none" when none runs
    suOwn,       \* the process was started by the launch that is measured
    suTime,      \* the time the measurement returned
    suLost,      \* ghost: the process died after the probe
    suStayed,    \* ghost: the HOME key failed or its transition took longer than the pause
    suKept,      \* ghost: am force-stop failed
    suDelayed    \* ghost: the stop of am start -S came after the launch

suStops == <<suKept, suDelayed>>
suVars == <<suPlatform, suStep, suMode, suPlace, suOwn, suTime, suLost, suStayed, suStops>>

SuTypeOK ==
    /\ suPlatform \in {"android", "ios"}
    /\ suStep \in {"probe", "resolve", "stop", "start", "home", "pause", "again", "springboard",
                   "launch", "ok", "failed"}
    /\ suMode \in {"none", "hot", "cold"} /\ suPlace \in {"none", "front", "moving", "back"}
    /\ suOwn \in BOOLEAN /\ suTime \in {"none", "zero", "some"}
    /\ suLost \in BOOLEAN /\ suStayed \in BOOLEAN
    /\ suKept \in BOOLEAN /\ suDelayed \in BOOLEAN

SuInit ==
    /\ suPlatform \in {"android", "ios"} /\ suStep = "probe" /\ suMode = "none"
    /\ suPlace \in {"none", "front", "back"} /\ suOwn = FALSE /\ suTime = "none"
    /\ suLost = FALSE /\ suStayed = FALSE /\ suKept = FALSE /\ suDelayed = FALSE

-----------------------------------------------------------------------------
(* The device *)

\* The process may die at any time before the measurement is over.
SuDies ==
    /\ suPlace # "none" /\ suStep \notin {"ok", "failed"}
    /\ suPlace' = "none" /\ suLost' = TRUE
    /\ UNCHANGED <<suPlatform, suStep, suMode, suOwn, suTime, suStayed, suStops>>

\* The home screen has taken over.
SuMoves ==
    /\ suPlace = "moving" /\ suPlace' = "back"
    /\ UNCHANGED <<suPlatform, suStep, suMode, suOwn, suTime, suLost, suStayed, suStops>>

-----------------------------------------------------------------------------
(* The probe *)

\* What follows the probe on either platform.
FirstStep == IF suPlatform = "android" THEN "resolve" ELSE IF suMode' = "hot" THEN "springboard" ELSE "launch"

\* pidof, or the process list on iOS; a probe that fails says that nothing runs.
SuProbe ==
    /\ suStep = "probe"
    /\ suMode' \in {"cold"} \cup (IF suPlace # "none" THEN {"hot"} ELSE {})
    /\ suStep' = FirstStep
    /\ suLost' = FALSE
    /\ UNCHANGED <<suPlatform, suPlace, suOwn, suTime, suStayed, suStops>>

\* measure_startup: the user names the mode, whatever runs.
SuAsk ==
    /\ suStep = "probe"
    /\ suMode' \in {"hot", "cold"}
    /\ suStep' = FirstStep
    /\ suLost' = (suPlace = "none")
    /\ UNCHANGED <<suPlatform, suPlace, suOwn, suTime, suStayed, suStops>>

-----------------------------------------------------------------------------
(* Android *)

SuFails == suStep' = "failed" /\ UNCHANGED <<suPlace, suOwn, suTime, suStayed, suStops>>

\* The launcher activity; its absence is the only failure before anything is launched.
SuResolve ==
    /\ suStep = "resolve"
    /\ \/ suStep' = (IF suMode = "cold" THEN "stop" ELSE "start")
          /\ UNCHANGED <<suPlace, suOwn, suTime, suStayed, suStops>>
       \/ SuFails
    /\ UNCHANGED <<suPlatform, suMode, suLost>>

\* am force-stop; its failure is ignored.
SuForceStop ==
    /\ suStep = "stop" /\ suStep' = "start"
    /\ \/ suPlace' = "none" /\ UNCHANGED suKept
       \/ suKept' = TRUE /\ UNCHANGED suPlace
    /\ UNCHANGED <<suPlatform, suMode, suOwn, suTime, suLost, suStayed, suDelayed>>

\* am start stops the process itself with -S, given for a cold start, but some devices delay that
\* stop and the launch still meets the process.
PlaceAtStart(place) ==
    IF suMode = "cold"
      THEN place \in {"none", suPlace} /\ suDelayed' = (place # "none")
      ELSE place = suPlace /\ UNCHANGED suDelayed

\* What am start -W does and says: no-op in front of everything, an unknown state while the home
\* screen is taking over, a launch otherwise.
AmStart(place, says) ==
    \/ place = "front" /\ suPlace' = "front" /\ says = "zero" /\ UNCHANGED suOwn
    \/ place = "moving" /\ suPlace' \in {"front", "moving"} /\ says = "none" /\ UNCHANGED suOwn
    \/ place = "back" /\ suPlace' = "front" /\ says = "some" /\ UNCHANGED suOwn
    \/ place = "none" /\ suPlace' = "front" /\ says = "some" /\ suOwn' = TRUE

\* is_already_foreground: either marker, of a no-op or of an unknown state.
AlreadyForeground(says) == says \in {"zero", "none"}

\* parse_total_time: a missing line or status is an error, any number is a time.
Parsed(says) ==
    IF says = "none" THEN suStep' = "failed" /\ UNCHANGED suTime
    ELSE suStep' = "ok" /\ suTime' = says

\* The first am start.
SuStart ==
    /\ suStep = "start"
    /\ \/ \E place \in {"none", "front", "moving", "back"}, says \in {"none", "zero", "some"} :
            /\ PlaceAtStart(place) /\ AmStart(place, says)
            /\ IF suMode = "hot" /\ AlreadyForeground(says)
                 THEN suStep' = "home" /\ UNCHANGED suTime
                 ELSE Parsed(says)
            /\ UNCHANGED <<suStayed, suKept>>
       \/ SuFails
    /\ UNCHANGED <<suPlatform, suMode, suLost>>

\* The HOME key; its failure is ignored.
SuHome ==
    /\ suStep = "home" /\ suStep' = "pause"
    /\ \/ suPlace' = (IF suPlace = "none" THEN "none" ELSE "moving") /\ UNCHANGED suStayed
       \/ suStayed' = TRUE /\ UNCHANGED suPlace
    /\ UNCHANGED <<suPlatform, suMode, suOwn, suTime, suLost, suStops>>

\* 800 ms, within which the home screen is there as a rule.
SuPause ==
    /\ suStep = "pause" /\ suStep' = "again"
    /\ suStayed' = (suStayed \/ suPlace = "moving")
    /\ UNCHANGED <<suPlatform, suMode, suPlace, suOwn, suTime, suLost, suStops>>

\* The second am start, whose markers nobody looks at.
SuAgain ==
    /\ suStep = "again"
    /\ \/ \E says \in {"none", "zero", "some"} :
            AmStart(suPlace, says) /\ Parsed(says) /\ UNCHANGED <<suStayed, suStops>>
       \/ SuFails
    /\ UNCHANGED <<suPlatform, suMode, suLost>>

-----------------------------------------------------------------------------
(* iOS *)

\* SpringBoard comes to the front first, or the failure is logged.
SuSpringBoard ==
    /\ suStep = "springboard" /\ suStep' = "launch"
    /\ suPlace' \in {suPlace, IF suPlace = "none" THEN "none" ELSE "back"}
    /\ UNCHANGED <<suPlatform, suMode, suOwn, suTime, suLost, suStayed, suStops>>

\* launch_app, with kill_existing only for a cold start; the time of a hot start is the request's own.
SuLaunch ==
    /\ suStep = "launch"
    /\ \/ /\ suOwn' = (suOwn \/ suMode = "cold" \/ suPlace = "none")
          /\ suPlace' = "front" /\ suTime' = "some" /\ suStep' = "ok"
          /\ UNCHANGED <<suStayed, suStops>>
       \/ SuFails
    /\ UNCHANGED <<suPlatform, suMode, suLost>>

SuNext ==
    \/ SuProbe \/ SuAsk \/ SuResolve \/ SuForceStop \/ SuStart \/ SuHome \/ SuPause \/ SuAgain
    \/ SuSpringBoard \/ SuLaunch \/ SuMoves \/ SuDies

SuSpec == SuInit /\ [][SuNext]_suVars

-----------------------------------------------------------------------------
(* Properties *)

\* The process that ran before outlived both the explicit stop and that of the launch.
Outlived == suKept /\ suDelayed

\* A cold start is of a process the launch itself created, also when the probe was wrong or one of
\* the two stops failed (startup.rs:33-54).
ColdIsNewProcess == suStep = "ok" /\ suMode = "cold" => suOwn \/ Outlived

\* A hot start is of the process that ran when the mode was chosen, unless that one has died since
\* or never was (session.rs:119-141, startup.rs:57-64).
HotKeepsTheProcess == suStep = "ok" /\ suMode = "hot" => ~suOwn \/ suLost

\* A start of no duration is returned only when the HOME key did not bring the application to the
\* back within the pause (startup.rs:76-92), or when a cold start met the application in front.
ZeroOnlyIfItStayed == suTime = "zero" => suStayed \/ (suMode = "cold" /\ Outlived)
=============================================================================
