------------------------------- MODULE Probes ------------------------------
(***************************************************************************)
(* The samplers that ask the device one question per tick: on Android GPU  *)
(* load, temperature, memory and battery (crates/android/src/gpu.rs,       *)
(* temperature.rs, memory.rs, battery.rs), and the iOS graphics channel    *)
(* (crates/ios/src/graphics.rs, graphics_raw.rs), which waits for pushes.  *)
(* They differ in what they make of an answer that says nothing and of a   *)
(* trip that fails: which one ends the sampler, after how many, and        *)
(* whether anybody is told.                                                *)
(*                                                                         *)
(* An answer is "value", "zero" (an idle GPU, an application that does not *)
(* run) or "nothing" (it does not parse, or the file may not be read).     *)
(***************************************************************************)
EXTENDS Naturals, FiniteSets

VARIABLES
    prKind,      \* which sampler this is
    prPhase,     \* "start" | "running" | "ended"
    prSource,    \* GPU: the counter discovery has settled on
    prStrikes,   \* consecutive_empty, empty_strikes
    prErrors,    \* transient_errors
    prOut,       \* what the last tick yielded
    prPlugged,   \* the cable is in
    prAllowed,   \* the vendor lets the shell user read the files
    prUnread,    \* ghost: answers in a row that said nothing, up to five
    prFailed,    \* ghost: trips in a row that failed, up to five
    prTrip       \* ghost: "answered", or how the last trip failed

prSampler == <<prPhase, prSource, prStrikes, prErrors, prOut>>
prGhost == <<prUnread, prFailed, prTrip>>
prVars == <<prKind, prSampler, prPlugged, prAllowed, prGhost>>

Kinds == {"gpu", "temperature", "memory", "battery", "graphics"}
\* In the order the code prefers them.
Sources == <<"kgsl", "devfreq", "busy", "utilization">>
SourceNames == {"kgsl", "devfreq", "busy", "utilization"}

GpuEmptyLimit == 5
ThermalLimit == 3
GraphicsErrorLimit == 5

PrTypeOK ==
    /\ prKind \in Kinds /\ prPhase \in {"start", "running", "ended"}
    /\ prSource \in SourceNames \cup {"none"}
    /\ prStrikes \in 0..GpuEmptyLimit /\ prErrors \in 0..GraphicsErrorLimit
    /\ prOut \in {"nothing", "value", "zero", "error", "fatal"}
    /\ prPlugged \in BOOLEAN /\ prAllowed \in BOOLEAN
    /\ prUnread \in 0..5 /\ prFailed \in 0..5
    /\ prTrip \in {"answered", "transient", "gone", "fatal"}

PrInit ==
    /\ prKind \in Kinds /\ prAllowed \in BOOLEAN /\ prPlugged = TRUE
    /\ prPhase = "start" /\ prSource = "none" /\ prStrikes = 0 /\ prErrors = 0 /\ prOut = "nothing"
    /\ prUnread = 0 /\ prFailed = 0 /\ prTrip = "answered"

UpToFive(n) == IF n < 5 THEN n + 1 ELSE 5

\* The cable is pulled; every later trip fails.
PrPullCable == prPlugged /\ prPlugged' = FALSE /\ UNCHANGED <<prKind, prSampler, prAllowed, prGhost>>

\* The sampler ends telling the scheduler why, or without a word.
EndsLoud == prPhase' = "ended" /\ prOut' = "fatal"
EndsQuiet == prPhase' = "ended" /\ prOut' = "nothing"

\* How a trip of adb fails, by its message alone: an error that may pass, the device gone - which a
\* device that is offline for a moment, or any "not found", says too while the cable is in - or
\* an answer that is not text.
Failures == {"transient", "gone"} \cup (IF prPlugged THEN {"fatal"} ELSE {})

Answered(says) ==
    /\ prPlugged
    /\ prUnread' = IF says = "nothing" THEN UpToFive(prUnread) ELSE 0
    /\ prFailed' = 0 /\ prTrip' = "answered"

TripFailed(failure) == prFailed' = UpToFive(prFailed) /\ prTrip' = failure /\ UNCHANGED prUnread

-----------------------------------------------------------------------------
(* Android: GPU *)

\* pick_source: the first of the sources that discovery has listed.
PickSource(listed) ==
    Sources[CHOOSE i \in DOMAIN Sources : Sources[i] \in listed /\ \A j \in 1..i - 1 : Sources[j] \notin listed]

\* Discovery: an error that may pass or no path ends the sampler before its first tick, unreported;
\* any other error is told.
PrGpuStart ==
    /\ prKind = "gpu" /\ prPhase = "start"
    /\ \/ /\ prPlugged
          /\ \E listed \in (SUBSET SourceNames) \ {{}} :
                prPhase' = "running" /\ prSource' = PickSource(listed) /\ UNCHANGED prOut
       \/ EndsQuiet /\ UNCHANGED prSource
       \/ EndsLoud /\ UNCHANGED prSource
    /\ UNCHANGED <<prKind, prStrikes, prErrors, prPlugged, prAllowed, prGhost>>

\* Mistake: every trip that failed is a strike as well.
StrikesAfterTrip(strikes) == IF strikes < GpuEmptyLimit THEN strikes + 1 ELSE strikes

\* A trip that failed neither counts nor clears.
StrikesAfterFailure(strikes) == strikes

\* An answer that says nothing is a strike, limit of them end the sampler without a word; a value
\* clears them.
Struck(reads, limit) ==
    IF reads # "nothing" THEN prStrikes' = 0 /\ prOut' = reads /\ UNCHANGED prPhase
    ELSE /\ prStrikes' = prStrikes + 1
         /\ IF prStrikes' = limit THEN EndsQuiet ELSE prOut' = "nothing" /\ UNCHANGED prPhase

\* Mistake: every error may pass.
EndsOnNone(failure) == FALSE

\* is_retriable: only an error of the trip itself may pass.
EndsOn(failure) == failure # "transient"

\* A trip that failed: nothing is said of an error that may pass.
Skipped(failure) ==
    /\ prStrikes' = StrikesAfterFailure(prStrikes)
    /\ IF EndsOn(failure) THEN EndsLoud ELSE prOut' = "nothing" /\ UNCHANGED prPhase

Says == IF prAllowed THEN {"value", "zero", "nothing"} ELSE {"nothing"}

\* parse_adreno, parse_mali_devfreq, parse_simple_pct: an idle GPU is at zero, anything odd says nothing.
PrGpuAnswers ==
    /\ prKind = "gpu" /\ prPhase = "running"
    /\ \E says \in Says : Answered(says) /\ Struck(says, GpuEmptyLimit)
    /\ UNCHANGED <<prKind, prSource, prErrors, prPlugged, prAllowed>>

-----------------------------------------------------------------------------
(* Android: temperature, memory, battery *)

\* The others have nothing to find out first.
PrStart ==
    /\ prKind \in {"temperature", "memory", "battery"} /\ prPhase = "start" /\ prPhase' = "running"
    /\ UNCHANGED <<prKind, prSource, prStrikes, prErrors, prOut, prPlugged, prAllowed, prGhost>>

\* max_cpu_temp_c: no zone with a plausible reading is a strike.
PrTemperatureAnswers ==
    /\ prKind = "temperature" /\ prPhase = "running"
    /\ \E says \in Says \ {"zero"} : Answered(says) /\ Struck(says, ThermalLimit)
    /\ UNCHANGED <<prKind, prSource, prErrors, prPlugged, prAllowed>>

\* dumpsys battery needs no leave; an answer without a known line yields nothing.
PrBatteryAnswers ==
    /\ prKind = "battery" /\ prPhase = "running"
    /\ \E says \in {"value", "nothing"} : Answered(says) /\ prOut' = says
    /\ UNCHANGED <<prKind, prPhase, prSource, prStrikes, prErrors, prPlugged, prAllowed>>

\* dumpsys meminfo: no process, and an answer without a total, read zero.
PrMemoryAnswers ==
    /\ prKind = "memory" /\ prPhase = "running"
    /\ \E says \in {"value", "zero"} : Answered(says) /\ prOut' = says
    /\ UNCHANGED <<prKind, prPhase, prSource, prStrikes, prErrors, prPlugged, prAllowed>>

\* GPU, temperature and battery pass over an error that may pass.
PrSkips ==
    /\ prKind \in {"gpu", "temperature", "battery"} /\ prPhase = "running"
    /\ \E failure \in Failures : TripFailed(failure) /\ Skipped(failure)
    /\ UNCHANGED <<prKind, prSource, prErrors, prPlugged, prAllowed>>

\* Memory reports every error and goes on after one that may pass.
PrMemoryFails ==
    /\ prKind = "memory" /\ prPhase = "running"
    /\ \E failure \in Failures :
        /\ TripFailed(failure)
        /\ IF EndsOn(failure) THEN EndsLoud ELSE prOut' = "error" /\ UNCHANGED prPhase
    /\ UNCHANGED <<prKind, prSource, prStrikes, prErrors, prPlugged, prAllowed>>

-----------------------------------------------------------------------------
(* iOS graphics *)

\* Provider, tunnel, handshake, service, channel, start of the sampling: any failure is the end.
PrGraphicsStart ==
    /\ prKind = "graphics" /\ prPhase = "start"
    /\ \/ prPlugged /\ prPhase' = "running" /\ UNCHANGED prOut
       \/ EndsLoud
    /\ UNCHANGED <<prKind, prSource, prStrikes, prErrors, prPlugged, prAllowed, prGhost>>

\* A push that holds graphics data; others are passed over while waiting.
PrGraphicsPush ==
    /\ prKind = "graphics" /\ prPhase = "running"
    /\ Answered("value") /\ prOut' = "value"
    /\ prErrors' = 0
    /\ UNCHANGED <<prKind, prPhase, prSource, prStrikes, prPlugged, prAllowed>>

\* Whatever the failure it counts as one that may pass; the fifth in a row is fatal, the others are
\* reported.
PrGraphicsFails ==
    /\ prKind = "graphics" /\ prPhase = "running"
    /\ TripFailed("transient")
    /\ prErrors' = prErrors + 1
    /\ IF prErrors' >= GraphicsErrorLimit THEN EndsLoud ELSE prOut' = "error" /\ UNCHANGED prPhase
    /\ UNCHANGED <<prKind, prSource, prStrikes, prPlugged, prAllowed>>

PrNext ==
    \/ PrPullCable \/ PrGpuStart \/ PrStart \/ PrGpuAnswers \/ PrTemperatureAnswers \/ PrBatteryAnswers
    \/ PrMemoryAnswers \/ PrSkips \/ PrMemoryFails \/ PrGraphicsStart \/ PrGraphicsPush \/ PrGraphicsFails

PrSpec == PrInit /\ [][PrNext]_prVars

\* The ticks go on; a trip that can be answered is so in the end, and once the cable is out adb says so.
PrAnswers == PrGpuAnswers \/ PrTemperatureAnswers \/ PrBatteryAnswers \/ PrMemoryAnswers \/ PrGraphicsPush

PrStarts == PrGpuStart \/ PrStart \/ PrGraphicsStart

PrTold == ~prPlugged /\ (PrSkips \/ PrMemoryFails \/ PrGraphicsFails) /\ (prPhase' = "ended" \/ prErrors' # prErrors)

-----------------------------------------------------------------------------
(* Properties *)

\* A sampler that ran ends for its own reason only - the GPU after five answers in a row that said
\* nothing, the temperature after three, the graphics channel after five failures in a row - or,
\* on Android, by a trip whose error cannot pass, the cable being in or out: an idle GPU, a moment
\* without an answer and any number of trips with an error that may pass end nothing
\* (gpu.rs:140-180, temperature.rs:84-113, graphics.rs:128-196, schema/src/error.rs:22-24).
EndsForCause ==
    [][prPhase = "running" /\ prPhase' = "ended" =>
        \/ prKind = "gpu" /\ prUnread' = GpuEmptyLimit
        \/ prKind = "temperature" /\ prUnread' >= ThermalLimit
        \/ prKind = "graphics" /\ prFailed' = GraphicsErrorLimit
        \/ prKind # "graphics" /\ prTrip' \in {"gone", "fatal"}]_prVars

\* A sampler whose files the vendor keeps from it falls silent for good, however its trips fail in
\* between (gpu.rs:166-176, temperature.rs:100-110).
RestrictedEnds ==
    (prPhase = "running" /\ prKind \in {"gpu", "temperature"} /\ ~prAllowed) ~> (prPhase = "ended")

\* Once the cable is out every sampler ends (gpu.rs:148-151, graphics.rs:176-186).
UnpluggedEndsAll == ~prPlugged ~> (prPhase = "ended")
=============================================================================
