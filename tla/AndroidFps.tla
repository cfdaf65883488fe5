---------------------------- MODULE AndroidFps -----------------------------
(***************************************************************************)
(* The tick of the Android FPS sampler (crates/android/src/fps.rs).  A     *)
(* tick asks gfxinfo for the application's frame counter and reads the     *)
(* rings of the SurfaceView layers; it reports the higher of the two       *)
(* rates.  gfxinfo frames are divided by the time since the reading they   *)
(* are compared with, SurfaceView frames by the time since the last tick.  *)
(*                                                                         *)
(* Time is counted in ticks.  What a layer's ring shows is abstracted to   *)
(* the number of frames since the layer was last read (SurfaceFrames has   *)
(* the ring itself); every trip to the device may fail.                    *)
(***************************************************************************)
EXTENDS Integers, FiniteSets

VARIABLES
    afPhase,   \* "running" | "ended"
    afCount,   \* device: the frame counter of the application's process, -1 for no process
    afNew,     \* device: frames of each layer since it was last read
    afLast,    \* last: the counter and how many ticks ago it was read
    afFirst,   \* sv_last_tick is None
    afOut,     \* what the tick yielded
    afRendered,\* ghost: frames the application rendered since afLast was set
    afSpan,    \* ghost: ticks since afLast was set
    afAge,     \* ghost: ticks since each layer was last read
    afMissed   \* ghost: the tick before did not finish its trips

afDevice == <<afCount, afNew>>
afVars == <<afPhase, afDevice, afLast, afFirst, afOut, afRendered, afSpan, afAge, afMissed>>

MaxCount == 2
MaxAge == 2
Layers == {"game", "video"}

NoLast == [count |-> -1, ago |-> 0]
\* What a tick yields: the frames of either source and the ticks they are divided by; the ghosts
\* as they were before the tick.
Silent == [kind |-> "silent", gfx |-> 0, over |-> 0, sv |-> 0, done |-> 0, span |-> 0, age |-> 0, missed |-> FALSE]
AfYielded(kind) == [Silent EXCEPT !.kind = kind]

AfTypeOK ==
    /\ afPhase \in {"running", "ended"} /\ afCount \in -1..MaxCount
    /\ afNew \in [Layers -> 0..MaxCount]
    /\ afLast \in [count : -1..MaxCount, ago : 0..MaxAge] /\ afFirst \in BOOLEAN
    /\ afOut \in [kind : {"silent", "rates", "zero", "error", "fatal"}, gfx : 0..MaxCount, over : 0..MaxAge,
                  sv : 0..MaxCount, done : 0..MaxCount, span : 0..MaxAge, age : 0..MaxAge, missed : BOOLEAN]
    /\ afRendered \in 0..MaxCount /\ afSpan \in 0..MaxAge /\ afAge \in [Layers -> 0..MaxAge] /\ afMissed \in BOOLEAN

AfInit ==
    /\ afPhase = "running" /\ afCount \in {-1, 0} /\ afNew = [l \in Layers |-> 0]
    /\ afLast = NoLast /\ afFirst = TRUE /\ afOut = Silent
    /\ afRendered = 0 /\ afSpan = 0 /\ afAge = [l \in Layers |-> 0] /\ afMissed = FALSE

Capped(n, cap) == IF n < cap THEN n ELSE cap

-----------------------------------------------------------------------------
(* The device *)

AfSampler == <<afPhase, afLast, afFirst, afOut, afSpan, afAge, afMissed>>

\* A frame of the user interface.
AfFrame ==
    /\ afCount \in 0..MaxCount - 1 /\ afCount' = afCount + 1
    /\ afRendered' = Capped(afRendered + 1, MaxCount)
    /\ UNCHANGED <<AfSampler, afNew>>

\* A frame of a layer.
AfLayerFrame ==
    /\ \E l \in Layers : afNew[l] < MaxCount /\ afNew' = [afNew EXCEPT ![l] = @ + 1]
    /\ UNCHANGED <<AfSampler, afCount, afRendered>>

\* The process ends, or a new one starts with its counter at zero.
AfProcess ==
    /\ afCount' = IF afCount = -1 THEN 0 ELSE -1
    /\ UNCHANGED <<AfSampler, afNew, afRendered>>

-----------------------------------------------------------------------------
(* The tick *)

Higher(a, b) == IF a > b THEN a ELSE b

\* How surfaceview_tick ends: with the best layer, or without one because the list or a layer
\* could not be read.  The layers read by then have their marks moved.
SvPass(read, best) ==
    /\ read \subseteq Layers
    /\ IF read = Layers
         THEN best \in {l \in Layers : \A k \in Layers : afNew[k] <= afNew[l]}
         ELSE best = "none"

\* The rate of the best layer over one tick; the first tick has no length.
SvRate(best) == IF best = "none" \/ afFirst THEN 0 ELSE afNew[best]

Clocked == [l \in Layers |-> Capped(afAge[l] + 1, MaxAge)]

\* A tick that has not read the counter leaves the last reading and its time as they are.
Older(last) == [last EXCEPT !.ago = @ + 1]

\* The bound of the model: a reading is compared within MaxAge ticks.
WithinAge == afLast.ago < MaxAge /\ afSpan < MaxAge

NotCompared ==
    IF afLast.count = -1 THEN UNCHANGED <<afLast, afSpan, afRendered>>
    ELSE afLast' = Older(afLast) /\ afSpan' = afSpan + 1 /\ UNCHANGED afRendered

\* gfxinfo failed: the tick ends, SurfaceView is not looked at, and only a fatal error ends the
\* stream.
AfGfxFails ==
    /\ afPhase = "running" /\ WithinAge
    /\ \/ afOut' = AfYielded("error") /\ UNCHANGED afPhase
       \/ afOut' = AfYielded("fatal") /\ afPhase' = "ended"
    /\ afFirst' = FALSE /\ afMissed' = TRUE /\ afAge' = Clocked
    /\ NotCompared
    /\ UNCHANGED afDevice

\* SurfaceView is read whether gfxinfo has found a process or not.
Reads(read) == read

\* The counter is taken for the last reading.
Seeds == afLast' = [count |-> afCount, ago |-> 0] /\ afSpan' = 0 /\ afRendered' = 0

\* What the counter gives: no process; a first reading, or one below the last, after a restart; a rate.
Report(best) ==
    \/ afCount = -1 /\ afOut' = AfYielded("zero") /\ NotCompared
    \/ afCount # -1 /\ (afLast.count = -1 \/ afCount < afLast.count) /\ afOut' = Silent /\ Seeds
    \/ /\ afLast.count # -1 /\ afCount >= afLast.count
       /\ afOut' = [kind |-> "rates", gfx |-> afCount - afLast.count, over |-> afLast.ago + 1, sv |-> SvRate(best),
                    done |-> afRendered, span |-> afSpan + 1, missed |-> afMissed,
                    age |-> IF SvRate(best) = 0 THEN 0 ELSE Clocked[best]]
       /\ Seeds

\* A tick whose gfxinfo came back; a failure to read the layers counts as no layer.
AfTick ==
    /\ afPhase = "running" /\ WithinAge
    /\ \E read \in SUBSET Layers, best \in Layers \cup {"none"} :
        /\ SvPass(read, best)
        /\ afNew' = [l \in Layers |-> IF l \in Reads(read) THEN 0 ELSE afNew[l]]
        /\ afAge' = [l \in Layers |-> IF l \in Reads(read) THEN 0 ELSE Clocked[l]]
        /\ afMissed' = (read # Layers)
        /\ Report(best)
    /\ afFirst' = FALSE
    /\ UNCHANGED <<afPhase, afCount>>

AfNext == AfFrame \/ AfLayerFrame \/ AfProcess \/ AfGfxFails \/ AfTick

AfSpec == AfInit /\ [][AfNext]_afVars

-----------------------------------------------------------------------------
(* Properties *)

\* gfxinfo frames and the time they are divided by cover the same span, over failed trips and
\* restarts of the application: the rate is never above what was rendered (fps.rs:220-250).
GfxRateHonest ==
    /\ afOut.gfx \in 0..afOut.done
    /\ afOut.over = afOut.span

\* SurfaceView frames divided by the length of one tick are those of one tick, unless the tick
\* before failed on a trip of its own (fps.rs:198-218).
SvRateHonest == afOut.sv > 0 => afOut.age = 1 \/ afOut.missed
=============================================================================
