----------------------------- MODULE MCSamplers -----------------------------
(***************************************************************************)
(* Small instances of the samplers and device calls for TLC.  They share   *)
(* no state in the code; a behaviour is of one of them, chosen at first.   *)
(***************************************************************************)
EXTENDS IosCpu, ColdStart, Startup, AndroidCpu, SurfaceFrames, AndroidFps,
        Probes, DeviceNames

VARIABLE subject   \* the machine this behaviour is of

Subjects == {"iosCpu", "coldStart", "startup", "androidCpu", "frames", "fps", "probes", "names"}

Init ==
    /\ subject \in Subjects
    /\ IcInit
    /\ CsInit
    /\ SuInit
    /\ AcInit
    /\ SfInit
    /\ AfInit
    /\ PrInit
    /\ DnInit
    \* the others stand in one of their initial states
    /\ subject # "iosCpu" => icForm = "exact"
    /\ subject # "coldStart" => csApp = CsNone
    /\ subject # "startup" => suPlatform = "ios" /\ suPlace = "none"
    /\ subject # "androidCpu" => acProcs = [p \in AcProcesses |-> 0]
    /\ subject # "fps" => afCount = 0
    /\ subject # "probes" => prKind = "gpu" /\ prAllowed

IosCpuSteps ==
    /\ subject = "iosCpu" /\ IcNext
    /\ UNCHANGED <<subject, csVars, suVars, acVars, sfVars, afVars,
                      prVars, dnVars>>

ColdStartSteps ==
    /\ subject = "coldStart" /\ CsNext
    /\ UNCHANGED <<subject, icVars, suVars, acVars, sfVars, afVars,
                      prVars, dnVars>>

StartupSteps ==
    /\ subject = "startup" /\ SuNext
    /\ UNCHANGED <<subject, icVars, csVars, acVars, sfVars, afVars,
                      prVars, dnVars>>

AndroidCpuSteps ==
    /\ subject = "androidCpu" /\ AcNext
    /\ UNCHANGED <<subject, icVars, csVars, suVars, sfVars, afVars,
                      prVars, dnVars>>

FramesSteps ==
    /\ subject = "frames" /\ SfNext
    /\ UNCHANGED <<subject, icVars, csVars, suVars, acVars, afVars,
                      prVars, dnVars>>

FpsSteps ==
    /\ subject = "fps" /\ AfNext
    /\ UNCHANGED <<subject, icVars, csVars, suVars, acVars, sfVars,
                      prVars, dnVars>>

ProbesSteps ==
    /\ subject = "probes" /\ PrNext
    /\ UNCHANGED <<subject, icVars, csVars, suVars, acVars, sfVars,
                      afVars, dnVars>>

NamesSteps ==
    /\ subject = "names" /\ DnNext
    /\ UNCHANGED <<subject, icVars, csVars, suVars, acVars, sfVars,
                      afVars, prVars>>

Next ==
    \/ IosCpuSteps \/ ColdStartSteps \/ StartupSteps \/ AndroidCpuSteps
    \/ FramesSteps \/ FpsSteps \/ ProbesSteps \/ NamesSteps

vars == <<subject, icVars, csVars, suVars, acVars,
          sfVars, afVars, prVars, dnVars>>

Fairness ==
    /\ WF_icVars(subject = "iosCpu" /\ IcStart)
    /\ WF_icVars(IcConnect) /\ WF_icVars(IcConfigure) /\ WF_icVars(IcReadFails)
    /\ WF_csVars(subject = "coldStart" /\ CsProgress)
    /\ WF_prVars(subject = "probes" /\ PrStarts)
    /\ WF_prVars(PrAnswers) /\ WF_prVars(PrTold)

FairSpec == Init /\ [][Next]_vars /\ Fairness

\* The values every part of the state takes.
SamplersTypeOK ==
    /\ IcTypeOK /\ CsTypeOK /\ SuTypeOK /\ AcTypeOK
    /\ SfTypeOK /\ AfTypeOK /\ PrTypeOK /\ DnTypeOK

\* No sampler gives up but for its own reason: as many failures or empty
\* answers in a row as its limit says, or, on Android, one error that cannot pass
\* (ios/src/cpu.rs:608-632, android/src/gpu.rs:140-180, temperature.rs:84-113,
\* ios/src/graphics.rs:128-196, schema/src/error.rs:22-24).
EndsOnlyForCause == GivesUpWithReason /\ EndsForCause

\* And each does give up: when the cable is out, or what it reads is kept
\* from it for good (the same lines).
EndsWhenGone == UnpluggedEnds /\ UnpluggedEndsAll /\ RestrictedEnds

\* A start-up time on iOS is that of a launch of this attempt and of a process
\* that did not run before; it is that of the latest genuine event unless a
\* read was dropped in the middle of a message before the first.  On either
\* platform a cold start is of a new process unless the old one outlived both
\* stops, a hot one is of the old, and a time of zero is of an app that never
\* left (ios/src/startup.rs:58-146, core_profile_session_raw.rs:378-462,
\* android/src/startup.rs:33-92).
StartupTimesTrue ==
    /\ TimingHonest /\ NeverMixed /\ EveryTimingIsCold
    /\ ColdIsNewProcess /\ HotKeepsTheProcess /\ ZeroOnlyIfItStayed

\* Frames, janks and rates are those of the time they are set against, each
\* frame counted once and judged alike however the polls cut the stream
\* (android/src/fps.rs:72-113, 198-250, 374-409).
FramesAccounted ==
    /\ TiersIndependentOfTicks /\ NoFrameTwice /\ TimeAccounted
    /\ GfxRateHonest /\ SvRateHonest
=============================================================================
