------------------------------- MODULE IosCpu -------------------------------
(***************************************************************************)
(* The iOS CPU and memory sampler (crates/ios/src/cpu.rs) and the channel  *)
(* it reads (crates/ios/src/sysmontap_raw.rs).                             *)
(*                                                                         *)
(* The device pushes readings of its own accord.  A push is a list of      *)
(* rows, each holding some of the keys the sampler knows, spread over the  *)
(* rows as the device likes.  A list of processes may lack processes that  *)
(* run.  Reads fail now and then while the cable is in, and always once it *)
(* is out.                                                                 *)
(*                                                                         *)
(* A reading is abstracted to where it comes from: the target's process, a *)
(* process whose name is a prefix of the target's, or the zero the sampler *)
(* makes up.  System memory is one of a few values, 0 standing for none.   *)
(***************************************************************************)
EXTENDS Naturals, Sequences

VARIABLES
    icPhase,     \* "start" | "tunnel" | "attributes" | "running" | "ended": the stream's life
    icExec,      \* the bundle id was resolved to an executable name
    icNamed,     \* the device advertises a process name attribute
    icMissing,   \* missing_strikes, counted up to the threshold
    icErrors,    \* transient_errors
    icUsed,      \* last_sys_used_bytes, 0 for None
    icOut,       \* what the last turn of the loop yielded, and whether its push listed processes
    icPlugged,   \* the cable is in
    icApp,       \* the target application runs
    icForm,      \* how processes show the target: "exact" or "loose" (cut to 15, other case)
    icLacking,   \* how many process lists in a row lacked the target, up to three
    icBlank,     \* how many of them lacked its lookalike too
    icFailed,    \* how many reads in a row failed, up to five
    icSent       \* the last system memory the device sent, 0 for none

icSampler == <<icPhase, icExec, icNamed, icMissing, icErrors, icUsed, icOut>>
icGhost == <<icLacking, icBlank, icFailed, icSent>>
icVars == <<icSampler, icPlugged, icApp, icForm, icGhost>>

MissingStrikesToZero == 3
MaxTransientErrors == 5

\* The memory readings the runs tell apart.
UsedValues == {1, 2}

\* The ways the device spreads the keys over the rows of a push; the last is an acknowledgement.
PushShapes ==
    { <<{"SystemCPUUsage"}, {"Processes"}>>, <<{"SystemCPUUsage", "Processes"}>>,
      <<{"SystemCPUUsage"}>>, <<{"System"}, {"Processes"}>>,
      <<{"SystemArray"}, {"SystemAttributes"}>>, <<{"SystemArray"}>>, <<{}>> }

ShownProcesses == {"target", "lookalike"}

Nothing == [kind |-> "nothing", listed |-> FALSE, app |-> "none", mem |-> 0]
Yielded(kind) == [Nothing EXCEPT !.kind = kind]

IcTypeOK ==
    /\ icPhase \in {"start", "tunnel", "attributes", "running", "ended"}
    /\ icExec \in BOOLEAN /\ icNamed \in BOOLEAN
    /\ icMissing \in 0..MissingStrikesToZero /\ icErrors \in 0..MaxTransientErrors
    /\ icPhase = "running" => icErrors < MaxTransientErrors
    /\ icUsed \in {0} \cup UsedValues /\ icSent \in {0} \cup UsedValues
    /\ icOut \in [kind : {"nothing", "sample", "transient", "fatal"},
                  listed : BOOLEAN, app : ShownProcesses \cup {"none", "zero"}, mem : {0} \cup UsedValues]
    /\ icPlugged \in BOOLEAN /\ icApp \in BOOLEAN /\ icForm \in {"exact", "loose"}
    /\ icLacking \in 0..3 /\ icBlank \in 0..icLacking /\ icFailed \in 0..5

IcInit ==
    /\ icPhase = "start" /\ icExec = FALSE /\ icNamed = FALSE
    /\ icMissing = 0 /\ icErrors = 0 /\ icUsed = 0 /\ icOut = Nothing
    /\ icPlugged = TRUE /\ icApp = TRUE /\ icForm \in {"exact", "loose"}
    /\ icLacking = 0 /\ icBlank = 0 /\ icFailed = 0 /\ icSent = 0

\* The length of a run of events that hold, up to n.
Streak(k, holds, n) == IF ~holds THEN 0 ELSE IF k < n THEN k + 1 ELSE n

-----------------------------------------------------------------------------
(* The device *)

KillApp == icApp /\ icApp' = FALSE /\ UNCHANGED <<icSampler, icPlugged, icForm, icGhost>>

RelaunchApp == ~icApp /\ icApp' = TRUE /\ UNCHANGED <<icSampler, icPlugged, icForm, icGhost>>

PullCable == icPlugged /\ icPlugged' = FALSE /\ UNCHANGED <<icSampler, icApp, icForm, icGhost>>

-----------------------------------------------------------------------------
(* Start and set-up *)

\* A step of the set-up that fails reports it and ends the stream; the set-up is never retried.
SetUpFails == icPhase' = "ended" /\ icOut' = Yielded("fatal") /\ UNCHANGED <<icExec, icNamed>>

\* start() looks the device up and resolves the executable; a failure to resolve is not an error.
IcStart ==
    /\ icPhase = "start"
    /\ \/ icPlugged /\ icPhase' = "tunnel" /\ icExec' \in BOOLEAN /\ UNCHANGED <<icNamed, icOut>>
       \/ SetUpFails
    /\ UNCHANGED <<icMissing, icErrors, icUsed, icPlugged, icApp, icForm, icGhost>>

\* Device proxy, software tunnel, RSD handshake, instruments service.
IcConnect ==
    /\ icPhase = "tunnel"
    /\ \/ icPlugged /\ icPhase' = "attributes" /\ UNCHANGED <<icExec, icNamed, icOut>>
       \/ SetUpFails
    /\ UNCHANGED <<icMissing, icErrors, icUsed, icPlugged, icApp, icForm, icGhost>>

\* Attribute lists, CPU count, the sysmontap channel and its start; a process list without a name
\* attribute is only logged.
IcConfigure ==
    /\ icPhase = "attributes"
    /\ \/ icPlugged /\ icPhase' = "running" /\ icNamed' \in BOOLEAN /\ UNCHANGED <<icExec, icOut>>
       \/ SetUpFails
    /\ UNCHANGED <<icMissing, icErrors, icUsed, icPlugged, icApp, icForm, icGhost>>

-----------------------------------------------------------------------------
(* A push *)

Has(rows, key) == \E i \in DOMAIN rows : key \in rows[i]

\* next_sample merges the rows; a positional System array needs the attribute names of this push.
Merged(rows) ==
    [procs |-> Has(rows, "Processes"),
     sys |-> Has(rows, "System") \/ (Has(rows, "SystemArray") /\ Has(rows, "SystemAttributes")),
     data |-> \E key \in {"Processes", "SystemCPUUsage", "System", "SystemArray"} : Has(rows, key)]

\* find_proc_metrics: an exact name wins; otherwise the first tolerant match in the order of the list.
Matches(names) ==
    IF ~icNamed THEN {}
    ELSE IF icForm = "exact" /\ "target" \in names THEN {"target"}
    ELSE names

\* Mistake: two lists in a row are enough.
StrikesEagerly(strikes) == IF strikes > 0 THEN MissingStrikesToZero ELSE 1

StrikesAfterMiss(strikes) ==
    IF strikes < MissingStrikesToZero THEN strikes + 1 ELSE strikes

ErrorsAfterSample(errors) == 0

\* The System row comes now and then, not always with keys the sampler can add up; the last reading stands for the pushes between.
HeldMemory(sys, used) == IF sys /\ used # 0 THEN used ELSE icUsed

\* One turn of the loop with a push; an acknowledgement is dropped inside next_sample.
IcPush(rows, names, used) ==
    LET m == Merged(rows)
        mem == HeldMemory(m.sys, used)
        found == IF icExec /\ m.procs THEN Matches(names) ELSE {}
    IN  /\ icPhase = "running" /\ icPlugged
        /\ names \subseteq IF icApp THEN ShownProcesses ELSE {"lookalike"}
        /\ m.data
        /\ icErrors' = ErrorsAfterSample(icErrors)
        /\ icUsed' = mem
        /\ \/ \E p \in found :
                /\ icMissing' = 0
                /\ icOut' = [kind |-> "sample", listed |-> Has(rows, "Processes"), app |-> p, mem |-> mem]
           \/ /\ found = {} /\ icExec /\ m.procs
              /\ icMissing' = StrikesAfterMiss(icMissing)
              /\ icOut' = [kind |-> "sample", listed |-> Has(rows, "Processes"), mem |-> mem,
                           app |-> IF icMissing' >= MissingStrikesToZero THEN "zero" ELSE "none"]
           \/ /\ ~(icExec /\ m.procs)
              /\ icOut' = [kind |-> "sample", listed |-> Has(rows, "Processes"), app |-> "none", mem |-> mem]
              /\ UNCHANGED icMissing
        /\ icFailed' = 0
        /\ IF Has(rows, "Processes")
           THEN /\ icLacking' = Streak(icLacking, "target" \notin names, 3)
                /\ icBlank' = Streak(icBlank, names = {}, 3)
           ELSE UNCHANGED <<icLacking, icBlank>>
        /\ icSent' = IF /\ used # 0
                        /\ \/ Has(rows, "System")
                           \/ Has(rows, "SystemArray") /\ Has(rows, "SystemAttributes")
                     THEN used ELSE icSent
        /\ UNCHANGED <<icPhase, icExec, icNamed, icPlugged, icApp, icForm>>

\* Mistake: gives up only on what the sampler calls fatal.
GivesUpNever(errors) == FALSE

GivesUp(errors) == errors >= MaxTransientErrors

\* A failed read: the fifth in a row is reported as fatal and ends the stream.
IcReadFails ==
    /\ icPhase = "running"
    /\ icErrors' = IF icErrors < MaxTransientErrors THEN icErrors + 1 ELSE icErrors
    /\ IF GivesUp(icErrors')
       THEN icPhase' = "ended" /\ icOut' = Yielded("fatal")
       ELSE icOut' = Yielded("transient") /\ UNCHANGED icPhase
    /\ icFailed' = Streak(icFailed, TRUE, 5)
    /\ UNCHANGED <<icExec, icNamed, icMissing, icUsed, icPlugged, icApp, icForm,
                   icLacking, icBlank, icSent>>

IcPushAny ==
    \E rows \in PushShapes, names \in SUBSET ShownProcesses, used \in {0} \cup UsedValues :
        IcPush(rows, names, used)

IcNext == KillApp \/ RelaunchApp \/ PullCable \/ IcStart \/ IcConnect \/ IcConfigure \/ IcPushAny \/ IcReadFails

IcSpec == IcInit /\ [][IcNext]_icVars

-----------------------------------------------------------------------------
(* Properties *)

\* cpu.rs:507-606, sysmontap_raw.rs:138-258: the application is drawn at zero only when three process
\* lists in a row lacked it, however the rows were spread, and whatever pushes without processes and
\* failed reads lay between: one incomplete list does not make the chart flicker.
NoFlicker == icOut.app = "zero" /\ icNamed => icLacking = 3

\* cpu.rs:560-606: an application that is gone is drawn at zero with every further process list from
\* the third on, not once, until something that may be it shows up again.
FlatlineWhileGone == icOut.listed /\ icExec /\ icBlank = 3 => icOut.app = "zero"

\* cpu.rs:300-308, 608-632: a stream that ran ends only on the fifth failed read in a row; one blip
\* of the cable, or one now and then, never ends it.
GivesUpWithReason ==
    [][icPhase = "running" /\ icPhase' = "ended"
       => icFailed' = 5 /\ icOut'.kind = "fatal"]_icVars

\* cpu.rs:798-835: when the process list shows the target under its full name, no other process is
\* taken for it, whatever the order of the list.
OwnProcessWins == icOut.app = "lookalike" /\ icForm = "exact" => icLacking > 0

\* cpu.rs:283-287, 460-472: once the device has sent its system memory, every sample carries the
\* last value it sent.
MemoryHeld == icOut.kind = "sample" => icOut.mem = icSent

IcFairness == WF_icVars(IcStart) /\ WF_icVars(IcConnect) /\ WF_icVars(IcConfigure) /\ WF_icVars(IcReadFails)

\* cpu.rs:608-625: after the cable is pulled the stream ends.
UnpluggedEnds == ~icPlugged ~> icPhase = "ended"

\* What is drawn of an iOS application says neither that it is gone while it
\* runs nor that it runs when it is gone, takes no other process for it, and
\* keeps its memory (ios/src/cpu.rs:460-835).
AbsenceHonest == NoFlicker /\ FlatlineWhileGone /\ OwnProcessWins /\ MemoryHeld
=============================================================================
