---------------------------- MODULE AndroidCpu -----------------------------
(***************************************************************************)
(* The Android CPU sampler (crates/android/src/cpu.rs).  Each tick makes   *)
(* two round trips: the system's counters, then the counters of the        *)
(* application's processes, added up.  The share of the application is the *)
(* growth of the second over the growth of the first since the last tick.  *)
(*                                                                         *)
(* The counters run on between the two round trips, processes come and go, *)
(* and either trip may fail.  Counters are bounded by MaxJiffies.          *)
(***************************************************************************)
EXTENDS Integers

VARIABLES
    acStep,      \* "start" | "system" | "app" | "ended"
    acTotal,     \* the system's counter
    acBusy,      \* the part of it that was load
    acProcs,     \* the application's processes: counter of each, -1 for none
    acLast,      \* last: the system's counters of the tick before
    acCurr,      \* curr: the system's counters of this tick
    acLastApp,   \* last_app_jiffies, -1 for None
    acOut,       \* what the tick yielded: the system's share, the application's
    acWork       \* ghost: what the application did since the tick before tried to read it

acSampler == <<acStep, acLast, acCurr, acLastApp, acOut>>
acDevice == <<acTotal, acBusy, acProcs>>
acVars == <<acSampler, acDevice, acWork>>

MaxJiffies == 3
AcProcesses == {"main", "remote"}
AcNone == -1

NoShare == [part |-> AcNone, of |-> 0]
ZeroShare == [part |-> 0, of |-> 0]
AcShares == [part : -1..2 * MaxJiffies, of : 0..MaxJiffies]

AcTypeOK ==
    /\ acStep \in {"start", "system", "app", "ended"}
    /\ acTotal \in 0..MaxJiffies /\ acBusy \in 0..acTotal
    /\ acProcs \in [AcProcesses -> AcNone..MaxJiffies]
    /\ acLast \in [total : 0..MaxJiffies, busy : 0..MaxJiffies] /\ acCurr \in [total : 0..MaxJiffies, busy : 0..MaxJiffies]
    /\ acLastApp \in AcNone..2 * MaxJiffies
    /\ acOut \in [total : AcShares, app : AcShares]
    /\ acWork \in 0..4 * MaxJiffies

AcInit ==
    /\ acStep = "start" /\ acTotal = 0 /\ acBusy = 0
    /\ acProcs \in [AcProcesses -> {AcNone, 0}]
    /\ acLast = [total |-> 0, busy |-> 0] /\ acCurr = acLast /\ acLastApp = AcNone
    /\ acOut = [total |-> NoShare, app |-> NoShare] /\ acWork = 0

-----------------------------------------------------------------------------
(* The device *)

\* A tick of the system's clock, idle, or spent in a process of the application.
AcRuns ==
    /\ acTotal < MaxJiffies /\ acTotal' = acTotal + 1
    /\ \/ acBusy' = acBusy /\ UNCHANGED <<acProcs, acWork>>
       \/ /\ acBusy' = acBusy + 1
          /\ \E p \in AcProcesses : acProcs[p] \in 0..MaxJiffies - 1 /\ acProcs' = [acProcs EXCEPT ![p] = @ + 1]
          /\ acWork' = acWork + 1
    /\ UNCHANGED acSampler

AcProcessEnds ==
    /\ \E p \in AcProcesses : acProcs[p] # AcNone /\ acProcs' = [acProcs EXCEPT ![p] = AcNone]
    /\ UNCHANGED <<acSampler, acTotal, acBusy, acWork>>

AcProcessStarts ==
    /\ \E p \in AcProcesses : acProcs[p] = AcNone /\ acProcs' = [acProcs EXCEPT ![p] = 0]
    /\ UNCHANGED <<acSampler, acTotal, acBusy, acWork>>

-----------------------------------------------------------------------------
(* The sampler *)

\* /proc/stat; the rows of the cores are read with it and compared like the total.
ProcStat == [total |-> acTotal, busy |-> acBusy]

\* The first reading; without it start() fails.
AcStart ==
    /\ acStep = "start"
    /\ \/ acStep' = "system" /\ acLast' = ProcStat
       \/ acStep' = "ended" /\ UNCHANGED acLast
    /\ UNCHANGED <<acCurr, acLastApp, acOut, acDevice, acWork>>

\* cpu_pct: the growth of both counters, unless one went back or no time passed.
CpuPct(a, b) ==
    IF b.total > a.total /\ b.busy >= a.busy
      THEN [part |-> b.busy - a.busy, of |-> b.total - a.total]
      ELSE NoShare

\* The first half of a tick; an error of the connection or a file that does not parse ends the stream.
AcReadSystem ==
    /\ acStep = "system"
    /\ \/ /\ acStep' = "app"
          /\ acCurr' = ProcStat
          /\ acOut' = [total |-> CpuPct(acLast, acCurr'), app |-> NoShare]
       \/ acStep' = "ended" /\ UNCHANGED <<acCurr, acOut>>
    /\ UNCHANGED <<acLast, acLastApp, acDevice, acWork>>

\* sum_app_jiffies: the processes that run, none of them, or a trip that failed.
AcRunning == {p \in AcProcesses : acProcs[p] # AcNone}

SumApp ==
    IF AcRunning = {} THEN AcNone
    ELSE IF AcRunning = AcProcesses THEN acProcs["main"] + acProcs["remote"]
    ELSE acProcs[CHOOSE p \in AcRunning : TRUE]

\* Mistake: holds the last reading over a tick without one.
AppReadingKept(read) == IF read = AcNone THEN acLastApp ELSE read

\* The reading of this tick, or none.
AppReadingFor(read) == read

\* The application's share; a sum that went down, because a process has gone, counts as no work.
AppShare(read) ==
    LET span == acCurr.total - acLast.total
    IN IF acLastApp # AcNone /\ read # AcNone /\ span > 0
         THEN [part |-> IF read > acLastApp THEN read - acLastApp ELSE 0, of |-> span]
         ELSE NoShare

\* An application that does not run reads zero.
ZeroIfGone(share, read) == IF share = NoShare /\ read = AcNone THEN ZeroShare ELSE share

\* The second half.
AcReadApp ==
    /\ acStep = "app" /\ acStep' = "system"
    /\ \E read \in {SumApp, AcNone} :
        /\ acOut' = [acOut EXCEPT !.app = ZeroIfGone(AppShare(read), read)]
        /\ acLastApp' = AppReadingFor(read)
    /\ acLast' = acCurr
    /\ acWork' = 0
    /\ UNCHANGED <<acCurr, acDevice>>

AcNext == AcRuns \/ AcProcessEnds \/ AcProcessStarts \/ AcStart \/ AcReadSystem \/ AcReadApp

AcSpec == AcInit /\ [][AcNext]_acVars

-----------------------------------------------------------------------------
(* Properties *)

\* The application is never credited with more than it did since the tick before, over deaths,
\* relaunches and readings that failed, and what it did is set against the time of one tick
\* (cpu.rs:116-152).
AppNotOverreported ==
    [][acStep = "app" /\ acStep' = "system" /\ acOut'.app.part > 0 =>
        acOut'.app.part <= acWork /\ acOut'.app.of = acCurr.total - acLast.total]_acVars

\* An application that is gone at the end of a tick is shown at zero: its line does not stay at the
\* last value (cpu.rs:137-151).
GoneReadsZero ==
    [][acStep = "app" /\ acStep' = "system" /\ AcRunning = {} => acOut'.app = ZeroShare]_acVars

\* The CPU share of an Android application is never more than its work of one
\* tick, and zero once it is gone (android/src/cpu.rs:116-152).
AppShareHonest == AppNotOverreported /\ GoneReadsZero
=============================================================================
