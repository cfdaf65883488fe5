----------------------------- MODULE Charts ------------------------------
(* The CPU charts of the live view, fed one sample event at a time         *)
(* (LiveCpuChart.tsx, LivePerCoreChart.tsx), beside those of the history   *)
(* view, computed from all rows at once (StaticCpuChart.tsx,               *)
(* StaticPerCoreChart.tsx).  A sample's value is the stamp of its push, so *)
(* that a value drawn at another push's place shows.  Pushes may come less *)
(* than half a second apart, and any sample of one may be missing: a total *)
(* and an app value of one reading may come under two stamps (iOS).        *)
EXTENDS Integers, Sequences, SequencesExt, FiniteSets
CONSTANTS MaxPoints,    \* MAX_POINTS
          MaxStamp,     \* bound on the stamps of a session
          Near,         \* half a second in units of the stamps
          Cores         \* bound on the cores a device has online
ASSUME ChartsAssumption ==
    /\ MaxPoints \in Nat \ {0} /\ MaxStamp \in Nat
    /\ Near \in Nat \ {0} /\ Cores \in Nat \ {0}

VARIABLES
    chListener,   \* the effect's listener: idle, attaching or listening
    chStamp,      \* the stamp of the last push of this session, 0 before
    chComing,     \* that push's samples still to reach the window
    chSeen,       \* the samples the listener has received
    chCpu,        \* LiveCpuChart's refs
    chCore        \* LivePerCoreChart's refs
chVars == <<chListener, chStamp, chComing, chSeen, chCpu, chCore>>

Blank == 0              \* NaN: nothing is drawn
Stamps == 1..MaxStamp
\* The kinds of sample: a core's by its number.
Total == 0
App == Cores + 1
NoPoints == [xs |-> <<>>, app |-> <<>>]
EmptyRow == [c \in 1..Cores |-> Blank]
\* first: the cores known when the first row was drawn, 0 before.
NoRows == [xs |-> <<>>, series |-> <<>>, ts |-> Blank, row |-> EmptyRow, first |-> 0]

ChInit ==
    /\ chListener = "idle" /\ chStamp = 0 /\ chComing = <<>> /\ chSeen = {}
    /\ chCpu = NoPoints /\ chCore = NoRows

\* A window of MAX_POINTS: the oldest point goes when one more has come.
Windowed(s) == IF Len(s) > MaxPoints THEN Tail(s) ELSE s

(* --- LiveCpuChart: the total opens a point, the app fills it in --- *)

\* Mistake: the window of the application's line is not cut.
TotalArrivesShort(cpu, t) ==
    [xs |-> Windowed(Append(cpu.xs, t)), app |-> Append(cpu.app, Blank)]
TotalArrives(cpu, t) ==
    [xs |-> Windowed(Append(cpu.xs, t)), app |-> Windowed(Append(cpu.app, Blank))]

\* Mistake: the latest point, whatever its distance.
AppArrivesAnywhere(cpu, t) ==
    IF cpu.xs # <<>> THEN [cpu EXCEPT !.app[Len(cpu.xs)] = t] ELSE cpu

\* Only the latest point, and only if it is less than half a second away.
AppArrives(cpu, t) ==
    IF cpu.xs # <<>> /\ t - Last(cpu.xs) < Near
    THEN [cpu EXCEPT !.app[Len(cpu.xs)] = t] ELSE cpu

(* --- LivePerCoreChart: a row is drawn when the next push begins --- *)

\* A core heard of for the first time gets an empty series, whatever the
\* length of the others.
Grown(core, i) ==
    [core EXCEPT !.series = @ \o [k \in 1..(i - Len(@)) |-> <<>>]]

\* The pending row is drawn, with a gap for each core it misses.
Flush(core) ==
    LET shift(q) == IF Len(core.xs) = MaxPoints THEN Tail(q) ELSE q
    IN  [core EXCEPT
            !.xs = shift(Append(@, core.ts)),
            !.series = [k \in DOMAIN @ |-> shift(Append(@[k], core.row[k]))],
            !.first = IF @ = 0 THEN Len(core.series) ELSE @,
            !.ts = Blank, !.row = EmptyRow]

CoreArrives(core, i, t) ==
    LET grown == Grown(core, i)
        begun == IF core.ts \notin {Blank, t} THEN Flush(grown) ELSE grown
    IN  [begun EXCEPT !.ts = t, !.row[i] = t]

(* --- actions --- *)

\* The session starts: the effect empties the charts and asks for events.
ChActivate ==
    /\ chListener = "idle"
    /\ chListener' = "attaching"
    /\ chStamp' = 0 /\ chComing' = <<>> /\ chSeen' = {}
    /\ chCpu' = NoPoints /\ chCore' = NoRows

ChListen ==
    /\ chListener = "attaching" /\ chListener' = "listening"
    /\ UNCHANGED <<chStamp, chComing, chSeen, chCpu, chCore>>

\* A push of the sampler: the total, the cores now online, the app.
ChSample(n, gap) ==
    /\ chListener # "idle" /\ chComing = <<>> /\ chStamp + gap <= MaxStamp
    /\ chStamp' = chStamp + gap
    /\ chComing' = <<Total>> \o [k \in 1..n |-> k] \o <<App>>
    /\ UNCHANGED <<chListener, chSeen, chCpu, chCore>>

\* The next sample of the push never comes: it could not be computed, is not
\* of this push, or the pump was overtaken.
ChMiss ==
    /\ chComing # <<>>
    /\ chComing' = Tail(chComing)
    /\ UNCHANGED <<chListener, chStamp, chSeen, chCpu, chCore>>

ChReceive ==
    /\ chListener = "listening" /\ chComing # <<>>
    /\ chComing' = Tail(chComing)
    /\ chSeen' = chSeen \cup {<<chStamp, Head(chComing)>>}
    /\ CASE Head(chComing) = Total ->
              chCpu' = TotalArrives(chCpu, chStamp) /\ UNCHANGED chCore
         [] Head(chComing) = App ->
              chCpu' = AppArrives(chCpu, chStamp) /\ UNCHANGED chCore
         [] OTHER ->
              chCore' = CoreArrives(chCore, Head(chComing), chStamp) /\ UNCHANGED chCpu
    /\ UNCHANGED <<chListener, chStamp>>

ChDeactivate ==
    /\ chListener # "idle" /\ chListener' = "idle"
    /\ UNCHANGED <<chStamp, chComing, chSeen, chCpu, chCore>>

ChNext ==
    \/ ChActivate \/ ChListen \/ ChMiss \/ ChReceive \/ ChDeactivate
    \/ \E n \in 1..Cores, gap \in 1..Near : ChSample(n, gap)

ChSpec == ChInit /\ [][ChNext]_chVars

(* --- the recorded charts, computed from the rows at once --- *)

\* The numbers of a set in increasing order.
InOrder(S) == CHOOSE s \in [1..Cardinality(S) -> S] :
    /\ Range(s) = S
    /\ \A p, q \in DOMAIN s : p < q => s[p] < s[q]
StaticCpu(taken) ==
    LET xs == InOrder({t \in Stamps : <<t, Total>> \in taken})
    IN  [xs  |-> xs,
         app |-> [p \in DOMAIN xs |-> IF <<xs[p], App>> \in taken THEN xs[p] ELSE Blank]]
StaticCoreXs(taken) == InOrder({t \in Stamps : \E c \in 1..Cores : <<t, c>> \in taken})
StaticCore(taken, c) ==
    LET xs == StaticCoreXs(taken)
    IN  [p \in DOMAIN xs |-> IF <<xs[p], c>> \in taken THEN xs[p] ELSE Blank]

\* The last MAX_POINTS of a series.
Recent(s) == SubSeq(s, Len(s) - (IF Len(s) < MaxPoints THEN Len(s) ELSE MaxPoints) + 1, Len(s))

(* --- properties --- *)

ChTypeOK ==
    /\ chListener \in {"idle", "attaching", "listening"}
    /\ chStamp \in 0..MaxStamp
    /\ chSeen \subseteq (Stamps \X (Total..App))
    /\ Len(chCpu.xs) = Len(chCpu.app)
    /\ chCore.first <= Len(chCore.series) /\ Len(chCore.series) <= Cores

\* v is an app value that has no total of its own stamp, less than half a
\* second after the point p and before any later one.
OfAnotherPush(taken, xs, p, v) ==
    /\ v \in xs[p] + 1..xs[p] + Near - 1
    /\ <<v, App>> \in taken /\ <<v, Total>> \notin taken
    /\ \A q \in DOMAIN xs : q > p => v < xs[q]

\* The live CPU chart shows what the recorded chart would draw of the same
\* samples over its window: each total at its stamp, the app's value at the
\* point of its own stamp, a gap where it was missed.  They differ only where
\* the live chart takes a value from another push for that of its point.
CpuChartsAgree ==
    LET xs  == Recent(StaticCpu(chSeen).xs)
        app == Recent(StaticCpu(chSeen).app)
    IN  /\ chCpu.xs = xs
        /\ DOMAIN chCpu.app = DOMAIN xs
        /\ \A p \in DOMAIN xs :
              \/ chCpu.app[p] = app[p]
              \/ OfAnotherPush(chSeen, xs, p, chCpu.app[p])

\* So does the live per-core chart, except for the row of the push under
\* way, for every core it knew when it drew its first row.
CoreChartsAgree ==
    LET drawn == {r \in chSeen : r[1] # chCore.ts}
    IN  /\ chCore.xs = Recent(StaticCoreXs(drawn))
        /\ \A c \in 1..chCore.first : chCore.series[c] = Recent(StaticCore(drawn, c))

\* The live charts draw of a recording what the charts of the history draw of
\* the same samples, but for app values of a push without a total
\* (LiveCpuChart.tsx, LivePerCoreChart.tsx).
ChartsAgree == CpuChartsAgree /\ CoreChartsAgree
===========================================================================
