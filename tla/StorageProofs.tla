--------------------------- MODULE StorageProofs ----------------------------
(***************************************************************************)
(* Machine-checked proofs about the storage: Tables, for any number of     *)
(* sessions and batches over any time, and Migrations.                     *)
(***************************************************************************)
EXTENDS Tables, Migrations, FiniteSets, WellFoundedInduction, TLAPS

-----------------------------------------------------------------------------
(***************************************************************************)
(* The inductive invariant of the tables.                                  *)
(***************************************************************************)

Cells == Keys \X Nat \X Nat \X {"core 0", "core 1", "cpu_total_pct"} \X {"cores", "both"}

RowRecords == [start : Nat, end : Int, timings : SUBSET Modes]

Databases ==
    [rows : SUBSET Keys, row : [Keys -> RowRecords],
     lastId : Nat, wide : SUBSET Cells, long : SUBSET Cells,
     markers : SUBSET {<<s>> : s \in Keys}]

\* The rows and the clock they are stamped by.
RowsInv ==
    /\ db \in Databases /\ db.rows \subseteq 1..db.lastId /\ db.lastId <= MaxRows
    /\ clock \in 0..MaxTime /\ batches \in 0..MaxCalls
    /\ \A s \in Keys : db.row[s].start <= clock /\ db.row[s].end \in 0..clock \union {Unset}
    /\ told \subseteq (1..db.lastId) \X Modes

\* A session records only until its end is stamped, and in one process.
RecordingInv ==
    /\ up \in BOOLEAN /\ live \subseteq 1..db.lastId
    /\ ~up => live = {}
    /\ \A s \in live \intersect db.rows : db.row[s].end = Unset

\* No sample is of a batch to come, or later than the clock.
SamplesInv ==
    \A c \in db.wide \union db.long :
        c[2] <= batches /\ db.row[c[1]].start + c[3] <= clock

\* w is d with the cells B of one batch written.
Written(d, w, B) ==
    /\ w \in Databases
    /\ w.rows = d.rows /\ w.row = d.row /\ w.lastId = d.lastId /\ w.markers = d.markers
    /\ w.long = d.long \union {c \in B : c[4] # "cpu_total_pct"}
    /\ \A c \in w.wide : c \in d.wide \/ (c \in B /\ c[4] = "cpu_total_pct")
    /\ \A b \in B : b[4] = "cpu_total_pct" => b \in w.wide
    /\ \A c \in d.wide :
          \/ c \in w.wide
          \/ \E b \in B : b[4] = "cpu_total_pct" /\ b[1] = c[1] /\ b[3] = c[3]

BatchAtWork ==
    /\ call \in [op : {"batch"}, s : Keys, todo : SUBSET Cells]
    /\ call.s \in live
    /\ \E t \in 0..clock, mix \in {"cores", "both"} :
          LET B == BatchOf(call.s, batches, t, mix) IN
          /\ call.s \in db.rows => db.row[call.s].start + t <= clock
          /\ call.s \notin db.rows => call.todo = B
          /\ call.todo \subseteq B
          /\ Written(db, work, B \ call.todo)

Others(S, s) == {c \in S : c[1] # s}

\* w is d without the data of session s, but for that in the tables named.
Deleted(d, w, s, left) ==
    /\ w \in Databases
    /\ w.rows = d.rows /\ w.row = d.row /\ w.lastId = d.lastId
    /\ w.long = IF "long" \in left THEN d.long ELSE Others(d.long, s)
    /\ w.wide = IF "wide" \in left THEN d.wide ELSE Others(d.wide, s)
    /\ w.markers = IF "markers" \in left THEN d.markers ELSE Others(d.markers, s)

DeleteAtWork ==
    /\ call \in [op : {"delete"}, s : Keys, todo : Seq({"long", "wide", "markers"})]
    /\ call.s \in db.rows
    /\ \/ /\ call.todo = <<"long", "wide", "markers">>
          /\ Deleted(db, work, call.s, {"long", "wide", "markers"})
       \/ call.todo = <<"wide", "markers">> /\ Deleted(db, work, call.s, {"wide", "markers"})
       \/ call.todo = <<"markers">> /\ Deleted(db, work, call.s, {"markers"})
       \/ call.todo = <<>> /\ Deleted(db, work, call.s, {})

TimingAtWork ==
    /\ work = db
    /\ \/ call \in [op : {"read"}, s : 1..db.lastId, mode : Modes]
       \/ /\ call \in [op : {"write"}, s : 1..db.lastId, mode : Modes, read : SUBSET Modes]
          /\ call.s \in db.rows => call.read = db.row[call.s].timings

\* What the call at work has done to its copy so far.
CallInv ==
    \/ call = Idle
    \/ up /\ (BatchAtWork \/ DeleteAtWork \/ TimingAtWork)

TablesStored == NoOrphanData /\ BatchesWhole /\ TimingsKept /\ SamplesWithinSession

TablesInv == RowsInv /\ RecordingInv /\ SamplesInv /\ CallInv /\ TablesStored

-----------------------------------------------------------------------------
(* The naturals are well ordered. *)

LEMMA LeastNatural ==
    ASSUME NEW T \in SUBSET Nat, T # {}
    PROVE  \E x \in T : \A y \in T : x <= y
<1> DEFINE Less == {ss \in Nat \X Nat : ss[1] < ss[2]}
<1>1. IsWellFoundedOn(Less, Nat)
  BY NatLessThanWellFounded DEF OpToRel
<1>2. PICK x \in T : \A y \in T : ~ (<<y, x>> \in Less)
  <2> HIDE DEF Less
  <2>1. QED
    BY <1>1, WFMin
<1>3. ASSUME NEW y \in T
      PROVE  x <= y
  <2>1. ~ (y < x)
    BY <1>2
  <2>2. QED
    BY <2>1
<1>4. QED
  BY <1>3

LEMMA MostNatural ==
    ASSUME NEW T \in SUBSET Nat, T # {}, NEW b \in Nat, \A x \in T : x <= b
    PROVE  \E x \in T : \A y \in T : y <= x
<1> DEFINE U == {n \in Nat : \A x \in T : x <= n}
<1>1. U \in SUBSET Nat /\ U # {}
  OBVIOUS
<1>2. PICK m \in U : \A y \in U : m <= y
  <2> HIDE DEF U
  <2>1. QED
    BY <1>1, LeastNatural
<1>3. CASE m \in T
  BY <1>2, <1>3
<1>4. CASE m \notin T
  <2>1. \A x \in T : x <= m /\ x # m /\ x \in Nat
    BY <1>4
  <2>2. PICK x \in T : TRUE
    OBVIOUS
  <2>3. m \in Nat /\ m # 0
    BY <2>1, <2>2
  <2>4. m - 1 \in U
    BY <2>1, <2>3
  <2>5. QED
    BY <1>2, <2>3, <2>4
<1>5. QED
  BY <1>3, <1>4

-----------------------------------------------------------------------------
LEMMA TableConstants ==
    /\ MaxRows \in Nat /\ MaxTime \in Nat /\ MaxCalls \in Nat
    /\ Keys = 1..MaxRows /\ Unset = -1
<1>1. QED
  BY TablesAssumption DEF Keys, Unset

LEMMA DatabaseFields ==
    ASSUME NEW d \in Databases
    PROVE  /\ d.rows \subseteq Keys /\ d.lastId \in Nat
           /\ d.row \in [Keys -> RowRecords]
           /\ d.wide \subseteq Cells /\ d.long \subseteq Cells
           /\ d.markers \subseteq {<<s>> : s \in Keys}
           /\ \A s \in Keys : d.row[s].start \in Nat /\ d.row[s].end \in Int
                              /\ d.row[s].timings \subseteq Modes
<1>1. QED
  BY DEF Databases, RowRecords

\* The cells of one batch.
LEMMA BatchIsCells ==
    ASSUME NEW s \in Keys, NEW n \in Nat, NEW t \in Nat, NEW mix \in {"cores", "both"}
    PROVE  BatchOf(s, n, t, mix) \subseteq Cells
<1>1. /\ <<s, n, t, "core 0", mix>> \in Cells /\ <<s, n, t, "core 1", mix>> \in Cells
      /\ <<s, n, t, "cpu_total_pct", mix>> \in Cells
  BY DEF Cells
<1>2. QED
  BY <1>1 DEF BatchOf

LEMMA BatchCell ==
    ASSUME NEW s, NEW n, NEW t, NEW mix, NEW c \in BatchOf(s, n, t, mix)
    PROVE  /\ c[1] = s /\ c[2] = n /\ c[3] = t /\ c[5] = mix
           /\ c[4] = "cpu_total_pct" => c = <<s, n, t, "cpu_total_pct", mix>>
<1>1. CASE c = <<s, n, t, "core 0", mix>>
  BY <1>1
<1>2. CASE c = <<s, n, t, "core 1", mix>>
  BY <1>2
<1>3. CASE c = <<s, n, t, "cpu_total_pct", mix>>
  BY <1>3
<1>4. QED
  BY <1>1, <1>2, <1>3 DEF BatchOf

LEMMA BatchHolds ==
    ASSUME NEW s, NEW n, NEW t, NEW mix \in {"cores", "both"}
    PROVE  /\ <<s, n, t, "core 0", mix>> \in BatchOf(s, n, t, mix)
           /\ <<s, n, t, "core 1", mix>> \in BatchOf(s, n, t, mix)
           /\ mix = "both" => <<s, n, t, "cpu_total_pct", mix>> \in BatchOf(s, n, t, mix)
<1>1. QED
  BY DEF BatchOf

\* Nothing of what is on disk is hurt by time, by batches handed over, by
\* sessions that stop recording.
LEMMA DiskFrame ==
    ASSUME RowsInv, RecordingInv, SamplesInv, TablesStored, db' = db, told' = told,
           clock' \in clock..MaxTime, batches' \in batches..MaxCalls,
           up' \in BOOLEAN, live' \subseteq live, ~up' => live' = {}
    PROVE  RowsInv' /\ RecordingInv' /\ SamplesInv' /\ TablesStored'
<1> USE TableConstants
<1>1. clock \in Nat /\ batches \in Nat
  BY DEF RowsInv
<1>2. RowsInv'
  <2>1. clock' \in 0..MaxTime /\ batches' \in 0..MaxCalls
    BY <1>1 DEF RowsInv
  <2>2. ASSUME NEW s \in Keys
        PROVE  db.row[s].start <= clock' /\ db.row[s].end \in 0..clock' \union {Unset}
    <3>1. db.row[s].start \in Nat /\ db.row[s].start <= clock
          /\ db.row[s].end \in 0..clock \union {Unset}
      BY DatabaseFields DEF RowsInv
    <3>2. clock' \in Nat /\ clock <= clock'
      BY <1>1
    <3>3. QED
      <4> HIDE TableConstants
      <4>1. QED
        BY <1>1, <3>1, <3>2
  <2>3. QED
    BY <2>1, <2>2 DEF RowsInv
<1>3. RecordingInv'
  BY DEF RecordingInv
<1>4. SamplesInv'
  <2>1. ASSUME NEW c \in db.wide \union db.long
        PROVE  c[2] <= batches' /\ db.row[c[1]].start + c[3] <= clock'
    <3>1. c \in Cells /\ c[1] \in Keys /\ c[2] \in Nat /\ c[3] \in Nat
      BY DatabaseFields DEF RowsInv, Cells
    <3>2. db.row[c[1]].start \in Nat
      BY <3>1, DatabaseFields DEF RowsInv
    <3>3. c[2] <= batches /\ db.row[c[1]].start + c[3] <= clock
      BY DEF SamplesInv
    <3>4. clock' \in Nat /\ clock <= clock' /\ batches' \in Nat /\ batches <= batches'
      BY <1>1
    <3>5. QED
      <4> HIDE TableConstants
      <4>1. QED
        BY <1>1, <3>1, <3>2, <3>3, <3>4
  <2>2. QED
    BY <2>1 DEF SamplesInv
<1>5. TablesStored'
  <2>1. NoOrphanData'
    BY DEF TablesStored, NoOrphanData
  <2>2. BatchesWhole'
    <3>1. BatchesWhole
      BY DEF TablesStored
    <3>2. QED
      BY <3>1 DEF BatchesWhole
  <2>3. TimingsKept'
    BY DEF TablesStored, TimingsKept
  <2>4. SamplesWithinSession'
    BY DEF TablesStored, SamplesWithinSession, SamplesOf
  <2>5. QED
    BY <2>1, <2>2, <2>3, <2>4 DEF TablesStored
<1>6. QED
  BY <1>2, <1>3, <1>4, <1>5

-----------------------------------------------------------------------------
\* A new row: nothing refers to its id yet.
LEMMA CreateRowStep ==
    ASSUME TablesInv, CreateRow
    PROVE  TablesInv'
<1> USE TableConstants
<1> DEFINE s == db.lastId + 1
<1>1. /\ db \in Databases /\ s \in Keys /\ clock \in 0..MaxTime /\ clock \in Nat
      /\ db.lastId \in Nat /\ db.rows \subseteq 1..db.lastId
      /\ s \in Nat /\ s = db.lastId + 1 /\ batches \in 0..MaxCalls
  BY DatabaseFields DEF TablesInv, RowsInv, CreateRow
<1>2. /\ call = Idle /\ call' = Idle
      /\ live' = live \union {s} /\ UNCHANGED <<up, clock, work, batches, told>> /\ up
  BY DEF CreateRow
<1>3. db' = [db EXCEPT !.rows = db.rows \union {s}, !.row[s] = Row(clock), !.lastId = s]
  BY DEF CreateRow
<1> HIDE DEF s
<1>4. Row(clock) \in RowRecords /\ db.rows \union {s} \in SUBSET Keys
  BY <1>1, DatabaseFields DEF Row, RowRecords
<1>5. /\ db'.rows = db.rows \union {s} /\ db'.lastId = s
      /\ db'.wide = db.wide /\ db'.long = db.long
      /\ db'.markers = db.markers /\ db' \in Databases
  <2>1. [db.row EXCEPT ![s] = Row(clock)] \in [Keys -> RowRecords]
    BY <1>1, <1>4, DatabaseFields
  <2>2. db' \in Databases
    BY <1>1, <1>3, <1>4, <2>1 DEF Databases
  <2>3. QED
    BY <1>1, <1>3, <2>2 DEF Databases
<1>6. /\ \A r \in Keys : db'.row[r] = IF r = s THEN Row(clock) ELSE db.row[r]
      /\ Row(clock).start = clock /\ Row(clock).end = Unset
  <2>1. db'.row = [db.row EXCEPT ![s] = Row(clock)]
    BY <1>1, <1>3 DEF Databases
  <2>2. QED
    BY <1>1, <2>1, DatabaseFields DEF Row
<1>7. s \notin db.rows /\ s \notin live
  BY <1>1 DEF TablesInv, RecordingInv
<1>8. /\ \A r \in Keys : db.row[r].start <= clock /\ db.row[r].end \in 0..clock \union {Unset}
      /\ told \subseteq (1..db.lastId) \X Modes
  BY DEF TablesInv, RowsInv
<1>9. RowsInv'
  <2>1. \A r \in Keys :
           db'.row[r].start <= clock /\ db'.row[r].end \in 0..clock \union {Unset}
    <3>1. clock <= clock
      BY <1>1
    <3>2. QED
      BY <1>6, <1>8, <3>1
  <2>2. told \subseteq (1..s) \X Modes /\ db'.rows \subseteq 1..s /\ s <= MaxRows
    BY <1>1, <1>5, <1>8
  <2>3. QED
    BY <1>1, <1>2, <1>5, <2>1, <2>2 DEF RowsInv
<1>10. RecordingInv'
  <2>1. /\ up' \in BOOLEAN /\ live' \subseteq 1..db'.lastId /\ (~up' => live' = {})
    <3>1. up \in BOOLEAN /\ live \subseteq 1..db.lastId
      BY DEF TablesInv, RecordingInv
    <3>2. 1..db.lastId \subseteq 1..s /\ s \in 1..s
      BY <1>1
    <3>3. QED
      BY <1>2, <1>5, <3>1, <3>2
  <2>2. ASSUME NEW r \in live' \intersect db'.rows
        PROVE  db'.row[r].end = Unset
    <3>1. r \in Keys /\ (r = s \/ r \in live \intersect db.rows)
      BY <1>1, <1>2, <1>4, <1>5, <1>7
    <3>2. QED
      BY <1>6, <3>1 DEF TablesInv, RecordingInv
  <2>3. QED
    BY <2>1, <2>2 DEF RecordingInv
<1>11. SamplesInv'
  <2>1. ASSUME NEW c \in db.wide \union db.long
        PROVE  c[2] <= batches /\ db'.row[c[1]].start + c[3] <= clock
    <3>1. c[1] \in db.rows
      BY DEF TablesInv, TablesStored, NoOrphanData
    <3>2. c[1] \in Keys /\ c[1] # s
      BY <1>1, <1>7, <3>1, DatabaseFields
    <3>3. QED
      BY <1>6, <3>2 DEF TablesInv, SamplesInv
  <2>2. QED
    BY <1>2, <1>5, <2>1 DEF SamplesInv
<1>12. NoOrphanData'
  BY <1>5 DEF TablesInv, TablesStored, NoOrphanData
<1>13. BatchesWhole'
  <2>1. BatchesWhole
    BY DEF TablesInv, TablesStored
  <2>2. QED
    BY <1>5, <2>1 DEF BatchesWhole
<1>14. TimingsKept'
  <2>1. ASSUME NEW x \in told, x[1] \in db'.rows
        PROVE  x[2] \in db'.row[x[1]].timings
    <3>1. x[1] \in 1..db.lastId /\ x[1] # s /\ x[1] \in db.rows /\ x[1] \in Keys
      BY <1>1, <1>4, <1>5, <1>8, <2>1
    <3>2. QED
      BY <1>6, <3>1 DEF TablesInv, TablesStored, TimingsKept
  <2>2. QED
    BY <1>2, <2>1 DEF TimingsKept
<1>15. SamplesWithinSession'
  <2>1. ASSUME NEW r \in db'.rows, db'.row[r].end # Unset, NEW c \in SamplesOf(db', r)
        PROVE  db'.row[r].start + c[3] <= db'.row[r].end
    <3>1. r # s /\ r \in db.rows /\ r \in Keys /\ c \in SamplesOf(db, r)
      BY <1>4, <1>5, <1>6, <2>1 DEF SamplesOf
    <3>2. QED
      BY <1>6, <2>1, <3>1 DEF TablesInv, TablesStored, SamplesWithinSession
  <2>2. QED
    BY <2>1 DEF SamplesWithinSession
<1>16. QED
  BY <1>2, <1>9, <1>10, <1>11, <1>12, <1>13, <1>14, <1>15
     DEF TablesInv, CallInv, TablesStored

\* Ends and timings written into the rows, each for a reason.
LEMMA RowsWritten ==
    ASSUME TablesInv, call' = Idle, UNCHANGED <<clock, batches>>,
           up' \in BOOLEAN, live' \subseteq live, ~up' => live' = {},
           db' \in Databases, db'.rows = db.rows, db'.lastId = db.lastId,
           db'.wide = db.wide, db'.long = db.long, db'.markers = db.markers,
           \A r \in Keys : /\ db'.row[r].start = db.row[r].start
                           /\ db'.row[r].end \in 0..clock \union {Unset},
           \A r \in live' \intersect db.rows : db'.row[r].end = Unset,
           \A r \in db.rows : \/ db'.row[r].end = db.row[r].end
                              \/ \A c \in SamplesOf(db, r) :
                                    db.row[r].start + c[3] <= db'.row[r].end,
           told' \subseteq (1..db.lastId) \X Modes, TimingsKept'
    PROVE  TablesInv'
<1> USE TableConstants
<1>1. /\ db.rows \subseteq Keys /\ clock \in Nat
      /\ \A c \in db.wide \union db.long : c[1] \in db.rows
  BY DatabaseFields DEF TablesInv, RowsInv, TablesStored, NoOrphanData
<1>2. RowsInv'
  BY DEF TablesInv, RowsInv
<1>3. RecordingInv'
  BY DEF TablesInv, RecordingInv
<1>4. SamplesInv'
  <2>1. ASSUME NEW c \in db.wide \union db.long
        PROVE  c[2] <= batches /\ db'.row[c[1]].start + c[3] <= clock
    <3>1. c[1] \in Keys
      BY <1>1
    <3>2. QED
      BY <3>1 DEF TablesInv, SamplesInv
  <2>2. QED
    BY <2>1 DEF SamplesInv
<1>5. NoOrphanData' /\ BatchesWhole'
  BY DEF TablesInv, TablesStored, NoOrphanData, BatchesWhole
<1>6. SamplesWithinSession'
  <2>1. ASSUME NEW r \in db.rows, db'.row[r].end # Unset, NEW c \in SamplesOf(db', r)
        PROVE  db'.row[r].start + c[3] <= db'.row[r].end
    <3>1. r \in Keys /\ c \in SamplesOf(db, r) /\ db'.row[r].start = db.row[r].start
      BY <1>1 DEF SamplesOf
    <3>2. CASE db'.row[r].end = db.row[r].end
      BY <2>1, <3>1, <3>2 DEF TablesInv, TablesStored, SamplesWithinSession
    <3>3. CASE \A d \in SamplesOf(db, r) : db.row[r].start + d[3] <= db'.row[r].end
      BY <3>1, <3>3
    <3>4. QED
      BY <3>2, <3>3
  <2>2. QED
    BY <2>1 DEF SamplesWithinSession
<1>7. QED
  BY <1>2, <1>3, <1>4, <1>5, <1>6 DEF TablesInv, CallInv, TablesStored

LEMMA FinishRowStep ==
    ASSUME TablesInv, NEW s \in Keys, FinishRow(s)
    PROVE  TablesInv'
<1> USE TableConstants
<1>1. /\ db \in Databases /\ clock \in 0..MaxTime /\ batches \in 0..MaxCalls /\ up \in BOOLEAN
      /\ db.rows \subseteq Keys /\ told \subseteq (1..db.lastId) \X Modes
  BY DatabaseFields DEF TablesInv, RowsInv, RecordingInv
<1>2. /\ up /\ call' = Idle /\ live' = live \ {s}
      /\ UNCHANGED <<up, clock, work, batches, told>>
  BY DEF FinishRow
<1>3. CASE s \in db.rows /\ db.row[s].end = Unset
  <2>1. db' = [db EXCEPT !.row[s].end = clock]
    BY <1>3 DEF FinishRow
  <2>2. [db.row EXCEPT ![s].end = clock] \in [Keys -> RowRecords]
    <3>1. db.row \in [Keys -> RowRecords] /\ clock \in Int
      BY <1>1, DatabaseFields
    <3>2. [db.row[s] EXCEPT !.end = clock] \in RowRecords
      BY <3>1 DEF RowRecords
    <3>3. QED
      BY <3>1, <3>2
  <2>3. /\ db'.row = [db.row EXCEPT ![s].end = clock] /\ db'.rows = db.rows
        /\ db'.lastId = db.lastId /\ db'.wide = db.wide /\ db'.long = db.long
        /\ db'.markers = db.markers
    BY <1>1, <2>1 DEF Databases
  <2>4. db' \in Databases
    BY <1>1, <2>1, <2>2 DEF Databases
  <2>5. ASSUME NEW r \in Keys
        PROVE  /\ db'.row[r].start = db.row[r].start
               /\ db'.row[r].timings = db.row[r].timings
               /\ db'.row[r].end = IF r = s THEN clock ELSE db.row[r].end
    <3>1. db.row \in [Keys -> RowRecords]
      BY <1>1, DatabaseFields
    <3>2. QED
      BY <2>3, <3>1 DEF RowRecords
  <2>6. \A r \in Keys : db'.row[r].end \in 0..clock \union {Unset}
    BY <1>1, <2>5 DEF TablesInv, RowsInv
  <2>7. \A r \in live' \intersect db.rows : db'.row[r].end = Unset
    BY <1>1, <1>2, <2>5 DEF TablesInv, RecordingInv
  <2>8. ASSUME NEW r \in db.rows
        PROVE  \/ db'.row[r].end = db.row[r].end
               \/ \A c \in SamplesOf(db, r) : db.row[r].start + c[3] <= db'.row[r].end
    <3>1. CASE r # s
      BY <1>1, <2>5, <3>1
    <3>2. CASE r = s
      <4>1. db'.row[r].end = clock
        BY <2>5, <3>2
      <4>2. \A c \in SamplesOf(db, r) : db.row[r].start + c[3] <= clock
        BY DEF SamplesOf, TablesInv, SamplesInv
      <4>3. QED
        BY <4>1, <4>2
    <3>3. QED
      BY <3>1, <3>2
  <2>9. TimingsKept'
    <3>1. ASSUME NEW x \in told, x[1] \in db.rows
          PROVE  x[2] \in db'.row[x[1]].timings
      BY <1>1, <2>5, <3>1 DEF TablesInv, TablesStored, TimingsKept
    <3>2. QED
      BY <1>2, <2>3, <3>1 DEF TimingsKept
  <2>10. \A r \in Keys : db'.row[r].start = db.row[r].start
    BY <2>5
  <2>11. QED
    BY <1>1, <1>2, <2>3, <2>4, <2>6, <2>7, <2>8, <2>9, <2>10, RowsWritten
<1>4. CASE ~(s \in db.rows /\ db.row[s].end = Unset)
  <2>1. db' = db
    BY <1>4 DEF FinishRow
  <2>2. RowsInv' /\ RecordingInv' /\ SamplesInv' /\ TablesStored'
    BY <1>1, <1>2, <2>1, DiskFrame DEF TablesInv
  <2>3. QED
    BY <1>2, <2>2 DEF TablesInv, CallInv
<1>5. QED
  BY <1>3, <1>4

LEMMA InsertMarkerStep ==
    ASSUME TablesInv, NEW s \in Keys, InsertMarker(s)
    PROVE  TablesInv'
<1> USE TableConstants
<1>1. /\ db \in Databases /\ clock \in 0..MaxTime /\ batches \in 0..MaxCalls /\ up \in BOOLEAN
  BY DEF TablesInv, RowsInv, RecordingInv
<1>2. /\ up /\ call' = Idle /\ UNCHANGED <<up, clock, live, batches, told>>
  BY DEF InsertMarker
<1>3. CASE s \in db.rows
  <2>1. db' = [db EXCEPT !.markers = db.markers \union {<<s>>}]
    BY <1>3 DEF InsertMarker
  <2>2. /\ db'.row = db.row /\ db'.rows = db.rows /\ db'.lastId = db.lastId
        /\ db'.wide = db.wide /\ db'.long = db.long
        /\ db'.markers = db.markers \union {<<s>>}
    BY <1>1, <2>1 DEF Databases
  <2>3. db' \in Databases
    BY <1>1, <2>1, DatabaseFields DEF Databases
  <2>4. RowsInv' /\ RecordingInv' /\ SamplesInv'
    BY <1>2, <2>2, <2>3 DEF TablesInv, RowsInv, RecordingInv, SamplesInv
  <2>5. NoOrphanData'
    BY <1>3, <2>2 DEF TablesInv, TablesStored, NoOrphanData
  <2>6. BatchesWhole' /\ TimingsKept'
    BY <1>2, <2>2 DEF TablesInv, TablesStored, BatchesWhole, TimingsKept
  <2>7. SamplesWithinSession'
    BY <2>2 DEF TablesInv, TablesStored, SamplesWithinSession, SamplesOf
  <2>8. QED
    BY <1>2, <2>4, <2>5, <2>6, <2>7 DEF TablesInv, CallInv, TablesStored
<1>4. CASE s \notin db.rows
  <2>1. db' = db
    BY <1>4 DEF InsertMarker
  <2>2. RowsInv' /\ RecordingInv' /\ SamplesInv' /\ TablesStored'
    BY <1>1, <1>2, <2>1, DiskFrame DEF TablesInv, RecordingInv
  <2>3. QED
    BY <1>2, <2>2 DEF TablesInv, CallInv
<1>5. QED
  BY <1>3, <1>4

-----------------------------------------------------------------------------
\* A batch handed over is all still to be written.
LEMMA SendBatchStep ==
    ASSUME TablesInv, NEW s \in Keys, SendBatch(s)
    PROVE  TablesInv'
<1> USE TableConstants
<1>1. /\ db \in Databases /\ clock \in 0..MaxTime /\ batches \in 0..MaxCalls /\ up \in BOOLEAN
      /\ clock \in Nat /\ batches \in Nat
  BY DEF TablesInv, RowsInv, RecordingInv
<1>2. PICK mix \in {"cores", "both"} :
         call' = [op |-> "batch", s |-> s,
                  todo |-> BatchOf(s, batches', clock - db.row[s].start, mix)]
  BY DEF SendBatch, Begins
<1>3. /\ s \in live /\ batches' = batches + 1 /\ batches' \in batches..MaxCalls
      /\ up /\ call = Idle /\ work' = db /\ UNCHANGED <<up, clock, db, live, told>>
  BY <1>1 DEF SendBatch, Begins
<1> DEFINE t == clock - db.row[s].start
<1> DEFINE B == BatchOf(s, batches', t, mix)
<1>4. t \in 0..clock /\ db.row[s].start + t <= clock /\ t \in Nat
  <2>1. db.row[s].start \in Nat /\ db.row[s].start <= clock
    BY <1>1, DatabaseFields DEF TablesInv, RowsInv
  <2>2. QED
    BY <1>1, <2>1
<1>5. B \subseteq Cells
  <2>1. batches' \in Nat
    BY <1>1, <1>3
  <2> HIDE DEF t
  <2>2. QED
    BY <1>4, <2>1, BatchIsCells
<1>6. call' = [op |-> "batch", s |-> s, todo |-> B]
  BY <1>2
<1> HIDE DEF t, B
<1>7. call' \in [op : {"batch"}, s : Keys, todo : SUBSET Cells] /\ call'.s = s /\ call'.todo = B
  BY <1>5, <1>6
<1>8. Written(db, db, B \ B)
  BY <1>1 DEF Written
<1>9. BatchAtWork'
  <2>1. BatchOf(call'.s, batches', t, mix) = B
    BY <1>7 DEF B
  <2>2. Written(db', work', BatchOf(call'.s, batches', t, mix) \ call'.todo)
    BY <1>3, <1>7, <1>8, <2>1
  <2>3. call'.todo \subseteq BatchOf(call'.s, batches', t, mix)
    BY <1>7, <2>1
  <2>4. db'.row[call'.s].start + t <= clock' /\ t \in 0..clock'
    BY <1>3, <1>4, <1>7
  <2>5. call'.s \in live'
    BY <1>3, <1>7
  <2>6. QED
    BY <1>7, <2>1, <2>2, <2>3, <2>4, <2>5 DEF BatchAtWork
<1>10. RowsInv' /\ RecordingInv' /\ SamplesInv' /\ TablesStored'
  BY <1>1, <1>3, DiskFrame DEF TablesInv, RecordingInv
<1>11. QED
  BY <1>3, <1>9, <1>10 DEF TablesInv, CallInv

\* The call at work, by its kind.
LEMMA CallAtWork ==
    ASSUME TablesInv, up
    PROVE  /\ call.op = "batch" => BatchAtWork
           /\ call.op = "delete" => DeleteAtWork
           /\ call.op \in {"read", "write"} => TimingAtWork
<1>1. Idle.op = "idle"
  BY DEF Idle
<1>2. BatchAtWork => call.op = "batch"
  BY DEF BatchAtWork
<1>3. DeleteAtWork => call.op = "delete"
  BY DEF DeleteAtWork
<1>4. TimingAtWork => call.op \in {"read", "write"}
  BY DEF TimingAtWork
<1>5. QED
  BY <1>1, <1>2, <1>3, <1>4 DEF TablesInv, CallInv

\* One cell more of the batch is in the copy.
LEMMA CellWritten ==
    ASSUME NEW d \in Databases, NEW w, NEW B, Written(d, w, B), NEW b \in Cells,
           \A x \in B : /\ x[1] = b[1] /\ x[3] = b[3]
                        /\ x[4] = "cpu_total_pct" => b[4] # "cpu_total_pct"
    PROVE  Written(d, Inserted(w, b), B \union {b})
<1> DEFINE v == Inserted(w, b)
<1>1. /\ w \in Databases /\ b[1] \in Keys
      /\ w.rows = d.rows /\ w.row = d.row /\ w.lastId = d.lastId /\ w.markers = d.markers
      /\ w.long = d.long \union {c \in B : c[4] # "cpu_total_pct"}
      /\ \A c \in w.wide : c \in d.wide \/ (c \in B /\ c[4] = "cpu_total_pct")
      /\ \A c \in B : c[4] = "cpu_total_pct" => c \in w.wide
      /\ \A c \in d.wide :
            \/ c \in w.wide
            \/ \E x \in B : x[4] = "cpu_total_pct" /\ x[1] = c[1] /\ x[3] = c[3]
  BY DEF Written, Cells
<1>2. CASE b[4] = "cpu_total_pct"
  <2> DEFINE W == {x \in w.wide : <<x[1], x[3]>> # <<b[1], b[3]>>} \union {b}
  <2>1. v = [w EXCEPT !.wide = W]
    BY <1>2 DEF Inserted
  <2>2. W \subseteq Cells
    BY <1>1, DatabaseFields
  <2>3. /\ v.rows = w.rows /\ v.row = w.row /\ v.lastId = w.lastId
        /\ v.markers = w.markers /\ v.long = w.long /\ v.wide = W /\ v \in Databases
    <3> HIDE DEF W
    <3>1. v \in Databases
      BY <1>1, <2>1, <2>2 DEF Databases
    <3>2. QED
      BY <1>1, <2>1, <3>1 DEF Databases
  <2>4. {c \in B \union {b} : c[4] # "cpu_total_pct"} = {c \in B : c[4] # "cpu_total_pct"}
    BY <1>2
  <2>5. \A c \in v.wide : c \in d.wide \/ (c \in B \union {b} /\ c[4] = "cpu_total_pct")
    BY <1>1, <1>2, <2>3
  <2>6. \A c \in B \union {b} : c[4] = "cpu_total_pct" => c \in v.wide
    BY <1>2, <2>3
  <2>7. ASSUME NEW c \in d.wide
        PROVE  \/ c \in v.wide
               \/ \E x \in B \union {b} : x[4] = "cpu_total_pct" /\ x[1] = c[1] /\ x[3] = c[3]
    <3>1. c \in w.wide
      BY <1>1, <1>2
    <3>2. CASE <<c[1], c[3]>> # <<b[1], b[3]>>
      BY <2>3, <3>1, <3>2
    <3>3. CASE c[1] = b[1] /\ c[3] = b[3]
      BY <1>2, <3>3
    <3>4. QED
      BY <3>2, <3>3
  <2>8. QED
    BY <1>1, <2>3, <2>4, <2>5, <2>6, <2>7 DEF Written
<1>3. CASE b[4] # "cpu_total_pct"
  <2>1. v = [w EXCEPT !.long = w.long \union {b}]
    BY <1>3 DEF Inserted
  <2>2. w.long \union {b} \subseteq Cells
    BY <1>1, DatabaseFields
  <2>3. v \in Databases
    BY <1>1, <2>1, <2>2 DEF Databases
  <2>4. /\ v.rows = w.rows /\ v.row = w.row /\ v.lastId = w.lastId
        /\ v.markers = w.markers /\ v.long = w.long \union {b} /\ v.wide = w.wide
    BY <1>1, <2>1 DEF Databases
  <2>5. v.long = d.long \union {c \in B \union {b} : c[4] # "cpu_total_pct"}
    BY <1>1, <1>3, <2>4
  <2>6. \A c \in d.wide :
           \/ c \in v.wide
           \/ \E x \in B \union {b} : x[4] = "cpu_total_pct" /\ x[1] = c[1] /\ x[3] = c[3]
    BY <1>1, <2>4
  <2>7. QED
    BY <1>1, <1>3, <2>3, <2>4, <2>5, <2>6 DEF Written
<1>4. QED
  BY <1>2, <1>3

LEMMA InsertCellStep ==
    ASSUME TablesInv, InsertCell
    PROVE  TablesInv'
<1> USE TableConstants
<1>1. /\ db \in Databases /\ clock \in 0..MaxTime /\ batches \in 0..MaxCalls /\ up \in BOOLEAN
      /\ batches \in Nat /\ clock \in Nat
  BY DEF TablesInv, RowsInv, RecordingInv
<1>2. /\ up /\ call.op = "batch" /\ db' = db
      /\ UNCHANGED <<up, clock, live, batches, told>>
  BY DEF InsertCell, Fails
<1>3. RowsInv' /\ RecordingInv' /\ SamplesInv' /\ TablesStored'
  BY <1>1, <1>2, DiskFrame DEF TablesInv, RecordingInv
<1>4. CallInv'
  <2>1. CASE call.s \notin work.rows
    BY <2>1 DEF InsertCell, Fails, CallInv
  <2>2. CASE call.s \in work.rows
    <3>1. BatchAtWork
      BY <1>2, CallAtWork
    <3>2. PICK c \in call.todo :
             call' = [call EXCEPT !.todo = @ \ {c}] /\ work' = Inserted(work, c)
      BY <2>2 DEF InsertCell
    <3>3. PICK t \in 0..clock, mix \in {"cores", "both"} :
             LET B == BatchOf(call.s, batches, t, mix) IN
             /\ call.s \in db.rows => db.row[call.s].start + t <= clock
             /\ call.s \notin db.rows => call.todo = B
             /\ call.todo \subseteq B
             /\ Written(db, work, B \ call.todo)
      BY <3>1 DEF BatchAtWork
    <3> DEFINE B == BatchOf(call.s, batches, t, mix)
    <3>4. /\ call \in [op : {"batch"}, s : Keys, todo : SUBSET Cells] /\ call.s \in live
          /\ t \in Nat /\ call.s \in Keys
      BY <1>1, <3>1 DEF BatchAtWork
    <3>5. /\ B \subseteq Cells
          /\ \A x \in B : /\ x[1] = call.s /\ x[3] = t
                          /\ x[4] = "cpu_total_pct"
                               => x = <<call.s, batches, t, "cpu_total_pct", mix>>
      <4>1. B \subseteq Cells
        BY <1>1, <3>4, BatchIsCells
      <4>2. ASSUME NEW x \in B
            PROVE  /\ x[1] = call.s /\ x[3] = t
                   /\ x[4] = "cpu_total_pct"
                        => x = <<call.s, batches, t, "cpu_total_pct", mix>>
        BY BatchCell
      <4>3. QED
        BY <4>1, <4>2
    <3>6. /\ call' \in [op : {"batch"}, s : Keys, todo : SUBSET Cells]
          /\ call'.s = call.s /\ call'.todo = call.todo \ {c}
      BY <3>2, <3>4
    <3>7. call.todo \subseteq B /\ Written(db, work, B \ call.todo) /\ c \in B
      BY <3>3
    <3> HIDE DEF B
    <3>8. Written(db, Inserted(work, c), (B \ call.todo) \union {c})
      BY <1>1, <3>5, <3>7, CellWritten
    <3>9. (B \ call.todo) \union {c} = B \ call'.todo
      BY <3>6, <3>7
    <3>10. Written(db', work', B \ call'.todo) /\ call'.todo \subseteq B
      BY <1>2, <3>2, <3>6, <3>7, <3>8, <3>9
    <3>11. call'.s \in db'.rows /\ db'.row[call'.s].start + t <= clock'
      BY <1>2, <2>2, <3>3, <3>6, <3>7 DEF Written
    <3>12. BatchAtWork'
      BY <1>2, <3>4, <3>6, <3>10, <3>11 DEF BatchAtWork, B
    <3>13. QED
      BY <1>2, <3>12 DEF CallInv
  <2>3. QED
    BY <2>1, <2>2
<1>5. QED
  BY <1>3, <1>4 DEF TablesInv

\* A batch reaches the disk whole: both its labels, and its cell of the wide
\* table unless the tables had a later one there.
LEMMA CommitBatchStep ==
    ASSUME TablesInv, CommitBatch
    PROVE  TablesInv'
<1> USE TableConstants
<1>1. /\ db \in Databases /\ clock \in 0..MaxTime /\ batches \in 0..MaxCalls /\ up \in BOOLEAN
      /\ batches \in Nat /\ clock \in Nat
  BY DEF TablesInv, RowsInv, RecordingInv
<1>2. /\ up /\ call.op = "batch" /\ call.todo = {} /\ db' = work /\ call' = Idle
      /\ UNCHANGED <<up, clock, live, batches, told>>
  BY DEF CommitBatch, Commits
<1>3. BatchAtWork
  BY <1>2, CallAtWork
<1>4. PICK t \in 0..clock, mix \in {"cores", "both"} :
         LET B == BatchOf(call.s, batches, t, mix) IN
         /\ call.s \in db.rows => db.row[call.s].start + t <= clock
         /\ call.s \notin db.rows => call.todo = B
         /\ call.todo \subseteq B
         /\ Written(db, work, B \ call.todo)
  BY <1>3 DEF BatchAtWork
<1> DEFINE s == call.s
<1> DEFINE B == BatchOf(s, batches, t, mix)
<1>5. s \in Keys /\ s \in live /\ t \in Nat
  BY <1>1, <1>3 DEF BatchAtWork
<1>6. /\ B \subseteq Cells
      /\ \A c \in B : /\ c[1] = s /\ c[2] = batches /\ c[3] = t /\ c[5] = mix
                      /\ c[4] = "cpu_total_pct"
                           => c = <<s, batches, t, "cpu_total_pct", mix>>
      /\ <<s, batches, t, "core 0", mix>> \in B
      /\ <<s, batches, t, "core 1", mix>> \in B
      /\ mix = "both" => <<s, batches, t, "cpu_total_pct", mix>> \in B
  <2>1. B \subseteq Cells
    BY <1>1, <1>5, BatchIsCells
  <2>2. ASSUME NEW c \in B
        PROVE  /\ c[1] = s /\ c[2] = batches /\ c[3] = t /\ c[5] = mix
               /\ c[4] = "cpu_total_pct" => c = <<s, batches, t, "cpu_total_pct", mix>>
    BY BatchCell
  <2>3. /\ <<s, batches, t, "core 0", mix>> \in B
        /\ <<s, batches, t, "core 1", mix>> \in B
        /\ mix = "both" => <<s, batches, t, "cpu_total_pct", mix>> \in B
    BY BatchHolds
  <2>4. QED
    BY <2>1, <2>2, <2>3
<1>7. s \in db.rows /\ db.row[s].start + t <= clock
  <2>1. s \in db.rows
    <3>1. s \notin db.rows => call.todo = B
      BY <1>4
    <3>2. B # {}
      BY <1>6
    <3>3. QED
      BY <1>2, <3>1, <3>2
  <2>2. QED
    BY <1>4, <2>1
<1>8. Written(db, db', B)
  BY <1>2, <1>4
<1> HIDE DEF s, B
<1>9. /\ db' \in Databases /\ db'.rows = db.rows /\ db'.row = db.row
      /\ db'.lastId = db.lastId /\ db'.markers = db.markers
      /\ db'.long = db.long \union {c \in B : c[4] # "cpu_total_pct"}
      /\ \A c \in db'.wide : c \in db.wide \/ (c \in B /\ c[4] = "cpu_total_pct")
      /\ \A c \in B : c[4] = "cpu_total_pct" => c \in db'.wide
      /\ \A c \in db.wide :
            \/ c \in db'.wide
            \/ \E b \in B : b[4] = "cpu_total_pct" /\ b[1] = c[1] /\ b[3] = c[3]
  BY <1>8 DEF Written
<1>10. \A c \in db'.wide \union db'.long : c \in B \/ c \in db.wide \union db.long
  BY <1>9
<1>11. RowsInv'
  BY <1>2, <1>9 DEF TablesInv, RowsInv
<1>12. RecordingInv'
  BY <1>2, <1>9 DEF TablesInv, RecordingInv
<1>13. SamplesInv'
  <2>1. ASSUME NEW c \in db'.wide \union db'.long
        PROVE  c[2] <= batches /\ db.row[c[1]].start + c[3] <= clock
    <3>1. CASE c \in B
      <4>1. c[1] = s /\ c[2] = batches /\ c[3] = t
        BY <1>6, <3>1
      <4>2. QED
        BY <1>1, <1>7, <4>1
    <3>2. CASE c \in db.wide \union db.long
      BY <3>2 DEF TablesInv, SamplesInv
    <3>3. QED
      BY <1>10, <3>1, <3>2
  <2>2. QED
    BY <1>2, <1>9, <2>1 DEF SamplesInv
<1>14. NoOrphanData'
  <2>1. ASSUME NEW c \in db'.wide \union db'.long \union db'.markers
        PROVE  c[1] \in db.rows
    <3>1. CASE c \in B
      BY <1>6, <1>7, <3>1
    <3>2. CASE c \in db.wide \union db.long \union db.markers
      BY <3>2 DEF TablesInv, TablesStored, NoOrphanData
    <3>3. QED
      BY <1>9, <1>10, <3>1, <3>2
  <2>2. QED
    BY <1>9, <2>1 DEF NoOrphanData
<1>15. BatchesWhole'
  <2>1. ASSUME NEW c \in db'.wide \union db'.long, NEW label \in {"core 0", "core 1"}
        PROVE  \E d \in db'.long : d[1] = c[1] /\ d[2] = c[2] /\ d[4] = label
    <3>1. CASE c \in B
      <4>1. <<s, batches, t, label, mix>> \in B
        BY <1>6
      <4>2. <<s, batches, t, label, mix>> \in db'.long
        BY <1>9, <4>1
      <4>3. c[1] = s /\ c[2] = batches
        BY <1>6, <3>1
      <4>4. QED
        BY <4>2, <4>3
    <3>2. CASE c \in db.wide \union db.long
      <4>1. PICK d \in db.long : d[1] = c[1] /\ d[2] = c[2] /\ d[4] = label
        BY <3>2 DEF TablesInv, TablesStored, BatchesWhole, WholeBatches
      <4>2. d \in db'.long
        BY <1>9
      <4>3. QED
        BY <4>1, <4>2
    <3>3. QED
      BY <1>10, <3>1, <3>2
  <2>2. ASSUME NEW c \in db'.wide \union db'.long, c[5] = "both"
        PROVE  \E w \in db'.wide : w[1] = c[1] /\ w[3] = c[3] /\ w[2] >= c[2]
    <3>1. CASE c \in B
      <4>1. c[1] = s /\ c[2] = batches /\ c[3] = t /\ mix = "both"
        BY <1>6, <2>2, <3>1
      <4>2. <<s, batches, t, "cpu_total_pct", mix>> \in db'.wide
        BY <1>6, <1>9, <4>1
      <4>3. QED
        BY <1>1, <4>1, <4>2
    <3>2. CASE c \in db.wide \union db.long
      <4>1. PICK w \in db.wide : w[1] = c[1] /\ w[3] = c[3] /\ w[2] >= c[2]
        BY <2>2, <3>2 DEF TablesInv, TablesStored, BatchesWhole, WholeBatches
      <4>2. CASE w \in db'.wide
        BY <4>1, <4>2
      <4>3. CASE w \notin db'.wide
        <5>1. PICK b \in B : b[4] = "cpu_total_pct" /\ b[1] = w[1] /\ b[3] = w[3]
          BY <1>9, <4>3
        <5>2. b \in db'.wide /\ b[2] = batches
          BY <1>6, <1>9, <5>1
        <5>3. c[2] <= batches
          BY <3>2 DEF TablesInv, SamplesInv
        <5>4. b[1] = c[1] /\ b[3] = c[3] /\ b[2] >= c[2]
          <6>1. c[2] \in Nat
            BY <1>1, <3>2, DatabaseFields DEF Cells
          <6>2. QED
            BY <1>1, <4>1, <5>1, <5>2, <5>3, <6>1
        <5>5. QED
          BY <5>2, <5>4
      <4>4. QED
        BY <4>2, <4>3
    <3>3. QED
      BY <1>10, <3>1, <3>2
  <2>3. QED
    BY <2>1, <2>2 DEF BatchesWhole, WholeBatches
<1>16. TimingsKept'
  BY <1>2, <1>9 DEF TablesInv, TablesStored, TimingsKept
<1>17. SamplesWithinSession'
  <2>1. ASSUME NEW r \in db.rows, db.row[r].end # Unset, NEW c \in SamplesOf(db', r)
        PROVE  db.row[r].start + c[3] <= db.row[r].end
    <3>1. r # s
      BY <1>5, <1>7, <2>1 DEF TablesInv, RecordingInv
    <3>2. c \notin B
      BY <1>6, <3>1 DEF SamplesOf
    <3>3. c \in SamplesOf(db, r)
      BY <1>10, <3>2 DEF SamplesOf
    <3>4. QED
      BY <2>1, <3>3 DEF TablesInv, TablesStored, SamplesWithinSession
  <2>2. QED
    BY <1>9, <2>1 DEF SamplesWithinSession
<1>18. QED
  BY <1>2, <1>11, <1>12, <1>13, <1>14, <1>15, <1>16, <1>17
     DEF TablesInv, CallInv, TablesStored

-----------------------------------------------------------------------------
LEMMA SendDeleteStep ==
    ASSUME TablesInv, NEW s \in Keys, SendDelete(s)
    PROVE  TablesInv'
<1>1. /\ db \in Databases /\ clock \in 0..MaxTime /\ batches \in 0..MaxCalls /\ up \in BOOLEAN
  BY DEF TablesInv, RowsInv, RecordingInv
<1>2. /\ up /\ s \in db.rows /\ work' = db
      /\ call' = [op |-> "delete", s |-> s, todo |-> <<"long", "wide", "markers">>]
      /\ UNCHANGED <<up, clock, db, live, batches, told>>
  BY DEF SendDelete, Begins
<1>3. RowsInv' /\ RecordingInv' /\ SamplesInv' /\ TablesStored'
  <2>1. clock' \in clock..MaxTime /\ batches' \in batches..MaxCalls
    BY <1>1, <1>2, TableConstants
  <2>2. /\ up' \in BOOLEAN /\ live' \subseteq live /\ (~up' => live' = {})
        /\ RowsInv /\ RecordingInv /\ SamplesInv /\ TablesStored
    BY <1>1, <1>2 DEF TablesInv, RecordingInv
  <2>3. QED
    BY <1>2, <2>1, <2>2, DiskFrame
<1>4. DeleteAtWork'
  <2>1. <<"long", "wide", "markers">> \in Seq({"long", "wide", "markers"})
    OBVIOUS
  <2>2. /\ call' \in [op : {"delete"}, s : Keys, todo : Seq({"long", "wide", "markers"})]
        /\ call'.s = s /\ call'.todo = <<"long", "wide", "markers">>
    BY <1>2, <2>1
  <2>3. Deleted(db, db, s, {"long", "wide", "markers"})
    BY <1>1 DEF Deleted
  <2>4. QED
    BY <1>2, <2>2, <2>3 DEF DeleteAtWork
<1>5. QED
  BY <1>2, <1>3, <1>4 DEF TablesInv, CallInv

\* Each statement empties a table of the session's data, in the copy.
LEMMA DeleteStatementStep ==
    ASSUME TablesInv, DeleteStatement
    PROVE  TablesInv'
<1>1. /\ db \in Databases /\ clock \in 0..MaxTime /\ batches \in 0..MaxCalls /\ up \in BOOLEAN
  BY DEF TablesInv, RowsInv, RecordingInv
<1>2. /\ up /\ call.op = "delete" /\ call.todo # <<>>
      /\ call' = [call EXCEPT !.todo = Tail(call.todo)]
      /\ work' = [work EXCEPT ![Head(call.todo)] = {c \in @ : c[1] # call.s}]
      /\ UNCHANGED <<up, clock, db, live, batches, told>>
  BY DEF DeleteStatement
<1>3. RowsInv' /\ RecordingInv' /\ SamplesInv' /\ TablesStored'
  BY <1>1, <1>2, TableConstants, DiskFrame DEF TablesInv, RecordingInv
<1>4. DeleteAtWork
  BY <1>2, CallAtWork
<1>5. /\ call \in [op : {"delete"}, s : Keys, todo : Seq({"long", "wide", "markers"})]
      /\ call.s \in db.rows /\ work \in Databases
  BY <1>4 DEF DeleteAtWork, Deleted
<1>6. /\ call' \in [op : {"delete"}, s : Keys, todo : Seq({"long", "wide", "markers"})]
      /\ call'.s = call.s /\ call'.todo = Tail(call.todo)
  <2>1. Tail(call.todo) \in Seq({"long", "wide", "markers"})
    <3>1. call.todo \in Seq({"long", "wide", "markers"}) /\ call.todo # <<>>
      BY <1>2, <1>5
    <3>2. QED
      BY <3>1
  <2>2. QED
    BY <1>2, <1>5, <2>1
<1>7. CASE call.todo = <<"long", "wide", "markers">>
  <2>1. Deleted(db, work, call.s, {"long", "wide", "markers"})
    BY <1>4, <1>7 DEF DeleteAtWork
  <2>2. Head(call.todo) = "long" /\ call'.todo = <<"wide", "markers">>
    BY <1>6, <1>7
  <2>3. work' = [work EXCEPT !["long"] = Others(work.long, call.s)]
    BY <1>2, <2>2 DEF Others
  <2>4. Deleted(db, work', call.s, {"wide", "markers"})
    <3>1. /\ work' \in Databases /\ work'.rows = work.rows /\ work'.row = work.row
          /\ work'.lastId = work.lastId /\ work'.long = Others(work.long, call.s)
          /\ work'.wide = work.wide /\ work'.markers = work.markers
      <4>1. Others(work.long, call.s) \subseteq work.long
        BY DEF Others
      <4>2. work' \in Databases
        BY <1>5, <2>3, <4>1, DatabaseFields DEF Databases
      <4>3. QED
        BY <1>5, <2>3, <4>2 DEF Databases
    <3>2. QED
      BY <2>1, <3>1 DEF Deleted
  <2>5. QED
    BY <1>2, <1>3, <1>5, <1>6, <2>2, <2>4 DEF TablesInv, CallInv, DeleteAtWork
<1>8. CASE call.todo = <<"wide", "markers">>
  <2>1. Deleted(db, work, call.s, {"wide", "markers"})
    BY <1>4, <1>8 DEF DeleteAtWork
  <2>2. Head(call.todo) = "wide" /\ call'.todo = <<"markers">>
    BY <1>6, <1>8
  <2>3. work' = [work EXCEPT !["wide"] = Others(work.wide, call.s)]
    BY <1>2, <2>2 DEF Others
  <2>4. Deleted(db, work', call.s, {"markers"})
    <3>1. /\ work' \in Databases /\ work'.rows = work.rows /\ work'.row = work.row
          /\ work'.lastId = work.lastId /\ work'.long = work.long
          /\ work'.wide = Others(work.wide, call.s) /\ work'.markers = work.markers
      <4>1. Others(work.wide, call.s) \subseteq work.wide
        BY DEF Others
      <4>2. work' \in Databases
        BY <1>5, <2>3, <4>1, DatabaseFields DEF Databases
      <4>3. QED
        BY <1>5, <2>3, <4>2 DEF Databases
    <3>2. QED
      BY <2>1, <3>1 DEF Deleted
  <2>5. QED
    BY <1>2, <1>3, <1>5, <1>6, <2>2, <2>4 DEF TablesInv, CallInv, DeleteAtWork
<1>9. CASE call.todo = <<"markers">>
  <2>1. Deleted(db, work, call.s, {"markers"})
    BY <1>4, <1>9 DEF DeleteAtWork
  <2>2. Head(call.todo) = "markers" /\ call'.todo = <<>>
    BY <1>6, <1>9
  <2>3. work' = [work EXCEPT !["markers"] = Others(work.markers, call.s)]
    BY <1>2, <2>2 DEF Others
  <2>4. Deleted(db, work', call.s, {})
    <3>1. /\ work' \in Databases /\ work'.rows = work.rows /\ work'.row = work.row
          /\ work'.lastId = work.lastId /\ work'.long = work.long
          /\ work'.wide = work.wide /\ work'.markers = Others(work.markers, call.s)
      <4>1. Others(work.markers, call.s) \subseteq work.markers
        BY DEF Others
      <4>2. work' \in Databases
        BY <1>5, <2>3, <4>1, DatabaseFields DEF Databases
      <4>3. QED
        BY <1>5, <2>3, <4>2 DEF Databases
    <3>2. QED
      BY <2>1, <3>1 DEF Deleted
  <2>5. QED
    BY <1>2, <1>3, <1>5, <1>6, <2>2, <2>4 DEF TablesInv, CallInv, DeleteAtWork
<1>10. QED
  BY <1>2, <1>4, <1>7, <1>8, <1>9 DEF DeleteAtWork

\* The session goes with everything that refers to it.
LEMMA CommitDeleteStep ==
    ASSUME TablesInv, CommitDelete
    PROVE  TablesInv'
<1> USE TableConstants
<1>1. /\ db \in Databases /\ clock \in 0..MaxTime /\ batches \in 0..MaxCalls /\ up \in BOOLEAN
      /\ clock \in Nat /\ db.rows \subseteq Keys /\ db.rows \subseteq 1..db.lastId
  BY DatabaseFields DEF TablesInv, RowsInv, RecordingInv
<1> DEFINE s == call.s
<1>2. /\ up /\ call.op = "delete" /\ call.todo = <<>>
      /\ db' = [work EXCEPT !.rows = work.rows \ {s}, !.row[s] = Row(0)]
      /\ call' = Idle /\ told' = {x \in told : x[1] # s}
      /\ UNCHANGED <<up, clock, live, batches>>
  BY DEF CommitDelete
<1>3. DeleteAtWork
  BY <1>2, CallAtWork
<1>4. Deleted(db, work, s, {}) /\ s \in Keys /\ s \in db.rows
  BY <1>2, <1>3 DEF DeleteAtWork
<1> HIDE DEF s
<1>5. /\ work \in Databases /\ work.rows = db.rows /\ work.row = db.row
      /\ work.lastId = db.lastId /\ work.long = Others(db.long, s)
      /\ work.wide = Others(db.wide, s) /\ work.markers = Others(db.markers, s)
  BY <1>4 DEF Deleted
<1>6. Row(0) \in RowRecords /\ work.rows \ {s} \in SUBSET Keys
      /\ Row(0).start = 0 /\ Row(0).end = Unset
  BY <1>1, <1>5 DEF Row, RowRecords
<1>7. /\ db'.rows = db.rows \ {s} /\ db'.lastId = db.lastId
      /\ db'.wide = Others(db.wide, s) /\ db'.long = Others(db.long, s)
      /\ db'.markers = Others(db.markers, s) /\ db' \in Databases
  <2>1. [work.row EXCEPT ![s] = Row(0)] \in [Keys -> RowRecords]
    BY <1>4, <1>5, <1>6, DatabaseFields
  <2>2. db' \in Databases
    BY <1>2, <1>5, <1>6, <2>1 DEF Databases
  <2>3. QED
    BY <1>2, <1>5, <2>2 DEF Databases
<1>8. \A r \in Keys : db'.row[r] = IF r = s THEN Row(0) ELSE db.row[r]
  <2>1. db'.row = [db.row EXCEPT ![s] = Row(0)]
    BY <1>2, <1>5 DEF Databases
  <2>2. QED
    BY <1>1, <1>4, <2>1, DatabaseFields
<1>9. RowsInv'
  <2>1. ASSUME NEW r \in Keys
        PROVE  db'.row[r].start <= clock /\ db'.row[r].end \in 0..clock \union {Unset}
    <3>1. db.row[r].start <= clock /\ db.row[r].end \in 0..clock \union {Unset}
      BY DEF TablesInv, RowsInv
    <3>2. QED
      BY <1>1, <1>6, <1>8, <3>1
  <2>2. told' \subseteq (1..db.lastId) \X Modes /\ db.lastId <= MaxRows
    BY <1>2 DEF TablesInv, RowsInv
  <2>3. QED
    BY <1>1, <1>2, <1>7, <2>1, <2>2 DEF RowsInv
<1>10. RecordingInv'
  <2>1. ASSUME NEW r \in live \intersect db'.rows
        PROVE  db'.row[r].end = Unset
    BY <1>1, <1>7, <1>8 DEF TablesInv, RecordingInv
  <2>2. QED
    BY <1>2, <1>7, <2>1 DEF TablesInv, RecordingInv
<1>11. \A c \in db'.wide \union db'.long :
          c \in db.wide \union db.long /\ c[1] # s /\ c[1] \in db.rows /\ c[1] \in Keys
  BY <1>1, <1>7 DEF TablesInv, TablesStored, NoOrphanData, Others
<1>12. SamplesInv'
  <2>1. ASSUME NEW c \in db'.wide \union db'.long
        PROVE  c[2] <= batches /\ db'.row[c[1]].start + c[3] <= clock
    BY <1>8, <1>11 DEF TablesInv, SamplesInv
  <2>2. QED
    BY <1>2, <2>1 DEF SamplesInv
<1>13. NoOrphanData'
  BY <1>7 DEF TablesInv, TablesStored, NoOrphanData, Others
<1>14. BatchesWhole'
  <2>1. WholeBatches(db.wide, db.long)
    BY DEF TablesInv, TablesStored, BatchesWhole
  <2>2. ASSUME NEW c \in db'.wide \union db'.long, NEW label \in {"core 0", "core 1"}
        PROVE  \E d \in db'.long : d[1] = c[1] /\ d[2] = c[2] /\ d[4] = label
    <3>1. PICK d \in db.long : d[1] = c[1] /\ d[2] = c[2] /\ d[4] = label
      BY <1>11, <2>1 DEF WholeBatches
    <3>2. d \in db'.long
      BY <1>7, <1>11, <3>1 DEF Others
    <3>3. QED
      BY <3>1, <3>2
  <2>3. ASSUME NEW c \in db'.wide \union db'.long, c[5] = "both"
        PROVE  \E w \in db'.wide : w[1] = c[1] /\ w[3] = c[3] /\ w[2] >= c[2]
    <3>1. PICK w \in db.wide : w[1] = c[1] /\ w[3] = c[3] /\ w[2] >= c[2]
      BY <1>11, <2>1, <2>3 DEF WholeBatches
    <3>2. w \in db'.wide
      BY <1>7, <1>11, <3>1 DEF Others
    <3>3. QED
      BY <3>1, <3>2
  <2>4. QED
    BY <2>2, <2>3 DEF BatchesWhole, WholeBatches
<1>15. TimingsKept'
  <2>1. ASSUME NEW x \in told', x[1] \in db'.rows
        PROVE  x[2] \in db'.row[x[1]].timings
    <3>1. x \in told /\ x[1] # s /\ x[1] \in db.rows /\ x[1] \in Keys
      BY <1>1, <1>2, <1>7, <2>1
    <3>2. QED
      BY <1>8, <3>1 DEF TablesInv, TablesStored, TimingsKept
  <2>2. QED
    BY <2>1 DEF TimingsKept
<1>16. SamplesWithinSession'
  <2>1. ASSUME NEW r \in db'.rows, db'.row[r].end # Unset, NEW c \in SamplesOf(db', r)
        PROVE  db'.row[r].start + c[3] <= db'.row[r].end
    <3>1. r # s /\ r \in db.rows /\ r \in Keys /\ c \in SamplesOf(db, r)
      BY <1>1, <1>7 DEF SamplesOf, Others
    <3>2. QED
      BY <1>8, <2>1, <3>1 DEF TablesInv, TablesStored, SamplesWithinSession
  <2>2. QED
    BY <2>1 DEF SamplesWithinSession
<1>17. QED
  BY <1>2, <1>9, <1>10, <1>12, <1>13, <1>14, <1>15, <1>16 DEF TablesInv, CallInv, TablesStored

-----------------------------------------------------------------------------
LEMMA SendTimingStep ==
    ASSUME TablesInv, NEW s \in Keys, NEW m \in Modes, SendTiming(s, m)
    PROVE  TablesInv'
<1>1. /\ db \in Databases /\ clock \in 0..MaxTime /\ batches \in 0..MaxCalls /\ up \in BOOLEAN
      /\ db.lastId \in Nat
  BY DatabaseFields DEF TablesInv, RowsInv, RecordingInv
<1>2. /\ up /\ s <= db.lastId /\ work' = db
      /\ call' = [op |-> "read", s |-> s, mode |-> m]
      /\ UNCHANGED <<up, clock, db, live, batches, told>>
  BY DEF SendTiming, Begins
<1>3. RowsInv' /\ RecordingInv' /\ SamplesInv' /\ TablesStored'
  <2>1. clock' \in clock..MaxTime /\ batches' \in batches..MaxCalls
    BY <1>1, <1>2, TableConstants
  <2>2. /\ up' \in BOOLEAN /\ live' \subseteq live /\ (~up' => live' = {})
        /\ RowsInv /\ RecordingInv /\ SamplesInv /\ TablesStored
    BY <1>1, <1>2 DEF TablesInv, RecordingInv
  <2>3. QED
    BY <1>2, <2>1, <2>2, DiskFrame
<1>4. TimingAtWork'
  <2>1. s \in 1..db.lastId
    BY <1>1, <1>2, TableConstants
  <2>2. QED
    BY <1>2, <2>1 DEF TimingAtWork
<1>5. QED
  BY <1>2, <1>3, <1>4 DEF TablesInv, CallInv

LEMMA ReadTimingsStep ==
    ASSUME TablesInv, ReadTimings
    PROVE  TablesInv'
<1>1. /\ db \in Databases /\ clock \in 0..MaxTime /\ batches \in 0..MaxCalls /\ up \in BOOLEAN
      /\ db.rows \subseteq Keys
  BY DatabaseFields DEF TablesInv, RowsInv, RecordingInv
<1>2. /\ up /\ call.op = "read"
      /\ call' = [op |-> "write", s |-> call.s, mode |-> call.mode,
                  read |-> IF call.s \in work.rows THEN work.row[call.s].timings ELSE {}]
      /\ UNCHANGED <<up, clock, db, work, live, batches, told>>
  BY DEF ReadTimings
<1>3. RowsInv' /\ RecordingInv' /\ SamplesInv' /\ TablesStored'
  <2>1. clock' \in clock..MaxTime /\ batches' \in batches..MaxCalls
    BY <1>1, <1>2, TableConstants
  <2>2. /\ up' \in BOOLEAN /\ live' \subseteq live /\ (~up' => live' = {})
        /\ RowsInv /\ RecordingInv /\ SamplesInv /\ TablesStored
    BY <1>1, <1>2 DEF TablesInv, RecordingInv
  <2>3. QED
    BY <1>2, <2>1, <2>2, DiskFrame
<1>4. work = db /\ call \in [op : {"read"}, s : 1..db.lastId, mode : Modes]
  BY <1>2, CallAtWork DEF TimingAtWork
<1>5. TimingAtWork'
  <2> DEFINE r == IF call.s \in work.rows THEN work.row[call.s].timings ELSE {}
  <2>1. r \in SUBSET Modes /\ (call.s \in db.rows => r = db.row[call.s].timings)
    BY <1>1, <1>4, DatabaseFields
  <2> HIDE DEF r
  <2>2. call' = [op |-> "write", s |-> call.s, mode |-> call.mode, read |-> r]
    BY <1>2 DEF r
  <2>3. call' \in [op : {"write"}, s : 1..db.lastId, mode : Modes, read : SUBSET Modes]
    BY <1>4, <2>1, <2>2
  <2>4. call'.s \in db.rows => call'.read = db.row[call'.s].timings
    BY <2>1, <2>2
  <2>5. QED
    BY <1>2, <1>4, <2>3, <2>4 DEF TimingAtWork
<1>6. QED
  BY <1>2, <1>3, <1>5 DEF TablesInv, CallInv

\* What a timing written to the row changes there.
LEMMA TimingWritten ==
    ASSUME TablesInv, WriteTimings, call.s \in work.rows
    PROVE  /\ db' \in Databases /\ db'.rows = db.rows /\ db'.lastId = db.lastId
           /\ db'.wide = db.wide /\ db'.long = db.long /\ db'.markers = db.markers
           /\ call.s \in db.rows /\ call.mode \in Modes /\ work = db
           /\ \A r \in Keys :
                 /\ db'.row[r].start = db.row[r].start /\ db'.row[r].end = db.row[r].end
                 /\ db'.row[r].timings = IF r = call.s
                                         THEN db.row[r].timings \union {call.mode}
                                         ELSE db.row[r].timings
<1>1. /\ up /\ call.op = "write"
      /\ db' = [work EXCEPT !.row[call.s].timings = call.read \union {call.mode}]
  BY DEF WriteTimings
<1>2. /\ work = db /\ call \in [op : {"write"}, s : 1..db.lastId, mode : Modes, read : SUBSET Modes]
      /\ (call.s \in db.rows => call.read = db.row[call.s].timings)
  BY <1>1, CallAtWork DEF TimingAtWork
<1>3. /\ db \in Databases /\ db.rows \subseteq Keys
  BY DatabaseFields DEF TablesInv, RowsInv
<1> DEFINE T == db.row[call.s].timings \union {call.mode}
<1>4. T \in SUBSET Modes /\ call.s \in Keys /\ call.s \in db.rows /\ call.mode \in Modes
  BY <1>2, <1>3, DatabaseFields
<1>5. db' = [db EXCEPT !.row[call.s].timings = T]
  BY <1>1, <1>2, <1>4
<1> HIDE DEF T
<1>6. [db.row EXCEPT ![call.s].timings = T] \in [Keys -> RowRecords]
  BY <1>3, <1>4, DatabaseFields DEF RowRecords
<1>7. /\ db'.row = [db.row EXCEPT ![call.s].timings = T] /\ db'.rows = db.rows
      /\ db'.lastId = db.lastId /\ db'.wide = db.wide /\ db'.long = db.long
      /\ db'.markers = db.markers
  BY <1>3, <1>5 DEF Databases
<1>8. db' \in Databases
  BY <1>3, <1>5, <1>6 DEF Databases
<1>9. ASSUME NEW r \in Keys
      PROVE  /\ db'.row[r].start = db.row[r].start /\ db'.row[r].end = db.row[r].end
             /\ db'.row[r].timings = IF r = call.s THEN T ELSE db.row[r].timings
  BY <1>3, <1>4, <1>7, DatabaseFields DEF RowRecords
<1>10. QED
  BY <1>2, <1>4, <1>7, <1>8, <1>9 DEF T

LEMMA WriteTimingsStep ==
    ASSUME TablesInv, WriteTimings
    PROVE  TablesInv'
<1>1. /\ db \in Databases /\ clock \in 0..MaxTime /\ batches \in 0..MaxCalls /\ up \in BOOLEAN
      /\ db.rows \subseteq Keys /\ db.rows \subseteq 1..db.lastId
      /\ told \subseteq (1..db.lastId) \X Modes
  BY DatabaseFields DEF TablesInv, RowsInv, RecordingInv
<1>2. up /\ call' = Idle /\ UNCHANGED <<up, clock, live, batches>>
  BY DEF WriteTimings, Fails
<1>3. CASE call.s \notin work.rows
  <2>1. UNCHANGED <<db, told>>
    BY <1>3 DEF WriteTimings, Fails
  <2>2. clock' \in clock..MaxTime /\ batches' \in batches..MaxCalls
    BY <1>1, <1>2, TableConstants
  <2>3. /\ up' \in BOOLEAN /\ live' \subseteq live /\ (~up' => live' = {})
        /\ RowsInv /\ RecordingInv /\ SamplesInv /\ TablesStored
    BY <1>1, <1>2 DEF TablesInv, RecordingInv
  <2>4. RowsInv' /\ RecordingInv' /\ SamplesInv' /\ TablesStored'
    BY <2>1, <2>2, <2>3, DiskFrame
  <2>5. QED
    BY <1>2, <2>4 DEF TablesInv, CallInv
<1>4. CASE call.s \in work.rows
  <2>1. told' = told \union {<<call.s, call.mode>>}
    BY <1>4 DEF WriteTimings
  <2>2. /\ db' \in Databases /\ db'.rows = db.rows /\ db'.lastId = db.lastId
        /\ db'.wide = db.wide /\ db'.long = db.long /\ db'.markers = db.markers
        /\ call.s \in db.rows /\ call.mode \in Modes
        /\ \A r \in Keys :
              /\ db'.row[r].start = db.row[r].start /\ db'.row[r].end = db.row[r].end
              /\ db'.row[r].timings = IF r = call.s THEN db.row[r].timings \union {call.mode}
                                      ELSE db.row[r].timings
    BY <1>4, TimingWritten
  <2>3. told' \subseteq (1..db.lastId) \X Modes
    BY <1>1, <2>1, <2>2
  <2>4. TimingsKept'
    <3>1. ASSUME NEW x \in told', x[1] \in db.rows
          PROVE  x[2] \in db'.row[x[1]].timings
      <4>1. CASE x \in told
        <5>1. x[2] \in db.row[x[1]].timings /\ x[1] \in Keys
          BY <1>1, <3>1, <4>1 DEF TablesInv, TablesStored, TimingsKept
        <5>2. QED
          BY <2>2, <5>1
      <4>2. CASE x = <<call.s, call.mode>>
        BY <1>1, <2>2, <4>2
      <4>3. QED
        BY <2>1, <4>1, <4>2
    <3>2. QED
      BY <2>2, <3>1 DEF TimingsKept
  <2>5. \A r \in Keys : /\ db'.row[r].start = db.row[r].start
                        /\ db'.row[r].end \in 0..clock \union {Unset}
    BY <2>2 DEF TablesInv, RowsInv
  <2>6. \A r \in live' \intersect db.rows : db'.row[r].end = Unset
    BY <1>1, <1>2, <2>2 DEF TablesInv, RecordingInv
  <2>7. \A r \in db.rows : db'.row[r].end = db.row[r].end
    BY <1>1, <2>2
  <2>8. QED
    BY <1>1, <1>2, <2>2, <2>3, <2>4, <2>5, <2>6, <2>7, RowsWritten
<1>5. QED
  BY <1>3, <1>4

-----------------------------------------------------------------------------
LEMMA ProcessDiesStep ==
    ASSUME TablesInv, ProcessDies
    PROVE  TablesInv'
<1>1. /\ clock \in 0..MaxTime /\ batches \in 0..MaxCalls
      /\ RowsInv /\ RecordingInv /\ SamplesInv /\ TablesStored
  BY DEF TablesInv, RowsInv
<1>2. /\ up' = FALSE /\ call' = Idle /\ live' = {}
      /\ UNCHANGED <<clock, db, batches, told>>
  BY DEF ProcessDies
<1>3. clock' \in clock..MaxTime /\ batches' \in batches..MaxCalls
  BY <1>1, <1>2, TableConstants
<1>4. RowsInv' /\ RecordingInv' /\ SamplesInv' /\ TablesStored'
  BY <1>1, <1>2, <1>3, DiskFrame
<1>5. QED
  BY <1>2, <1>4 DEF TablesInv, CallInv

\* Time passes, also while a call is at work.
LEMMA TickStep ==
    ASSUME TablesInv, Tick
    PROVE  TablesInv'
<1> USE TableConstants
<1>1. /\ clock \in 0..MaxTime /\ batches \in 0..MaxCalls
      /\ RowsInv /\ RecordingInv /\ SamplesInv /\ TablesStored
  BY DEF TablesInv, RowsInv
<1>2. /\ clock < MaxTime /\ clock' = clock + 1
      /\ UNCHANGED <<up, db, work, call, live, batches, told>>
  BY DEF Tick
<1>3. clock' \in clock..MaxTime /\ batches' \in batches..MaxCalls
  BY <1>1, <1>2
<1>4. RowsInv' /\ RecordingInv' /\ SamplesInv' /\ TablesStored'
  BY <1>1, <1>2, <1>3, DiskFrame DEF RecordingInv
<1>5. BatchAtWork => BatchAtWork'
  <2> SUFFICES ASSUME BatchAtWork PROVE BatchAtWork'
    OBVIOUS
  <2>1. PICK t \in 0..clock, mix \in {"cores", "both"} :
           LET B == BatchOf(call.s, batches, t, mix) IN
           /\ call.s \in db.rows => db.row[call.s].start + t <= clock
           /\ call.s \notin db.rows => call.todo = B
           /\ call.todo \subseteq B
           /\ Written(db, work, B \ call.todo)
    BY DEF BatchAtWork
  <2>2. t \in 0..clock'
    BY <1>1, <1>2
  <2>3. call.s \in db.rows => db.row[call.s].start + t <= clock'
    <3>1. call \in [op : {"batch"}, s : Keys, todo : SUBSET Cells]
      BY DEF BatchAtWork
    <3>2. db.row[call.s].start \in Nat
      BY <3>1, DatabaseFields DEF TablesInv, RowsInv
    <3>3. QED
      BY <1>1, <1>2, <2>1, <3>2
  <2>4. QED
    BY <1>2, <2>1, <2>2, <2>3 DEF BatchAtWork
<1>6. DeleteAtWork => DeleteAtWork'
  BY <1>2 DEF DeleteAtWork
<1>7. TimingAtWork => TimingAtWork'
  BY <1>2 DEF TimingAtWork
<1>8. QED
  BY <1>2, <1>4, <1>5, <1>6, <1>7 DEF TablesInv, CallInv

-----------------------------------------------------------------------------
\* The last sample of a session is one of its samples, and none is later.
LEMMA LastSampleIs ==
    ASSUME TablesInv, NEW s \in db.rows
    PROVE  /\ LastSample(db, s) \in Nat
           /\ db.row[s].start + LastSample(db, s) <= clock
           /\ \A c \in SamplesOf(db, s) : c[3] <= LastSample(db, s)
<1>1. /\ s \in Keys /\ clock \in Nat /\ db.row[s].start \in Nat /\ db.row[s].start <= clock
  BY DatabaseFields, TableConstants DEF TablesInv, RowsInv
<1>2. \A c \in SamplesOf(db, s) : c[3] \in Nat /\ db.row[s].start + c[3] <= clock
  BY DatabaseFields DEF TablesInv, RowsInv, SamplesInv, SamplesOf, Cells
<1> DEFINE T == {c[3] : c \in SamplesOf(db, s)}
<1>3. CASE SamplesOf(db, s) = {}
  BY <1>1, <1>3 DEF LastSample
<1>4. CASE SamplesOf(db, s) # {}
  <2>1. T \in SUBSET Nat /\ T # {} /\ \A x \in T : x <= clock
    BY <1>1, <1>2, <1>4
  <2>2. \E x \in T : \A y \in T : y <= x
    <3> HIDE DEF T
    <3>1. QED
      BY <1>1, <2>1, MostNatural
  <2>3. LastSample(db, s) = MaxOf(T)
    BY <1>4 DEF LastSample
  <2>4. MaxOf(T) \in T /\ \A y \in T : y <= MaxOf(T)
    <3> HIDE DEF T
    <3>1. QED
      BY <2>2 DEF MaxOf
  <2>5. PICK c \in SamplesOf(db, s) : LastSample(db, s) = c[3]
    BY <2>3, <2>4
  <2>6. \A d \in SamplesOf(db, s) : d[3] <= LastSample(db, s)
    BY <2>3, <2>4
  <2>7. QED
    BY <1>2, <2>5, <2>6
<1>5. QED
  BY <1>3, <1>4

\* What the clean-up changes.
LEMMA RowsClosed ==
    ASSUME TablesInv, OpenAgain
    PROVE  /\ db' \in Databases /\ db'.rows = db.rows /\ db'.lastId = db.lastId
           /\ db'.wide = db.wide /\ db'.long = db.long /\ db'.markers = db.markers
           /\ \A r \in Keys :
                 /\ db'.row[r].start = db.row[r].start
                 /\ db'.row[r].timings = db.row[r].timings
                 /\ db'.row[r].end = IF r \in db.rows /\ db.row[r].end = Unset
                                     THEN db.row[r].start + LastSample(db, r)
                                     ELSE db.row[r].end
<1> DEFINE R == [s \in Keys |-> IF s \in db.rows /\ db.row[s].end = Unset
                 THEN [db.row[s] EXCEPT !.end = db.row[s].start + LastSample(db, s)]
                 ELSE db.row[s]]
<1>1. db' = [db EXCEPT !.row = R]
  BY DEF OpenAgain
<1>2. /\ db \in Databases /\ db.rows \subseteq Keys
      /\ \A s \in Keys : db.row[s] \in RowRecords
  BY DatabaseFields DEF TablesInv, RowsInv
<1>3. ASSUME NEW r \in Keys
      PROVE  /\ R[r] \in RowRecords
             /\ R[r].start = db.row[r].start /\ R[r].timings = db.row[r].timings
             /\ R[r].end = IF r \in db.rows /\ db.row[r].end = Unset
                           THEN db.row[r].start + LastSample(db, r)
                           ELSE db.row[r].end
  <2>1. CASE r \in db.rows /\ db.row[r].end = Unset
    <3>1. R[r] = [db.row[r] EXCEPT !.end = db.row[r].start + LastSample(db, r)]
      BY <2>1
    <3>2. db.row[r].start + LastSample(db, r) \in Int
      BY <1>2, <2>1, LastSampleIs DEF RowRecords
    <3> HIDE DEF R
    <3>3. QED
      BY <1>2, <2>1, <3>1, <3>2 DEF RowRecords
  <2>2. CASE ~(r \in db.rows /\ db.row[r].end = Unset)
    <3>1. R[r] = db.row[r]
      BY <2>2
    <3> HIDE DEF R
    <3>2. QED
      BY <1>2, <2>2, <3>1
  <2>3. QED
    BY <2>1, <2>2
<1>4. R \in [Keys -> RowRecords]
  BY <1>3
<1> HIDE DEF R
<1>5. db' \in Databases
  BY <1>1, <1>2, <1>4 DEF Databases
<1>6. /\ db'.row = R /\ db'.rows = db.rows /\ db'.lastId = db.lastId
      /\ db'.wide = db.wide /\ db'.long = db.long /\ db'.markers = db.markers
  BY <1>1, <1>2 DEF Databases
<1>7. QED
  BY <1>3, <1>5, <1>6

LEMMA OpenAgainStep ==
    ASSUME TablesInv, OpenAgain
    PROVE  TablesInv'
<1>1. /\ db \in Databases /\ clock \in 0..MaxTime /\ db.rows \subseteq Keys
      /\ told \subseteq (1..db.lastId) \X Modes
  BY DatabaseFields DEF TablesInv, RowsInv
<1>2. /\ ~up /\ up' = TRUE /\ UNCHANGED <<clock, work, call, live, batches, told>>
  BY DEF OpenAgain
<1>3. call' = Idle /\ live' = {}
  BY <1>2 DEF TablesInv, CallInv, RecordingInv
<1>4. /\ db' \in Databases /\ db'.rows = db.rows /\ db'.lastId = db.lastId
      /\ db'.wide = db.wide /\ db'.long = db.long /\ db'.markers = db.markers
      /\ \A r \in Keys :
            /\ db'.row[r].start = db.row[r].start
            /\ db'.row[r].timings = db.row[r].timings
            /\ db'.row[r].end = IF r \in db.rows /\ db.row[r].end = Unset
                                THEN db.row[r].start + LastSample(db, r)
                                ELSE db.row[r].end
  BY RowsClosed
<1>5. ASSUME NEW r \in Keys
      PROVE  db'.row[r].end \in 0..clock \union {Unset}
  <2>1. db.row[r].end \in 0..clock \union {Unset} /\ db.row[r].start \in Nat
    BY DatabaseFields DEF TablesInv, RowsInv
  <2>2. CASE r \in db.rows /\ db.row[r].end = Unset
    <3>1. /\ db'.row[r].end = db.row[r].start + LastSample(db, r)
          /\ LastSample(db, r) \in Nat /\ db.row[r].start + LastSample(db, r) <= clock
      BY <1>4, <2>2, LastSampleIs
    <3>2. QED
      BY <1>1, <2>1, <3>1
  <2>3. QED
    BY <1>4, <2>1, <2>2
<1>6. ASSUME NEW r \in db.rows
      PROVE  \/ db'.row[r].end = db.row[r].end
             \/ \A c \in SamplesOf(db, r) : db.row[r].start + c[3] <= db'.row[r].end
  <2>1. CASE db.row[r].end = Unset
    <3>1. db'.row[r].end = db.row[r].start + LastSample(db, r)
      BY <1>1, <1>4, <2>1
    <3>2. ASSUME NEW c \in SamplesOf(db, r)
          PROVE  db.row[r].start + c[3] <= db.row[r].start + LastSample(db, r)
      <4>1. c[3] <= LastSample(db, r) /\ LastSample(db, r) \in Nat /\ db.row[r].start \in Nat
        BY <1>1, LastSampleIs, DatabaseFields
      <4>2. c[3] \in Nat
        BY <1>1, DatabaseFields DEF SamplesOf, Cells
      <4>3. QED
        BY <4>1, <4>2
    <3>3. QED
      BY <3>1, <3>2
  <2>2. CASE db.row[r].end # Unset
    BY <1>1, <1>4, <2>2
  <2>3. QED
    BY <2>1, <2>2
<1>7. TimingsKept'
  <2>1. ASSUME NEW x \in told, x[1] \in db.rows
        PROVE  x[2] \in db'.row[x[1]].timings
    BY <1>1, <1>4, <2>1 DEF TablesInv, TablesStored, TimingsKept
  <2>2. QED
    BY <1>2, <1>4, <2>1 DEF TimingsKept
<1>8. QED
  BY <1>1, <1>2, <1>3, <1>4, <1>5, <1>6, <1>7, RowsWritten

-----------------------------------------------------------------------------
LEMMA TablesStart == TabInit => TablesInv
<1> SUFFICES ASSUME TabInit PROVE TablesInv
  OBVIOUS
<1> USE TableConstants
<1>1. /\ up = TRUE /\ clock = 0 /\ db = Empty /\ call = Idle
      /\ live = {} /\ batches = 0 /\ told = {}
  BY DEF TabInit
<1>2. Row(0) \in RowRecords /\ Row(0).start = 0 /\ Row(0).end = Unset
  BY DEF Row, RowRecords
<1>3. /\ db \in Databases /\ db.rows = {} /\ db.lastId = 0 /\ db.wide = {}
      /\ db.long = {} /\ db.markers = {} /\ \A s \in Keys : db.row[s] = Row(0)
  <2>1. [s \in Keys |-> Row(0)] \in [Keys -> RowRecords]
    BY <1>2
  <2>2. QED
    BY <1>1, <2>1 DEF Empty, Databases
<1>4. RowsInv
  BY <1>1, <1>2, <1>3 DEF RowsInv
<1>5. RecordingInv /\ SamplesInv /\ CallInv
  BY <1>1, <1>3 DEF RecordingInv, SamplesInv, CallInv
<1>6. TablesStored
  BY <1>1, <1>3 DEF TablesStored, NoOrphanData, BatchesWhole, WholeBatches, TimingsKept,
                    SamplesWithinSession
<1>7. QED
  BY <1>4, <1>5, <1>6 DEF TablesInv

LEMMA TablesStep == TablesInv /\ [TabNext]_tabVars => TablesInv'
<1> SUFFICES ASSUME TablesInv, [TabNext]_tabVars PROVE TablesInv'
  OBVIOUS
<1>1. CASE Tick
  BY <1>1, TickStep
<1>2. CASE CreateRow
  BY <1>2, CreateRowStep
<1>3. CASE InsertCell
  BY <1>3, InsertCellStep
<1>4. CASE CommitBatch
  BY <1>4, CommitBatchStep
<1>5. CASE DeleteStatement
  BY <1>5, DeleteStatementStep
<1>6. CASE CommitDelete
  BY <1>6, CommitDeleteStep
<1>7. CASE ReadTimings
  BY <1>7, ReadTimingsStep
<1>8. CASE WriteTimings
  BY <1>8, WriteTimingsStep
<1>9. CASE ProcessDies
  BY <1>9, ProcessDiesStep
<1>10. CASE OpenAgain
  BY <1>10, OpenAgainStep
<1>11. ASSUME NEW s \in Keys, FinishRow(s) PROVE TablesInv'
  BY <1>11, FinishRowStep
<1>12. ASSUME NEW s \in Keys, InsertMarker(s) PROVE TablesInv'
  BY <1>12, InsertMarkerStep
<1>13. ASSUME NEW s \in Keys, SendBatch(s) PROVE TablesInv'
  BY <1>13, SendBatchStep
<1>14. ASSUME NEW s \in Keys, SendDelete(s) PROVE TablesInv'
  BY <1>14, SendDeleteStep
<1>15. ASSUME NEW s \in Keys, NEW m \in Modes, SendTiming(s, m) PROVE TablesInv'
  BY <1>15, SendTimingStep
<1>16. CASE UNCHANGED tabVars
  BY <1>16 DEF tabVars, TablesInv, RowsInv, RecordingInv, SamplesInv, CallInv,
       BatchAtWork, DeleteAtWork, TimingAtWork, TablesStored, NoOrphanData, BatchesWhole,
       TimingsKept, SamplesWithinSession, SamplesOf
<1>17. QED
  BY <1>1, <1>2, <1>3, <1>4, <1>5, <1>6, <1>7, <1>8, <1>9, <1>10, <1>11, <1>12, <1>13,
     <1>14, <1>15, <1>16 DEF TabNext

\* The tables on disk, the copy of the call at work and what is left of that
\* call fit together whatever was called, wherever it failed and wherever the
\* process ended (storage/src/lib.rs:53-420).
THEOREM TablesInvariance == TabSpec => []TablesInv
<1>1. QED
  BY TablesStart, TablesStep, PTL DEF TabSpec

\* The end of a row is written where there is none.
LEMMA EndStands ==
    ASSUME TablesInv, TabNext, NEW r \in db.rows, r \in db'.rows, db.row[r].end # Unset
    PROVE  db'.row[r].end = db.row[r].end
<1>1. /\ db \in Databases /\ r \in Keys /\ r \in 1..db.lastId /\ db.lastId \in Nat
  BY DatabaseFields DEF TablesInv, RowsInv
<1>2. CASE CreateRow
  <2> DEFINE s == db.lastId + 1
  <2>1. db' = [db EXCEPT !.rows = db.rows \union {s}, !.row[s] = Row(clock), !.lastId = s]
    BY <1>2 DEF CreateRow
  <2>2. r # s
    BY <1>1
  <2> HIDE DEF s
  <2>3. db'.row = [db.row EXCEPT ![s] = Row(clock)]
    BY <1>1, <2>1 DEF Databases
  <2>4. QED
    BY <1>1, <2>2, <2>3, DatabaseFields
<1>3. CASE \E s \in Keys : FinishRow(s)
  <2>1. PICK s \in Keys : FinishRow(s)
    BY <1>3
  <2>2. CASE s \in db.rows /\ db.row[s].end = Unset
    <3>1. db' = [db EXCEPT !.row[s].end = clock] /\ s # r
      BY <2>1, <2>2 DEF FinishRow
    <3>2. db'.row = [db.row EXCEPT ![s].end = clock]
      BY <1>1, <3>1 DEF Databases
    <3>3. QED
      BY <1>1, <3>1, <3>2, DatabaseFields
  <2>3. CASE ~(s \in db.rows /\ db.row[s].end = Unset)
    BY <2>1, <2>3 DEF FinishRow
  <2>4. QED
    BY <2>2, <2>3
<1>4. CASE \E s \in Keys : InsertMarker(s)
  <2>1. PICK s \in Keys : InsertMarker(s)
    BY <1>4
  <2>2. db'.row = db.row
    BY <1>1, <2>1 DEF InsertMarker, Databases
  <2>3. QED
    BY <2>2
<1>5. CASE CommitBatch
  <2>1. BatchAtWork /\ db' = work
    BY <1>5, CallAtWork DEF CommitBatch, Commits
  <2>2. work.row = db.row
    BY <2>1 DEF BatchAtWork, Written
  <2>3. QED
    BY <2>1, <2>2
<1>6. CASE CommitDelete
  <2> DEFINE s == call.s
  <2>1. /\ DeleteAtWork /\ s \in Keys
        /\ db' = [work EXCEPT !.rows = work.rows \ {s}, !.row[s] = Row(0)]
    BY <1>6, CallAtWork DEF CommitDelete, DeleteAtWork
  <2>2. work \in Databases /\ work.row = db.row
    BY <2>1 DEF DeleteAtWork, Deleted
  <2> HIDE DEF s
  <2>3. db'.rows = work.rows \ {s} /\ db'.row = [db.row EXCEPT ![s] = Row(0)]
    BY <2>1, <2>2 DEF Databases
  <2>4. r # s
    BY <2>3
  <2>5. QED
    BY <1>1, <2>3, <2>4, DatabaseFields
<1>7. CASE WriteTimings
  <2>1. CASE call.s \in work.rows
    BY <1>1, <1>7, <2>1, TimingWritten
  <2>2. CASE call.s \notin work.rows
    BY <1>7, <2>2 DEF WriteTimings, Fails
  <2>3. QED
    BY <2>1, <2>2
<1>8. CASE OpenAgain
  BY <1>1, <1>8, RowsClosed
<1>9. CASE Tick \/ InsertCell \/ DeleteStatement \/ ReadTimings \/ ProcessDies
           \/ (\E s \in Keys : SendBatch(s) \/ SendDelete(s)
                               \/ \E m \in Modes : SendTiming(s, m))
  <2>1. db' = db
    BY <1>9 DEF Tick, InsertCell, Fails, DeleteStatement, ReadTimings, ProcessDies,
         SendBatch, SendDelete, SendTiming
  <2>2. QED
    BY <2>1
<1>10. QED
  BY <1>2, <1>3, <1>4, <1>5, <1>6, <1>7, <1>8, <1>9 DEF TabNext

\* For any number of sessions and batches, over any time: no data of a deleted
\* session, every batch stored whole or not at all, every timing reported as
\* stored in its row, no sample past the end of its session, and an end that
\* stands (storage/src/lib.rs:53-420).
THEOREM TablesAreSound == TabSpec => TablesSound
<1>1. TablesInv => NoOrphanData /\ BatchesWhole /\ TimingsKept /\ SamplesWithinSession
  BY DEF TablesInv, TablesStored
<1>2. TablesInv /\ [TabNext]_tabVars =>
        [\A s \in db.rows \intersect db'.rows :
            db.row[s].end # Unset => db'.row[s].end = db.row[s].end]_tabVars
  BY EndStands
<1>3. QED
  BY <1>1, <1>2, TablesInvariance, PTL DEF TabSpec, TablesSound, EndKept

\* The tables hold rows of the ids given out, and the call at work is one that
\* the connection's thread knows (storage/src/lib.rs:64-175).
THEOREM TypesOfTables == TabSpec => []TabTypeOK
<1>1. TablesInv => TabTypeOK
  <2> SUFFICES ASSUME TablesInv PROVE TabTypeOK
    OBVIOUS
  <2> USE TableConstants
  <2>1. /\ clock \in 0..MaxTime /\ batches \in 0..MaxCalls /\ up \in BOOLEAN
        /\ db.lastId \in 0..MaxRows /\ db.rows \subseteq 1..db.lastId
        /\ live \subseteq Keys
    BY DatabaseFields DEF TablesInv, RowsInv, RecordingInv
  <2>2. ASSUME NEW s \in Keys
        PROVE  db.row[s].start \in 0..MaxTime /\ db.row[s].end \in 0..MaxTime \union {Unset}
    BY <2>1, DatabaseFields DEF TablesInv, RowsInv
  <2>3. told \subseteq Keys \X Modes
    BY <2>1 DEF TablesInv, RowsInv
  <2>4. call.op \in {"idle", "batch", "delete", "read", "write"}
    BY DEF TablesInv, CallInv, Idle, BatchAtWork, DeleteAtWork, TimingAtWork
  <2>5. QED
    BY <2>1, <2>2, <2>3, <2>4 DEF TabTypeOK
<1>2. QED
  BY <1>1, TablesInvariance, PTL

-----------------------------------------------------------------------------
(***************************************************************************)
(* Migrations, for builds that know any number of migrations, launched in  *)
(* any order and ended at any point.                                       *)
(***************************************************************************)

\* On disk: an initial segment of the migrations, each with its row.
DiskInv ==
    /\ ddl = versions
    /\ \E n \in Nat : versions = 1..n

\* In the loop: the disk is at the version that was read, or at the last
\* migration committed since.
LoopInv ==
    proc \in Migrating =>
        /\ 1 <= at /\ at <= build + 1 /\ cur <= build
        /\ versions = 1..(IF at <= cur THEN cur ELSE at - 1)

\* In the transaction: the schema is one migration ahead, then its row too.
TxInv ==
    /\ proc \in {"applied", "recorded"} => cur < at /\ at <= build
    /\ proc = "applied" => tx = [ddl |-> 1..at, versions |-> 1..(at - 1)]
    /\ proc = "recorded" => tx = [ddl |-> 1..at, versions |-> 1..at]

\* The inductive invariant.
MInv ==
    /\ MigTypeOK /\ DiskInv /\ LoopInv /\ TxInv
    /\ NoMigrationFails /\ OpenAtHead

-----------------------------------------------------------------------------
\* The version a launch reads is the number of migrations it finds.
LEMMA NewestOfSegment ==
    ASSUME NEW n \in Nat, versions = 1..n
    PROVE  Newest = n
<1>1. CASE n = 0
  BY <1>1 DEF Newest
<1>2. CASE n # 0
  <2>1. n \in versions /\ \A w \in versions : w <= n
    BY <1>2
  <2>2. ASSUME NEW v \in versions, \A w \in versions : w <= v
        PROVE  v = n
    <3>1. v \in 1..n /\ n <= v
      BY <2>1, <2>2
    <3>2. QED
      BY <3>1
  <2>3. versions # {}
    BY <2>1
  <2>4. QED
    BY <2>1, <2>2, <2>3 DEF Newest
<1>3. QED
  BY <1>1, <1>2

\* One migration more makes the segment one longer.
LEMMA SegmentGrows ==
    ASSUME NEW k \in Nat, k >= 1
    PROVE  (1..(k - 1)) \union {k} = 1..k /\ k \notin 1..(k - 1)
<1>1. QED
  OBVIOUS

LEMMA BuildIsNat == MigTypeOK => build \in Nat
<1>1. QED
  BY BuildsAssumption DEF MigTypeOK

LEMMA MigrationsStart == MigInit => MInv
<1>1. SUFFICES ASSUME MigInit PROVE MInv
  OBVIOUS
<1>2. MigTypeOK
  BY <1>1 DEF MigInit, MigTypeOK, NoTx, Migrating
<1>3. versions = 1..0
  BY <1>1 DEF MigInit
<1>4. DiskInv
  BY <1>1, <1>3 DEF MigInit, DiskInv
<1>5. LoopInv /\ TxInv /\ NoMigrationFails /\ OpenAtHead
  BY <1>1 DEF MigInit, LoopInv, TxInv, NoMigrationFails, OpenAtHead, Migrating
<1>6. QED
  BY <1>2, <1>4, <1>5 DEF MInv

LEMMA MigrationsStep == MInv /\ [MigNext]_migVars => MInv'
<1>1. SUFFICES ASSUME MInv, [MigNext]_migVars PROVE MInv'
  OBVIOUS
<1>2. build \in Nat /\ cur \in Nat /\ at \in Nat
  BY <1>1, BuildIsNat DEF MInv, MigTypeOK
<1>3. CASE Launch
  <2>1. MigTypeOK'
    BY <1>1, <1>3 DEF MInv, Launch, MigTypeOK, Migrating
  <2>2. DiskInv'
    BY <1>1, <1>3 DEF MInv, Launch, DiskInv
  <2>3. LoopInv' /\ TxInv' /\ NoMigrationFails' /\ OpenAtHead'
    BY <1>3 DEF Launch, LoopInv, TxInv, NoMigrationFails, OpenAtHead, Migrating
  <2>4. QED
    BY <2>1, <2>2, <2>3 DEF MInv
<1>4. CASE ReadVersion
  <2>1. PICK n \in Nat : versions = 1..n
    BY <1>1 DEF MInv, DiskInv
  <2>2. cur' = n /\ at' = 1
    BY <1>4, <2>1, NewestOfSegment DEF ReadVersion
  <2>3. MigTypeOK'
    BY <1>1, <1>4, <2>2 DEF MInv, ReadVersion, MigTypeOK, Migrating
  <2>4. DiskInv'
    BY <1>1, <1>4 DEF MInv, ReadVersion, DiskInv
  <2>5. LoopInv'
    <3>1. SUFFICES ASSUME proc' \in Migrating
                   PROVE  /\ 1 <= at' /\ at' <= build' + 1 /\ cur' <= build'
                          /\ versions' = 1..(IF at' <= cur' THEN cur' ELSE at' - 1)
      BY DEF LoopInv
    <3>2. cur' <= build /\ build' = build /\ versions' = versions
      BY <1>2, <1>4, <2>2, <3>1 DEF ReadVersion, Migrating
    <3>3. n = (IF at' <= cur' THEN cur' ELSE at' - 1)
      BY <2>2
    <3>4. QED
      BY <1>2, <2>1, <2>2, <3>2, <3>3
  <2>6. TxInv' /\ NoMigrationFails' /\ OpenAtHead'
    BY <1>4 DEF ReadVersion, TxInv, NoMigrationFails, OpenAtHead
  <2>7. QED
    BY <2>3, <2>4, <2>5, <2>6 DEF MInv
<1>5. CASE SkipApplied
  <2>1. MigTypeOK'
    BY <1>1, <1>2, <1>5 DEF MInv, SkipApplied, MigTypeOK
  <2>2. DiskInv'
    BY <1>1, <1>5 DEF MInv, SkipApplied, DiskInv
  <2>3. LoopInv'
    <3>1. 1 <= at /\ cur <= build /\ versions = 1..cur
      BY <1>1, <1>5 DEF MInv, LoopInv, SkipApplied, Migrating
    <3>2. at' = at + 1 /\ at <= cur /\ at <= build
          /\ UNCHANGED <<versions, build, cur>>
      BY <1>5 DEF SkipApplied
    <3>3. cur = (IF at' <= cur THEN cur ELSE at' - 1)
      BY <1>2, <3>2
    <3>4. QED
      BY <1>2, <3>1, <3>2, <3>3 DEF LoopInv
  <2>4. TxInv' /\ NoMigrationFails' /\ OpenAtHead'
    BY <1>5 DEF SkipApplied, TxInv, NoMigrationFails, OpenAtHead
  <2>5. QED
    BY <2>1, <2>2, <2>3, <2>4 DEF MInv
<1>6. CASE ApplyStatements
  <2>1. /\ 1 <= at /\ at <= build /\ cur < at /\ cur <= build
        /\ versions = 1..(at - 1) /\ ddl = versions
    BY <1>1, <1>2, <1>6 DEF MInv, DiskInv, LoopInv, ApplyStatements, Migrating
  <2>2. ddl \union {at} = 1..at /\ at \notin ddl
    BY <1>2, <2>1, SegmentGrows
  <2>3. /\ proc' = "applied"
        /\ tx' = [ddl |-> 1..at, versions |-> 1..(at - 1)]
        /\ UNCHANGED <<ddl, versions, build, cur, at>>
    BY <1>6, <2>1, <2>2 DEF ApplyStatements
  <2>4. MigTypeOK'
    BY <1>1, <1>2, <2>3 DEF MInv, MigTypeOK, Migrating
  <2>5. DiskInv'
    BY <1>1, <2>3 DEF MInv, DiskInv
  <2>6. LoopInv'
    BY <1>2, <2>1, <2>3 DEF LoopInv
  <2>7. TxInv' /\ NoMigrationFails' /\ OpenAtHead'
    BY <1>2, <2>1, <2>3 DEF TxInv, NoMigrationFails, OpenAtHead
  <2>8. QED
    BY <2>4, <2>5, <2>6, <2>7 DEF MInv
<1>7. CASE RecordVersion
  <2>1. /\ 1 <= at /\ at <= build /\ cur < at /\ cur <= build
        /\ versions = 1..(at - 1)
        /\ tx = [ddl |-> 1..at, versions |-> 1..(at - 1)]
    BY <1>1, <1>2, <1>7 DEF MInv, LoopInv, TxInv, RecordVersion, Migrating
  <2>2. tx.versions \union {at} = 1..at /\ at \notin tx.versions
    BY <1>2, <2>1, SegmentGrows
  <2>3. /\ proc' = "recorded"
        /\ tx' = [tx EXCEPT !.versions = @ \union {at}]
        /\ UNCHANGED <<ddl, versions, build, cur, at>>
    BY <1>7, <2>2 DEF RecordVersion
  <2>4. tx' = [ddl |-> 1..at, versions |-> 1..at]
    BY <2>1, <2>2, <2>3
  <2>5. MigTypeOK'
    BY <1>1, <1>2, <2>3, <2>4 DEF MInv, MigTypeOK, Migrating
  <2>6. DiskInv'
    BY <1>1, <2>3 DEF MInv, DiskInv
  <2>7. LoopInv'
    BY <1>2, <2>1, <2>3 DEF LoopInv
  <2>8. TxInv' /\ NoMigrationFails' /\ OpenAtHead'
    BY <1>2, <2>1, <2>3, <2>4 DEF TxInv, NoMigrationFails, OpenAtHead
  <2>9. QED
    BY <2>5, <2>6, <2>7, <2>8 DEF MInv
<1>8. CASE Commit
  <2>1. /\ 1 <= at /\ at <= build /\ cur < at /\ cur <= build
        /\ tx = [ddl |-> 1..at, versions |-> 1..at]
    BY <1>1, <1>2, <1>8 DEF MInv, LoopInv, TxInv, Commit, Migrating
  <2>2. /\ ddl' = 1..at /\ versions' = 1..at /\ at' = at + 1
        /\ proc' = "looping" /\ tx' = NoTx /\ UNCHANGED <<build, cur>>
    BY <1>8, <2>1 DEF Commit
  <2>3. MigTypeOK'
    BY <1>1, <1>2, <2>2 DEF MInv, MigTypeOK, Migrating, NoTx
  <2>4. DiskInv'
    BY <1>2, <2>2 DEF DiskInv
  <2>5. LoopInv'
    <3>1. at = (IF at' <= cur' THEN cur' ELSE at' - 1)
      BY <1>2, <2>1, <2>2
    <3>2. QED
      BY <1>2, <2>1, <2>2, <3>1 DEF LoopInv
  <2>6. TxInv' /\ NoMigrationFails' /\ OpenAtHead'
    BY <2>2 DEF TxInv, NoMigrationFails, OpenAtHead
  <2>7. QED
    BY <2>3, <2>4, <2>5, <2>6 DEF MInv
<1>9. CASE Opened
  <2>1. /\ 1 <= at /\ at <= build + 1 /\ cur <= build /\ build < at
        /\ versions = 1..(IF at <= cur THEN cur ELSE at - 1)
    BY <1>1, <1>2, <1>9 DEF MInv, LoopInv, Opened, Migrating
  <2>2. versions = 1..build
    BY <1>2, <2>1
  <2>3. proc' = "open" /\ UNCHANGED <<ddl, versions, tx, build, cur, at>>
    BY <1>9 DEF Opened
  <2>4. MigTypeOK' /\ DiskInv'
    BY <1>1, <2>3 DEF MInv, MigTypeOK, DiskInv
  <2>5. LoopInv' /\ TxInv' /\ NoMigrationFails' /\ OpenAtHead'
    BY <2>2, <2>3 DEF LoopInv, TxInv, NoMigrationFails, OpenAtHead, Migrating
  <2>6. QED
    BY <2>4, <2>5 DEF MInv
<1>10. CASE ProcessEnds
  <2>1. MigTypeOK'
    BY <1>1, <1>10 DEF MInv, MigTypeOK, ProcessEnds, NoTx
  <2>2. DiskInv'
    BY <1>1, <1>10 DEF MInv, DiskInv, ProcessEnds
  <2>3. LoopInv' /\ TxInv' /\ NoMigrationFails' /\ OpenAtHead'
    BY <1>10 DEF ProcessEnds, LoopInv, TxInv, NoMigrationFails, OpenAtHead, Migrating
  <2>4. QED
    BY <2>1, <2>2, <2>3 DEF MInv
<1>11. CASE UNCHANGED migVars
  <2>1. MigTypeOK' /\ DiskInv' /\ LoopInv'
    BY <1>1, <1>11 DEF MInv, migVars, MigTypeOK, DiskInv, LoopInv
  <2>2. TxInv' /\ NoMigrationFails' /\ OpenAtHead'
    BY <1>1, <1>11 DEF MInv, migVars, TxInv, NoMigrationFails, OpenAtHead
  <2>3. QED
    BY <2>1, <2>2 DEF MInv
<1>12. QED
  BY <1>1, <1>3, <1>4, <1>5, <1>6, <1>7, <1>8, <1>9, <1>10, <1>11 DEF MigNext

-----------------------------------------------------------------------------
\* Disk, loop and transaction agree at every step.
THEOREM MigrationsInvariance == MigSpec => []MInv
<1>1. QED
  BY MigrationsStart, MigrationsStep, PTL DEF MigSpec

\* No launch fails, the schema is what the version table says without a gap,
\* and an open database is its build's, whatever was launched before and
\* wherever it ended.
THEOREM MigrationsAreSound == MigSpec => []MigrationsSound
<1>1. MInv => MigrationsSound
  <2>1. SUFFICES ASSUME MInv PROVE SchemaMatchesVersions
    BY DEF MInv, MigrationsSound
  <2>2. PICK n \in Nat : versions = 1..n
    BY <2>1 DEF MInv, DiskInv
  <2>3. \A v \in versions : \A w \in 1..v : w \in versions
    BY <2>2
  <2>4. QED
    BY <2>1, <2>3 DEF MInv, DiskInv, SchemaMatchesVersions
<1>2. QED
  BY <1>1, MigrationsInvariance, PTL

\* Types of the disk, the transaction and the process.
THEOREM TypesOfMigrations == MigSpec => []MigTypeOK
<1>1. MInv => MigTypeOK
  BY DEF MInv
<1>2. QED
  BY <1>1, MigrationsInvariance, PTL
=============================================================================
