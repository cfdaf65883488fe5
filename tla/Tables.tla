------------------------------- MODULE Tables -------------------------------
(***************************************************************************)
(* The tables of mperf's database under the calls the program makes while  *)
(* it records, deletes and measures launches: sessions, samples_wide and   *)
(* samples_long, markers, with the process ending between any two          *)
(* statements and the clean-up of the next open.                           *)
(*                                                                         *)
(* One thread owns the connection and runs one call at a time.  A call in  *)
(* a transaction works on a copy of the tables; COMMIT writes it, an error *)
(* or the end of the process drops it.                                     *)
(***************************************************************************)
EXTENDS Integers, Sequences

CONSTANTS
    MaxRows,    \* bound: session ids
    MaxTime,    \* bound: the clock, in ms
    MaxCalls    \* bound: sample batches

ASSUME TablesAssumption ==
    MaxRows \in Nat /\ MaxTime \in Nat /\ MaxCalls \in Nat

Keys == 1..MaxRows
Modes == {"cold", "hot"}
Unset == -1                 \* SQL NULL
MaxOf(S) == CHOOSE x \in S : \A y \in S : y <= x

VARIABLES
    up,         \* the process runs
    clock,      \* now_ms()
    db,         \* the tables on disk
    work,       \* the copy of the call at work
    call,       \* that call, or Idle
    live,       \* sessions of this process that record
    batches,    \* batches handed to insert_sample_batch so far
    told        \* history: <<s, mode>> of the timings reported as stored

tabVars == <<up, clock, db, work, call, live, batches, told>>

(* A cell of a sample table is <<session, batch it came from, offset from  *)
(* the session's start, metric, what the batch held>>; of a marker and of  *)
(* a measurement nothing matters but that it is there.                     *)
Row(start) == [start |-> start, end |-> Unset, timings |-> {}]
Empty == [rows |-> {}, row |-> [s \in Keys |-> Row(0)], lastId |-> 0,
          wide |-> {}, long |-> {}, markers |-> {}]
Idle == [op |-> "idle"]

(* The samples of batch n of session s: two labels, which take a row of    *)
(* the long table each, and maybe a column of the wide table.              *)
BatchOf(s, n, t, mix) ==
    {<<s, n, t, "core 0", mix>>, <<s, n, t, "core 1", mix>>}
    \union (IF mix = "cores" THEN {} ELSE {<<s, n, t, "cpu_total_pct", mix>>})

SamplesOf(d, s) == {c \in d.wide \union d.long : c[1] = s}

TabInit ==
    /\ up = TRUE /\ clock = 0 /\ db = Empty /\ work = Empty /\ call = Idle
    /\ live = {} /\ batches = 0 /\ told = {}

Begins(c) ==
    /\ up /\ call = Idle
    /\ call' = c /\ work' = db

(* The call at work returns; what the transaction did is on disk. *)
Commits ==
    /\ db' = work /\ work' = Empty /\ call' = Idle

(* An error: the transaction is dropped. *)
Fails ==
    /\ call' = Idle /\ work' = Empty
    /\ UNCHANGED db

Tick ==
    /\ clock < MaxTime
    /\ clock' = clock + 1
    /\ UNCHANGED <<up, db, work, call, live, batches, told>>

-----------------------------------------------------------------------------
(* Calls of one statement. *)

CreateRow ==
    LET s == db.lastId + 1 IN
    /\ up /\ call = Idle /\ s \in Keys
    /\ db' = [db EXCEPT !.rows = @ \union {s}, !.row[s] = Row(clock),
                        !.lastId = s]
    /\ live' = live \union {s}
    /\ UNCHANGED <<up, clock, work, call, batches, told>>

(* finish_session, by the writer and again by Session::stop: WHERE id = ?  *)
(* AND wall_end_ms IS NULL.                                                *)
FinishRow(s) ==
    /\ up /\ call = Idle
    /\ db' = IF s \in db.rows /\ db.row[s].end = Unset
             THEN [db EXCEPT !.row[s].end = clock] ELSE db
    /\ live' = live \ {s}
    /\ UNCHANGED <<up, clock, work, call, batches, told>>

(* insert_marker; the foreign key refuses a session that is gone. *)
InsertMarker(s) ==
    /\ up /\ call = Idle
    /\ db' = IF s \in db.rows
             THEN [db EXCEPT !.markers = @ \union {<<s>>}] ELSE db
    /\ UNCHANGED <<up, clock, work, call, live, batches, told>>

-----------------------------------------------------------------------------
(* insert_sample_batch: a transaction of one statement per cell.  The      *)
(* batch was taken from the writer before, so a failed one is lost.        *)

SendBatch(s) ==
    /\ s \in live /\ batches < MaxCalls
    /\ batches' = batches + 1
    /\ \E mix \in {"cores", "both"} :
          Begins([op |-> "batch", s |-> s,
                  todo |-> BatchOf(s, batches', clock - db.row[s].start, mix)])
    /\ UNCHANGED <<up, clock, db, live, told>>

(* The wide table is keyed by session and time: a column written twice     *)
(* keeps the later value.                                                  *)
Inserted(d, c) ==
    IF c[4] = "cpu_total_pct"
    THEN [d EXCEPT !.wide = {w \in @ : <<w[1], w[3]>> # <<c[1], c[3]>>} \union {c}]
    ELSE [d EXCEPT !.long = @ \union {c}]

(* Mistake: every statement commits by itself. *)
InsertCellAtOnce ==
    /\ up /\ call.op = "batch" /\ call.todo # {}
    /\ IF call.s \notin work.rows
       THEN Fails
       ELSE \E c \in call.todo :
              /\ call' = [call EXCEPT !.todo = @ \ {c}]
              /\ work' = Inserted(work, c)
              /\ db' = work'
    /\ UNCHANGED <<up, clock, live, batches, told>>

InsertCell ==
    /\ up /\ call.op = "batch" /\ call.todo # {}
    /\ IF call.s \notin work.rows
       THEN Fails
       ELSE \E c \in call.todo :
              /\ call' = [call EXCEPT !.todo = @ \ {c}]
              /\ work' = Inserted(work, c)
              /\ UNCHANGED db
    /\ UNCHANGED <<up, clock, live, batches, told>>

CommitBatch ==
    /\ up /\ call.op = "batch" /\ call.todo = {}
    /\ Commits
    /\ UNCHANGED <<up, clock, live, batches, told>>

-----------------------------------------------------------------------------
(* delete_session: the children, then the row, in one transaction. *)

SendDelete(s) ==
    /\ s \in db.rows
    /\ Begins([op |-> "delete", s |-> s, todo |-> <<"long", "wide", "markers">>])
    /\ UNCHANGED <<up, clock, db, live, batches, told>>

DeleteStatement ==
    /\ up /\ call.op = "delete" /\ call.todo # <<>>
    /\ call' = [call EXCEPT !.todo = Tail(@)]
    /\ work' = [work EXCEPT ![Head(call.todo)] = {c \in @ : c[1] # call.s}]
    /\ UNCHANGED <<up, clock, db, live, batches, told>>

(* The row goes last; ON DELETE CASCADE would take what is left. *)
CommitDelete ==
    /\ up /\ call.op = "delete" /\ call.todo = <<>>
    /\ db' = [work EXCEPT !.rows = @ \ {call.s},
                          !.row[call.s] = Row(0)]
    /\ call' = Idle /\ work' = Empty
    /\ told' = {x \in told : x[1] # call.s}
    /\ UNCHANGED <<up, clock, live, batches>>

-----------------------------------------------------------------------------
(* record_startup_timing, at the end of start_recording and of             *)
(* measure_startup: read, change one mode, write; an error if the row is   *)
(* gone.                                                                   *)

SendTiming(s, m) ==
    /\ s \in Keys /\ s <= db.lastId
    /\ Begins([op |-> "read", s |-> s, mode |-> m])
    /\ UNCHANGED <<up, clock, db, live, batches, told>>

ReadTimings ==
    /\ up /\ call.op = "read"
    /\ call' = [op |-> "write", s |-> call.s, mode |-> call.mode,
                read |-> IF call.s \in work.rows THEN work.row[call.s].timings
                         ELSE {}]
    /\ UNCHANGED <<up, clock, db, work, live, batches, told>>

WriteTimings ==
    /\ up /\ call.op = "write"
    /\ IF call.s \notin work.rows
       THEN Fails /\ UNCHANGED told
       ELSE /\ db' = [work EXCEPT !.row[call.s].timings =
                        call.read \union {call.mode}]
            /\ call' = Idle /\ work' = Empty
            /\ told' = told \union {<<call.s, call.mode>>}
    /\ UNCHANGED <<up, clock, live, batches>>

-----------------------------------------------------------------------------
(* The process ends, and the next one opens the database. *)

ProcessDies ==
    /\ up /\ up' = FALSE
    /\ call' = Idle /\ work' = Empty /\ live' = {}
    /\ UNCHANGED <<clock, db, batches, told>>

(* The offset of the last sample stored for a session, in either table. *)
LastSample(d, s) ==
    IF SamplesOf(d, s) = {} THEN 0
    ELSE MaxOf({c[3] : c \in SamplesOf(d, s)})

(* Storage::open's clean-up: sessions left open end at their last sample. *)
OpenAgain ==
    /\ ~up /\ up' = TRUE
    /\ db' = [db EXCEPT !.row = [s \in Keys |->
                IF s \in db.rows /\ db.row[s].end = Unset
                THEN [db.row[s] EXCEPT !.end = db.row[s].start + LastSample(db, s)]
                ELSE db.row[s]]]
    /\ UNCHANGED <<clock, work, call, live, batches, told>>

TabNext ==
    \/ Tick \/ CreateRow
    \/ InsertCell \/ CommitBatch \/ DeleteStatement \/ CommitDelete
    \/ ReadTimings \/ WriteTimings \/ ProcessDies \/ OpenAgain
    \/ \E s \in Keys :
          \/ FinishRow(s) \/ InsertMarker(s) \/ SendBatch(s) \/ SendDelete(s)
          \/ \E m \in Modes : SendTiming(s, m)

TabSpec == TabInit /\ [][TabNext]_tabVars

-----------------------------------------------------------------------------
TabTypeOK ==
    /\ up \in BOOLEAN /\ clock \in 0..MaxTime
    /\ db.rows \subseteq 1..db.lastId /\ db.lastId \in 0..MaxRows
    /\ \A s \in Keys :
          /\ db.row[s].start \in 0..MaxTime
          /\ db.row[s].end \in 0..MaxTime \union {Unset}
    /\ call.op \in {"idle", "batch", "delete", "read", "write"}
    /\ live \subseteq Keys
    /\ batches \in 0..MaxCalls /\ told \subseteq Keys \X Modes

(* Every sample and marker on disk belongs to a session that is there.     *)
(* (lib.rs:198-246, 385-422, schema.rs:75-131.)                            *)
NoOrphanData ==
    \A c \in db.wide \union db.long \union db.markers : c[1] \in db.rows

WholeBatches(wide, long) ==
    \A c \in wide \union long :
        /\ \A label \in {"core 0", "core 1"} :
              \E d \in long : d[1] = c[1] /\ d[2] = c[2] /\ d[4] = label
        /\ c[5] = "both" => \E w \in wide : w[1] = c[1] /\ w[3] = c[3] /\ w[2] >= c[2]

(* A batch is stored whole or not at all, whatever row it fails at and     *)
(* whenever the process ends; where two batches meet in a cell of the wide *)
(* table the later one stays.  (lib.rs:198-246.)                           *)
BatchesWhole == WholeBatches(db.wide, db.long)

(* A cold and a hot measurement that were both reported as stored are both *)
(* in the row.  (lib.rs:115-119.)                                          *)
TimingsKept ==
    \A x \in told : x[1] \in db.rows => x[2] \in db.row[x[1]].timings

(* No sample of a closed session lies past its end, whoever stamped it and *)
(* however the process ended.  (lib.rs:46-62, 184-196.)                    *)
SamplesWithinSession ==
    \A s \in db.rows : db.row[s].end # Unset =>
        \A c \in SamplesOf(db, s) : db.row[s].start + c[3] <= db.row[s].end

(* An end once stamped is never moved.  (lib.rs:176-183.)                  *)
EndKept ==
    [][\A s \in db.rows \intersect db'.rows :
          db.row[s].end # Unset => db'.row[s].end = db.row[s].end]_tabVars

\* The tables hold what was recorded and nothing else: no data of a deleted
\* session, whole batches, every timing, samples within their session, and an
\* end that stands (storage/src/lib.rs:53-420).
TablesSound ==
    /\ [](NoOrphanData /\ BatchesWhole /\ TimingsKept /\ SamplesWithinSession)
    /\ EndKept
=============================================================================
