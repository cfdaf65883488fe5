------------------------------ MODULE Pipeline ------------------------------
(***************************************************************************)
(* The way of a sample from the scheduler to the database and to the UI:   *)
(* the broadcast channel between the scheduler task (crates/core) and its  *)
(* two receivers in session.rs, the writer with its batch and flush tick,  *)
(* and the UI pump.  Samples are the numbers in which they are sent.       *)
(*                                                                         *)
(* tokio's broadcast channel never makes a sender wait: it keeps the last  *)
(* Cap values, and a receiver that has fallen further behind is told       *)
(* Lagged once and continues with the oldest value kept.                   *)
(***************************************************************************)
EXTENDS Naturals, FiniteSets

CONSTANTS
    Cap,              \* LIVE_BROADCAST_CAP
    BatchMax,         \* WRITE_BATCH_MAX
    MaxSamples,       \* bound: samples the samplers produce
    WriteOutcomes     \* how insert_sample_batch may end

ASSUME PipelineAssumption ==
    /\ Cap \in Nat \ {0}
    /\ BatchMax \in Nat \ {0}
    /\ MaxSamples \in Nat
    /\ WriteOutcomes \subseteq {"ok", "error"}

Samples == 1..MaxSamples

VARIABLES
    sent,          \* samples broadcast so far
    open,          \* some sender of the channel is left
    cursor,        \* the writer's position: the next sample it will receive
    batch,         \* the writer's batch
    writing,       \* the drained batch an insert_sample_batch call has
    stored,        \* samples in the database
    lagged,        \* samples the writer missed by lagging
    failed,        \* samples drained into an insert that failed
    writer,        \* the writer task
    shown,         \* the pump's position
    pump           \* the UI pump task

channel == <<sent, open>>
writerVars == <<cursor, batch, writing, stored, lagged, failed, writer>>
pumpVars == <<shown, pump>>
vars == <<channel, writerVars, pumpVars>>

TypeOK ==
    /\ sent \in 0..MaxSamples
    /\ open \in BOOLEAN
    /\ cursor \in 1..(MaxSamples + 1)
    /\ batch \in SUBSET Samples
    /\ writing \in SUBSET Samples
    /\ stored \in SUBSET Samples
    /\ lagged \in SUBSET Samples
    /\ failed \in SUBSET Samples
    /\ writer \in {"receiving", "writing", "lastWrite", "finishing", "done"}
    /\ shown \in 1..(MaxSamples + 1)
    /\ pump \in {"receiving", "done"}

Init ==
    /\ sent = 0
    /\ open = TRUE
    /\ cursor = 1
    /\ batch = {}
    /\ writing = {}
    /\ stored = {}
    /\ lagged = {}
    /\ failed = {}
    /\ writer = "receiving"
    /\ shown = 1
    /\ pump = "receiving"

-----------------------------------------------------------------------------
(***************************************************************************)
(* The scheduler                                                           *)
(***************************************************************************)

\* send returns at once, whatever the receivers do.
Send ==
    /\ open
    /\ sent < MaxSamples
    /\ sent' = sent + 1
    /\ UNCHANGED <<open, writerVars, pumpVars>>

\* The task has exited and Session::stop has dropped the handle.
Close ==
    /\ open
    /\ open' = FALSE
    /\ UNCHANGED <<sent, writerVars, pumpVars>>

-----------------------------------------------------------------------------
(***************************************************************************)
(* Receiving from the channel                                              *)
(***************************************************************************)
Oldest == IF sent > Cap THEN sent - Cap + 1 ELSE 1

CanReceive(pos) == pos >= Oldest /\ pos <= sent
Behind(pos) == pos < Oldest
Drained(pos) == pos > sent /\ ~open

-----------------------------------------------------------------------------
(***************************************************************************)
(* The writer task.  While it awaits an insert it receives nothing.        *)
(***************************************************************************)

\* Mistake: the batch is copied, not drained.
StartWriteOfCopy(full, next) ==
    /\ writing' = full
    /\ batch' = full
    /\ writer' = next

\* drain_and_write of the whole batch
StartWrite(full, next) ==
    /\ writing' = full
    /\ batch' = {}
    /\ writer' = next

WriterReceives ==
    /\ writer = "receiving"
    /\ CanReceive(cursor)
    /\ cursor' = cursor + 1
    /\ LET full == batch \union {cursor}
       IN  IF Cardinality(full) >= BatchMax
           THEN StartWrite(full, "writing")
           ELSE batch' = full /\ UNCHANGED <<writing, writer>>
    /\ UNCHANGED <<channel, stored, lagged, failed, pumpVars>>

WriterLags ==
    /\ writer = "receiving"
    /\ Behind(cursor)
    /\ lagged' = lagged \union cursor..(Oldest - 1)
    /\ cursor' = Oldest
    /\ UNCHANGED <<channel, batch, writing, stored, failed, writer, pumpVars>>

\* Mistake: the tick, too, waits for a full batch.
WriterTicksWhenFull ==
    /\ writer = "receiving"
    /\ Cardinality(batch) >= BatchMax
    /\ StartWrite(batch, "writing")
    /\ UNCHANGED <<channel, cursor, stored, lagged, failed, pumpVars>>

WriterTicks ==
    /\ writer = "receiving"
    /\ batch # {}
    /\ StartWrite(batch, "writing")
    /\ UNCHANGED <<channel, cursor, stored, lagged, failed, pumpVars>>

\* recv returns Closed: leave the loop, with a last write if there is one.
WriterSeesClosed ==
    /\ writer = "receiving"
    /\ Drained(cursor)
    /\ StartWrite(batch, IF batch = {} THEN "finishing" ELSE "lastWrite")
    /\ UNCHANGED <<channel, cursor, stored, lagged, failed, pumpVars>>

\* Mistake: row by row, with no transaction.
WriteEndsHalfway ==
    /\ writer \in {"writing", "lastWrite"}
    /\ \/ /\ "ok" \in WriteOutcomes
          /\ stored' = stored \union writing
          /\ UNCHANGED failed
       \/ /\ "error" \in WriteOutcomes
          /\ \E some \in SUBSET writing :
               /\ stored' = stored \union some
               /\ failed' = failed \union (writing \ some)
    /\ writing' = {}
    /\ writer' = IF writer = "writing" THEN "receiving" ELSE "finishing"
    /\ UNCHANGED <<channel, cursor, batch, lagged, pumpVars>>

\* The insert is one transaction: all of the batch or nothing.  An error is
\* only logged, and the batch has been drained already.
WriteEnds ==
    /\ writer \in {"writing", "lastWrite"}
    /\ \/ /\ "ok" \in WriteOutcomes
          /\ stored' = stored \union writing
          /\ UNCHANGED failed
       \/ /\ "error" \in WriteOutcomes
          /\ failed' = failed \union writing
          /\ UNCHANGED stored
    /\ writing' = {}
    /\ writer' = IF writer = "writing" THEN "receiving" ELSE "finishing"
    /\ UNCHANGED <<channel, cursor, batch, lagged, pumpVars>>

\* finish_session; the row itself is Recording's subject.
WriterFinishes ==
    /\ writer = "finishing"
    /\ writer' = "done"
    /\ UNCHANGED <<channel, cursor, batch, writing, stored, lagged, failed,
                   pumpVars>>

-----------------------------------------------------------------------------
(***************************************************************************)
(* The UI pump task                                                        *)
(***************************************************************************)

\* Forward one sample; a failed emit ends the task.
PumpReceives ==
    /\ pump = "receiving"
    /\ CanReceive(shown)
    /\ shown' = shown + 1
    /\ pump' \in {"receiving", "done"}
    /\ UNCHANGED <<channel, writerVars>>

PumpLags ==
    /\ pump = "receiving"
    /\ Behind(shown)
    /\ shown' = Oldest
    /\ UNCHANGED <<channel, writerVars, pump>>

PumpSeesClosed ==
    /\ pump = "receiving"
    /\ Drained(shown)
    /\ pump' = "done"
    /\ UNCHANGED <<channel, writerVars, shown>>

-----------------------------------------------------------------------------
WriterStep ==
    \/ WriterReceives \/ WriterLags \/ WriterTicks
    \/ WriterSeesClosed \/ WriteEnds \/ WriterFinishes

PumpStep == PumpReceives \/ PumpLags \/ PumpSeesClosed

Next == Send \/ Close \/ WriterStep \/ PumpStep

Spec == Init /\ [][Next]_vars

(***************************************************************************)
(* The runtime runs the two tasks and the flush interval keeps ticking.    *)
(* Samplers may stop at any time and nobody has to stop a session.         *)
(***************************************************************************)
Fairness ==
    /\ WF_vars(WriterReceives \/ WriterLags)
    /\ WF_vars(WriterTicks)
    /\ WF_vars(WriterSeesClosed)
    /\ WF_vars(WriteEnds)
    /\ WF_vars(WriterFinishes)
    /\ WF_vars(PumpStep)

FairSpec == Spec /\ Fairness

-----------------------------------------------------------------------------
(***************************************************************************)
(* Properties                                                              *)
(***************************************************************************)
Decided == stored \union lagged \union failed
InHand == batch \union writing
Unread == cursor..sent

\* No sample is in two places at once and none is forgotten: what was sent
\* is unread, in the writer's hands, stored, missed by a lag or in a failed
\* insert (session.rs:443-462, 613-618).
EverySampleAccounted ==
    /\ Samples \cap 1..sent = Unread \union InHand \union Decided
    /\ Unread \cap (InHand \union Decided) = {}
    /\ InHand \cap Decided = {} /\ batch \cap writing = {}
    /\ stored \cap (lagged \union failed) = {} /\ lagged \cap failed = {}

\* When the writer leaves its loop it has decided on every sample sent: the
\* last partial batch is not forgotten (session.rs:459-462).
NothingLeftAtEnd ==
    writer \in {"finishing", "done"} => Samples \cap 1..sent = Decided

\* A batch in memory stays below WRITE_BATCH_MAX, however slow the writes.
BatchBounded == Cardinality(batch) < BatchMax

\* As a whole the pipeline decides the fate of each sample once and stores
\* samples in the order they were sent.
FateOf(i) ==
    IF i > sent THEN "unsent"
    ELSE IF i \in stored THEN "stored"
    ELSE IF i \in lagged \union failed THEN "lost"
    ELSE "pending"
Fates == INSTANCE SampleFate WITH fate <- [i \in Samples |-> FateOf(i)]
FateSpec == Fates!Spec

\* Every sample is decided without waiting for the session to end: the flush
\* tick gets a lonely sample out of the batch.
EverySampleDecided ==
    \A i \in Samples : i <= sent ~> i \in Decided
=============================================================================
