--------------------------- MODULE PipelineProofs ---------------------------
(***************************************************************************)
(* Theorems of Pipeline for every Cap, BatchMax and number of samples.     *)
(* EverySampleAccounted is not inductive by itself: it needs that only a   *)
(* running insert holds a drained batch, that the batch is empty meanwhile *)
(* and that a writer past its loop has nothing left to receive.  PInv      *)
(* (PipelineInv) adds these.                                               *)
(***************************************************************************)
EXTENDS PipelineInv, FiniteSetTheorems, TLAPS

USE DEF channel, writerVars, pumpVars, vars, Samples

LEMMA InitInv == Init => PInv
  BY PipelineAssumption
  DEF Init, PInv, TypeOK, CursorInv, EverySampleAccounted, WriterInv,
      Unread, InHand, Decided

-----------------------------------------------------------------------------
(***************************************************************************)
(* One lemma per action.                                                   *)
(***************************************************************************)
LEMMA SendKeeps == ASSUME PInv, Send PROVE PInv'
  BY PipelineAssumption
  DEF Send, PInv, TypeOK, CursorInv, EverySampleAccounted, WriterInv,
      Unread, InHand, Decided

LEMMA CloseKeeps == ASSUME PInv, Close PROVE PInv'
  BY PipelineAssumption
  DEF Close, PInv, TypeOK, CursorInv, EverySampleAccounted, WriterInv,
      Unread, InHand, Decided

\* Where the oldest value kept can be.
LEMMA OldestKept ==
    ASSUME TypeOK
    PROVE  Oldest \in 1..(sent + 1)
  BY PipelineAssumption DEF Oldest, TypeOK

LEMMA ReceiveKeeps == ASSUME PInv, WriterReceives PROVE PInv'
<1>1. /\ writer = "receiving" /\ cursor' = cursor + 1 /\ cursor <= sent
      /\ UNCHANGED <<channel, stored, lagged, failed, pumpVars>>
  BY DEF WriterReceives, CanReceive
<1>2. \/ /\ writing' = batch \union {cursor} /\ batch' = {}
         /\ writer' = "writing"
      \/ batch' = batch \union {cursor} /\ UNCHANGED <<writing, writer>>
  BY DEF WriterReceives, StartWrite
<1>3. writing = {}
  BY <1>1 DEF PInv, WriterInv
<1>4. cursor \in Samples /\ cursor \in Unread
  BY PipelineAssumption, <1>1 DEF PInv, TypeOK, Unread
<1>5. Unread' = Unread \ {cursor}
  BY PipelineAssumption, <1>1 DEF PInv, TypeOK, Unread
<1>6. InHand' = InHand \union {cursor} /\ Decided' = Decided
  BY <1>1, <1>2, <1>3 DEF InHand, Decided
<1>7. TypeOK' /\ CursorInv' /\ WriterInv'
  <2>1. cursor' \in 1..(MaxSamples + 1) /\ CursorInv'
    BY PipelineAssumption, <1>1 DEF PInv, TypeOK, CursorInv
  <2>2. /\ batch' \in SUBSET Samples /\ writing' \in SUBSET Samples
        /\ writer' \in {"receiving", "writing"}
    BY <1>1, <1>2, <1>3, <1>4 DEF PInv, TypeOK
  <2>3. TypeOK'
    BY <1>1, <2>1, <2>2 DEF PInv, TypeOK
  <2>4. WriterInv'
    BY <1>1, <1>2, <1>3 DEF WriterInv
  <2>5. QED
    BY <2>1, <2>3, <2>4
<1>8. EverySampleAccounted'
  <2>1. /\ Samples \cap 1..sent' = Unread' \union InHand' \union Decided'
        /\ Unread' \cap (InHand' \union Decided') = {}
        /\ InHand' \cap Decided' = {}
    BY <1>1, <1>4, <1>5, <1>6 DEF PInv, EverySampleAccounted
  <2>2. batch' \cap writing' = {}
    BY <1>2, <1>3
  <2>3. QED
    BY <1>1, <2>1, <2>2 DEF PInv, EverySampleAccounted
<1>9. QED
  BY <1>7, <1>8 DEF PInv

LEMMA LagKeeps == ASSUME PInv, WriterLags PROVE PInv'
<1>1. /\ writer = "receiving" /\ cursor < Oldest
      /\ lagged' = lagged \union cursor..(Oldest - 1)
      /\ cursor' = Oldest
      /\ UNCHANGED <<channel, batch, writing, stored, failed, writer, pumpVars>>
  BY DEF WriterLags, Behind
<1>2. Oldest \in 1..(sent + 1)
  BY OldestKept DEF PInv
<1> DEFINE missed == cursor..(Oldest - 1)
<1>3. missed \subseteq Samples /\ missed \subseteq Unread
  BY PipelineAssumption, <1>1, <1>2 DEF PInv, TypeOK, Unread
<1>4. Unread' = Unread \ missed
  BY PipelineAssumption, <1>1, <1>2 DEF PInv, TypeOK, Unread
<1>5. InHand' = InHand /\ Decided' = Decided \union missed
  BY <1>1 DEF InHand, Decided
<1>6. TypeOK' /\ CursorInv' /\ WriterInv'
  BY PipelineAssumption, <1>1, <1>2, <1>3 DEF PInv, TypeOK, CursorInv, WriterInv
<1>7. EverySampleAccounted'
  <2>0. lagged' = lagged \union missed
    BY <1>1
  <2> HIDE DEF missed
  <2>1. /\ Samples \cap 1..sent' = Unread' \union InHand' \union Decided'
        /\ Unread' \cap (InHand' \union Decided') = {}
        /\ InHand' \cap Decided' = {}
    BY <1>1, <1>3, <1>4, <1>5 DEF PInv, EverySampleAccounted
  <2>2. missed \cap (stored \union failed) = {}
    BY <1>3 DEF PInv, EverySampleAccounted, Decided
  <2>3. QED
    BY <1>1, <2>0, <2>1, <2>2 DEF PInv, EverySampleAccounted
<1>8. QED
  BY <1>6, <1>7 DEF PInv

LEMMA TickKeeps == ASSUME PInv, WriterTicks PROVE PInv'
  BY PipelineAssumption DEF WriterTicks, StartWrite, PInv, TypeOK, CursorInv,
      EverySampleAccounted, WriterInv, Unread, InHand, Decided

LEMMA ClosedKeeps == ASSUME PInv, WriterSeesClosed PROVE PInv'
  BY PipelineAssumption DEF WriterSeesClosed, Drained, StartWrite, PInv, TypeOK, CursorInv,
      EverySampleAccounted, WriterInv, Unread, InHand, Decided

LEMMA WriteKeeps == ASSUME PInv, WriteEnds PROVE PInv'
  BY PipelineAssumption DEF WriteEnds, PInv, TypeOK, CursorInv,
      EverySampleAccounted, WriterInv, Unread, InHand, Decided

LEMMA FinishKeeps == ASSUME PInv, WriterFinishes PROVE PInv'
  BY PipelineAssumption DEF WriterFinishes, PInv, TypeOK, CursorInv,
      EverySampleAccounted, WriterInv, Unread, InHand, Decided

LEMMA PumpKeeps == ASSUME PInv, PumpStep PROVE PInv'
<1>1. Oldest \in 1..(sent + 1)
  BY OldestKept DEF PInv
<1>2. UNCHANGED <<channel, writerVars>>
  BY DEF PumpStep, PumpReceives, PumpLags, PumpSeesClosed
<1>3. shown' \in 1..(MaxSamples + 1) /\ pump' \in {"receiving", "done"}
  BY PipelineAssumption, <1>1
  DEF PumpStep, PumpReceives, PumpLags, PumpSeesClosed, CanReceive,
      PInv, TypeOK
<1>4. QED
  BY <1>2, <1>3 DEF PInv, TypeOK, CursorInv, EverySampleAccounted, WriterInv,
      Unread, InHand, Decided

LEMMA NextKeeps == ASSUME PInv, [Next]_vars PROVE PInv'
<1>1. CASE Send
  BY <1>1, SendKeeps
<1>2. CASE Close
  BY <1>2, CloseKeeps
<1>3. CASE WriterStep
  BY <1>3, ReceiveKeeps, LagKeeps, TickKeeps, ClosedKeeps, WriteKeeps,
     FinishKeeps DEF WriterStep
<1>4. CASE PumpStep
  BY <1>4, PumpKeeps
<1>5. CASE UNCHANGED vars
  BY <1>5 DEF PInv, TypeOK, CursorInv, EverySampleAccounted, WriterInv,
      Unread, InHand, Decided
<1>6. QED
  BY <1>1, <1>2, <1>3, <1>4, <1>5 DEF Next

\* The inductive invariant of the pipeline.
THEOREM PipelineInvariance == Spec => []PInv
<1>1. Init => PInv
  BY InitInv
<1>2. PInv /\ [Next]_vars => PInv'
  BY NextKeeps
<1>3. QED
  BY <1>1, <1>2, PTL DEF Spec

-----------------------------------------------------------------------------
(***************************************************************************)
(* What follows from it.                                                   *)
(***************************************************************************)

\* No sample is forgotten or counted twice on its way through the writer.
THEOREM NoSampleForgotten == Spec => []EverySampleAccounted
<1>1. PInv => EverySampleAccounted
  BY DEF PInv
<1>2. QED
  BY <1>1, PipelineInvariance, PTL

\* The writer never leaves its loop with a sample undecided.
THEOREM LastBatchWritten == Spec => []NothingLeftAtEnd
<1>1. PInv => NothingLeftAtEnd
  BY DEF PInv, TypeOK, NothingLeftAtEnd, EverySampleAccounted, WriterInv,
     Unread, InHand
<1>2. QED
  BY <1>1, PipelineInvariance, PTL

\* The batch stays below WRITE_BATCH_MAX, whatever the write outcomes.
THEOREM BatchStaysBounded == Spec => []BatchBounded
<1>1. Init => BatchBounded
  BY FS_EmptySet, PipelineAssumption DEF Init, BatchBounded
<1>2. PInv /\ BatchBounded /\ [Next]_vars => BatchBounded'
  <2> SUFFICES ASSUME PInv, BatchBounded, [Next]_vars PROVE BatchBounded'
    OBVIOUS
  <2>1. CASE batch' = {}
    BY <2>1, FS_EmptySet, PipelineAssumption DEF BatchBounded
  <2>2. CASE UNCHANGED batch
    BY <2>2 DEF BatchBounded
  <2>3. CASE WriterReceives /\ ~(batch' = {})
    <3> DEFINE full == batch \union {cursor}
    <3>1. batch' = full /\ ~(Cardinality(full) >= BatchMax)
      BY <2>3 DEF WriterReceives, StartWrite
    <3>2. full \subseteq Samples
      BY PipelineAssumption, <2>3 DEF WriterReceives, CanReceive, PInv, TypeOK
    <3>3. IsFiniteSet(full)
      <4>1. IsFiniteSet(Samples)
        BY FS_Interval, PipelineAssumption
      <4>2. QED
        BY <4>1, <3>2, FS_Subset
    <3>4. Cardinality(full) \in Nat
      BY <3>3, FS_CardinalityType
    <3>5. QED
      BY <3>1, <3>4, PipelineAssumption DEF BatchBounded
  <2>4. QED
    BY <2>1, <2>2, <2>3 DEF Next, Send, Close, WriterStep, WriterLags,
       WriterTicks, WriterSeesClosed, WriteEnds, WriterFinishes, StartWrite,
       PumpStep, PumpReceives, PumpLags, PumpSeesClosed
<1>3. QED
  BY <1>1, <1>2, PipelineInvariance, PTL DEF Spec

-----------------------------------------------------------------------------
(***************************************************************************)
(* Pipeline implements SampleFate.                                         *)
(***************************************************************************)
fateNow == [i \in Samples |-> FateOf(i)]

LEMMA ReceiveKeepsFates ==
    ASSUME UNCHANGED <<sent, stored, lagged, failed>>
    PROVE  fateNow' = fateNow
  BY DEF fateNow, FateOf

LEMMA SendIsSend == ASSUME PInv, Send PROVE Fates!Next
<1>1. sent + 1 \in Samples /\ sent' = sent + 1
      /\ UNCHANGED <<stored, lagged, failed>>
  BY PipelineAssumption DEF Send, PInv, TypeOK
<1>2. /\ sent + 1 \notin stored \union lagged \union failed
  BY PipelineAssumption DEF PInv, TypeOK, EverySampleAccounted, Decided
<1>3. Fates!Send(sent + 1)
  <2>1. /\ FateOf(sent + 1) = "unsent"
        /\ \A j \in Samples : j < sent + 1 => FateOf(j) # "unsent"
    BY <1>1 DEF FateOf, PInv, TypeOK
  <2>2. \A i \in Samples :
          FateOf(i)' = IF i = sent + 1 THEN "pending" ELSE FateOf(i)
    BY <1>1, <1>2 DEF FateOf, PInv, TypeOK
  <2>3. QED
    BY <1>1, <2>1, <2>2 DEF Fates!Send, Fates!Samples
<1>4. QED
  BY <1>1, <1>3 DEF Fates!Next, Fates!Samples

LEMMA LagLoses == ASSUME PInv, WriterLags PROVE Fates!Next
<1> DEFINE missed == cursor..(Oldest - 1)
<1>1. /\ cursor < Oldest /\ lagged' = lagged \union missed
      /\ UNCHANGED <<sent, stored, failed>>
  BY DEF WriterLags, Behind
<1>2. Oldest \in 1..(sent + 1)
  BY OldestKept DEF PInv
<1>3. missed \subseteq Samples /\ missed \subseteq Unread
  BY PipelineAssumption, <1>1, <1>2 DEF PInv, TypeOK, Unread
<1>4. \A i \in missed : ~(i > sent)
  BY <1>1, <1>2 DEF PInv, TypeOK
<1> HIDE DEF missed
<1>5. missed \cap (stored \union lagged \union failed) = {}
  BY <1>3 DEF PInv, EverySampleAccounted, Decided
<1>6. Fates!Lose(missed)
  <2>1. \A i \in missed : FateOf(i) = "pending"
    BY <1>1, <1>3, <1>4, <1>5 DEF FateOf
  <2>2. \A i \in Samples :
          FateOf(i)' = IF i \in missed THEN "lost" ELSE FateOf(i)
    BY <1>1, <1>3, <1>4, <1>5 DEF FateOf
  <2>3. QED
    BY <2>1, <2>2, <1>3 DEF Fates!Lose, Fates!Samples
<1>7. QED
  BY <1>3, <1>6 DEF Fates!Next, Fates!Samples

LEMMA WriteDecides == ASSUME PInv, WriteEnds PROVE Fates!Next
<1>1. /\ writing \subseteq Samples
      /\ writing \cap (stored \union lagged \union failed) = {}
  BY DEF PInv, TypeOK, EverySampleAccounted, InHand, Decided
<1>2. \A i \in writing : ~(i > sent) /\ i < cursor
  BY DEF PInv, TypeOK, CursorInv, EverySampleAccounted, Unread, InHand
<1>3. CASE stored' = stored \union writing /\ UNCHANGED <<sent, lagged, failed>>
  <2>1. \A i \in writing, j \in Samples \ writing :
          j < i => ~(j > sent) /\ j \in stored \union lagged \union failed
    BY <1>2 DEF WriteEnds, PInv, TypeOK, CursorInv, WriterInv,
       EverySampleAccounted, Unread, InHand, Decided
  <2>2. Fates!Store(writing)
    <3>1. \A i \in writing : FateOf(i) = "pending"
      BY <1>1, <1>2 DEF FateOf
    <3>2. \A i \in writing, j \in Samples \ writing :
            j < i => FateOf(j) \in {"stored", "lost"}
      BY <2>1 DEF FateOf
    <3>3. \A i \in Samples :
            FateOf(i)' = IF i \in writing THEN "stored" ELSE FateOf(i)
      BY <1>1, <1>2, <1>3 DEF FateOf
    <3>4. QED
      BY <1>1, <3>1, <3>2, <3>3 DEF Fates!Store, Fates!Samples
  <2>3. QED
    BY <1>1, <2>2 DEF Fates!Next, Fates!Samples
<1>4. CASE failed' = failed \union writing /\ UNCHANGED <<sent, stored, lagged>>
  <2>1. Fates!Lose(writing)
    <3>1. \A i \in writing : FateOf(i) = "pending"
      BY <1>1, <1>2, <1>4 DEF FateOf
    <3>2. \A i \in Samples :
            FateOf(i)' = IF i \in writing THEN "lost" ELSE FateOf(i)
      BY <1>1, <1>2, <1>4 DEF FateOf
    <3>3. QED
      BY <3>1, <3>2, <1>1 DEF Fates!Lose, Fates!Samples
  <2>2. QED
    BY <1>1, <2>1 DEF Fates!Next, Fates!Samples
<1>5. QED
  BY <1>3, <1>4 DEF WriteEnds

\* Every step of the pipeline decides fates as SampleFate allows: once, and
\* stored samples in the order they were sent.
THEOREM ImplementsSampleFate == Spec => FateSpec
<1>1. Init => Fates!Init
  BY PipelineAssumption DEF Init, Fates!Init, Fates!Samples, FateOf
<1>2. PInv /\ [Next]_vars => [Fates!Next]_fateNow
  <2> SUFFICES ASSUME PInv, [Next]_vars
               PROVE  Fates!Next \/ UNCHANGED fateNow
    OBVIOUS
  <2>1. CASE Send
    BY <2>1, SendIsSend
  <2>2. CASE WriterLags
    BY <2>2, LagLoses
  <2>3. CASE WriteEnds
    BY <2>3, WriteDecides
  <2>4. CASE UNCHANGED <<sent, stored, lagged, failed>>
    BY <2>4, ReceiveKeepsFates
  <2>5. QED
    BY <2>1, <2>2, <2>3, <2>4 DEF Next, Close, WriterStep, WriterReceives,
       WriterTicks, WriterSeesClosed, WriterFinishes,
       PumpStep, PumpReceives, PumpLags, PumpSeesClosed
<1>3. QED
  BY <1>1, <1>2, PipelineInvariance, PTL
  DEF Spec, FateSpec, Fates!Spec, fateNow
=============================================================================
