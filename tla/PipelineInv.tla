---------------------------- MODULE PipelineInv ----------------------------
(***************************************************************************)
(* The inductive invariant of Pipeline: checked by TLC, proved in          *)
(* PipelineProofs.                                                         *)
(***************************************************************************)
EXTENDS Pipeline

CursorInv == cursor <= sent + 1

WriterInv ==
    /\ writer \in {"writing", "lastWrite"} => batch = {}
    /\ writer \notin {"writing", "lastWrite"} => writing = {}
    /\ writer \in {"lastWrite", "finishing", "done"} =>
         ~open /\ cursor > sent /\ batch = {}

\* Every part of the writer's state agrees with every other one, at every
\* step: what EverySampleAccounted and FateSpec are proved from.
PInv == TypeOK /\ CursorInv /\ WriterInv /\ EverySampleAccounted
=============================================================================
