----------------------------- MODULE MCPipeline -----------------------------
(***************************************************************************)
(* Small instances of Pipeline for TLC.  Cap and BatchMax are 1024 and 256 *)
(* in the code; 2 and 2 (or 3) with five samples make the ring wrap, the   *)
(* writer lag and the batch fill up.                                       *)
(***************************************************************************)
EXTENDS PipelineInv
=============================================================================
