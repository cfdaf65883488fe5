--------------------------- MODULE MCHistoryView ----------------------------
(***************************************************************************)
(* Small instances of HistoryView for TLC.                                 *)
(***************************************************************************)
EXTENDS HistoryView
=============================================================================
