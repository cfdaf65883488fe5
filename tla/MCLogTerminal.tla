---------------------------- MODULE MCLogTerminal ----------------------------
(***************************************************************************)
(* Small instances of LogTerminal for TLC: three commands make an open and *)
(* a switch, or an open, a close and an open; a ring of one line wraps.    *)
(***************************************************************************)
EXTENDS LogTerminal
=============================================================================
