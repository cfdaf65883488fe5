----------------------------- MODULE MCLogStream -----------------------------
(***************************************************************************)
(* Small instances of LogStream for TLC.  Three commands are enough for a  *)
(* stop to be at work on one stream while a start replaces it.             *)
(***************************************************************************)
EXTENDS LogStream
=============================================================================
