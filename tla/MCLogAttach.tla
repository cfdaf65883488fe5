----------------------------- MODULE MCLogAttach -----------------------------
(***************************************************************************)
(* A small instance of LogAttach for TLC, which covers both platforms:     *)
(* three processes are an app that restarts twice, two polls fail.         *)
(***************************************************************************)
EXTENDS LogAttach
=============================================================================
