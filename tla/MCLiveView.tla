----------------------------- MODULE MCLiveView -----------------------------
(***************************************************************************)
(* Small instances of LiveView for TLC.                                    *)
(***************************************************************************)
EXTENDS LiveView
=============================================================================
