---------------------------- MODULE MCMicDialog -----------------------------
(* MicAgent's dialog for TLC.  Two wake words are enough for a second one  *)
(* to meet every stage of the first, two events for a whole dialog beside  *)
(* the boot report, one exit for the app to end at every point.            *)
EXTENDS MicDialog
=============================================================================
