---------------------------- MODULE MCMicControl ----------------------------
(* The control of the app for TLC.                                         *)
EXTENDS MicControl
=============================================================================
