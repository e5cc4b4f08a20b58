----------------------------- MODULE MCRecorder -----------------------------
(* The recorder for TLC: started twice, three faults, reads in two pieces. *)
EXTENDS Recorder
=============================================================================
