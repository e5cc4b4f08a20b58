----------------------------- MODULE MCUmbrella -----------------------------
(* The umbrella for TLC.  MaxCommands is the only bound: with n commands   *)
(* there are at most n forks.                                              *)
EXTENDS Umbrella
=============================================================================
