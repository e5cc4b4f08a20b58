-------------------------- MODULE MCNetworkMonitor --------------------------
(* The network monitor for TLC: its state is finite, nothing is bounded.   *)
EXTENDS NetworkMonitor
=============================================================================
