------------------------------- MODULE MCIpc --------------------------------
(* The IPC library for TLC.  Two clients are enough for one to keep events *)
(* from the other; sockets of one datagram are full after one send; with   *)
(* two starts each, every process can meet the remains of another's past.  *)
EXTENDS Ipc
=============================================================================
