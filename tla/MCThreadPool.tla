---------------------------- MODULE MCThreadPool ----------------------------
(* The pool for TLC: the cfg gives the sets of threads, workers and tasks. *)
EXTENDS ThreadPool
=============================================================================
