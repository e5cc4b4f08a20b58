---------------------------- MODULE MCPcmPlayer -----------------------------
(* The player for TLC: the two sounds of MicAgent, of 5 and 2 samples, and *)
(* callbacks of 2 frames.                                                  *)
EXTENDS PcmPlayer

CONSTANTS here, pop
TwoFiles == <<here, pop>>
Sizes == [f \in {here, pop} |-> IF f = here THEN 19 ELSE 8]
=============================================================================
