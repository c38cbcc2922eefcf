------------------------------- MODULE MCPcb -------------------------------
(* Instance of Pcb for TLC. *)
EXTENDS Pcb, TLC

CONSTANTS a, b, c, d, ready, sem

SomePcbs  == {a, b, c, d}
TwoQueues == {ready, sem}
Alike     == Permutations(SomePcbs)
=============================================================================
