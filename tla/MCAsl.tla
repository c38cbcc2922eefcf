------------------------------- MODULE MCAsl -------------------------------
(* Instance of Asl for TLC. *)
EXTENDS Asl, TLC

CONSTANTS p1, p2, p3

SomePcbs == {p1, p2, p3}
SomeAddr == 1 .. 3
Alike    == Permutations(SomePcbs)
=============================================================================
