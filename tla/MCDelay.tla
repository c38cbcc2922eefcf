------------------------------ MODULE MCDelay ------------------------------
(* Instances of Delay for TLC. *)
EXTENDS Delay, TLC

CONSTANTS u1, u2, u3, daemon

TwoUprocs   == {u1, u2}
ThreeUprocs == {u1, u2, u3}
ShortDelays == {-1, 0, 1, 2}
WithLong    == {1, 4}
Alike       == Permutations(ThreeUprocs)
=============================================================================
