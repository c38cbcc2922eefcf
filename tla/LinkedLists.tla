---------------------------- MODULE LinkedLists ----------------------------
(***************************************************************************)
(* Lists of nodes linked by a next pointer, as Pcb, Asl and Delay have     *)
(* them; nil is the null pointer that ends a list.                         *)
(***************************************************************************)
EXTENDS Integers, FiniteSets, Sequences

\* The nodes met from first along next, up to nil.
Walk(first, next, nil) ==
  LET at[i \in 1 .. Cardinality(DOMAIN next)] ==
        IF i = 1 THEN first
        ELSE IF at[i-1] = nil THEN nil ELSE next[at[i-1]]
      met == {i \in DOMAIN at : at[i] # nil}
  IN [i \in 1 .. Cardinality(met) |-> at[i]]
=============================================================================
