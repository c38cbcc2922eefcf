------------------------------ MODULE MCPaging ------------------------------
(* Instances of Paging for TLC. *)
EXTENDS Paging, TLC

CONSTANTS p1, p2, p3, test

TwoUprocs   == {p1, p2}
ThreeUprocs == {p1, p2, p3}
First        == {p1}
Second       == {p2}
None        == {}
TextAndStack == {0, 31}
ThreePages   == {<<p1, 0>>, <<p1, 31>>, <<p2, 31>>}
OnePageEach  == ThreeUprocs \X {0}
=============================================================================
