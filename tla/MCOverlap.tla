----------------------------- MODULE MCOverlap -----------------------------
(***************************************************************************)
(* Instances of Overlap for TLC.                                           *)
(***************************************************************************)
EXTENDS Overlap, TLC

CONSTANTS p1, p2, p3, n1, n2, f1

OwnNames == [path \in Paths |-> path]
NoFiles  == {<<>>}
OneFile  == {<<f1>>}

RunSymmetry == Permutations({p1, p2, p3}) \cup Permutations({n1, n2})
=============================================================================
