------------------------------ MODULE MCSystem ------------------------------
(***************************************************************************)
(* Instances of System for TLC.                                            *)
(***************************************************************************)
EXTENDS System, TLC

CONSTANTS p1, p2, p3, n1, n2, f1, f2, f3

\* Every path has a file name of its own.
OwnNames == [path \in Paths |-> path]

\* f1 and f3 end in the same component.
SharedNames == [path \in Paths |-> IF path = f3 THEN f1 ELSE path]

NoFiles  == {<<>>}
OneFile  == {<<f1>>}
\* Files of different names, and one that takes the place of another.
SharedLists == {<<f1, f2>>, <<f1, f2, f3>>}

RunSymmetry == Permutations({p1, p2, p3}) \cup Permutations({n1, n2})
=============================================================================
