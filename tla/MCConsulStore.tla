---------------------------- MODULE MCConsulStore ---------------------------
(* ConsulStore for TLC, with names none of which begins with another.      *)
EXTENDS ConsulStore, TLC

Symmetry == Permutations(Names) \cup Permutations(Runtimes)

DistinctNames == [n \in Names |-> {n}]
=============================================================================
