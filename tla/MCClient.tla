------------------------------ MODULE MCClient ------------------------------
(* Client on small instances.                                              *)
EXTENDS Client

Symmetry == Permutations(Tasks) \cup Permutations(Conns)
=============================================================================
