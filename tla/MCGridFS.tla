------------------------------ MODULE MCGridFS ------------------------------
EXTENDS GridFS, TLC

Symmetry == Permutations(Procs) \cup Permutations(Ids)
=============================================================================
