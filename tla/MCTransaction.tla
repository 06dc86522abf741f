---------------------------- MODULE MCTransaction ----------------------------
(* Transaction on small instances.                                         *)
EXTENDS Transaction, TLC

Plainly   == {{}}
Catching  == {{"catch"}}
EachHabit == {{}, {"catch"}, {"catch", "explicit"}, {"catch", "overlap"}}

Symmetry == Permutations(Ops) \cup Permutations(Txns)
=============================================================================
