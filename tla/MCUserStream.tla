---------------------------- MODULE MCUserStream ----------------------------
(* Model-checking instances of the user streams.                           *)
EXTENDS UserStream, TLC

Symmetry == Permutations(Addrs) \cup Permutations(Conns)
=============================================================================
