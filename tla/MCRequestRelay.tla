---------------------------- MODULE MCRequestRelay ----------------------------
(* Instances of RequestRelay for TLC. *)
EXTENDS RequestRelay, TLC

Symmetry == Permutations(Reqs) \cup Permutations(Ids)
=============================================================================
