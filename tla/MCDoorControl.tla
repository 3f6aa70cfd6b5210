---------------------------- MODULE MCDoorControl ----------------------------
(* Instances of DoorControl for TLC. *)
EXTENDS DoorControl, TLC

Symmetry == Permutations(Requests)
=============================================================================
