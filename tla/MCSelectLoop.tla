----------------------------- MODULE MCSelectLoop -----------------------------
(* Instances of SelectLoop for TLC. *)
EXTENDS SelectLoop, TLC

Symmetry == Permutations(Socks)
=============================================================================
