-------------------------- MODULE MCFencedProcess --------------------------
(* Instances of FencedProcess for TLC. *)
EXTENDS FencedProcess, TLC

Symmetry == Permutations(Descendants)
=============================================================================
