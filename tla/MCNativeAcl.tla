---------------------------- MODULE MCNativeAcl -----------------------------
(* Instances of NativeAcl for TLC. *)
EXTENDS NativeAcl, TLC

Symmetry == Permutations(Procs)
=============================================================================
