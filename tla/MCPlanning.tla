----------------------------- MODULE MCPlanning -----------------------------
(* Instances of Planning for TLC. *)
EXTENDS Planning, TLC

Symmetry == Permutations(Preparers) \cup Permutations(Planners)
              \cup Permutations(Loaders)
=============================================================================
