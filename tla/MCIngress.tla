----------------------------- MODULE MCIngress ------------------------------
(* Instances of Ingress for TLC. *)
EXTENDS Ingress, TLC

Symmetry == Permutations(Procs) \cup Permutations(Cycles)
              \cup Permutations(Conversations \ Scouted)
=============================================================================
