------------------------ MODULE MCCandidateDecision ------------------------
(* Instances of CandidateDecision for TLC. *)
EXTENDS CandidateDecision, TLC

Symmetry == Permutations(Callers) \cup Permutations(Requests)
=============================================================================
