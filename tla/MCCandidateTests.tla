-------------------------- MODULE MCCandidateTests --------------------------
(* Instances of CandidateTests for TLC; a temporal property allows no      *)
(* symmetry.                                                               *)
EXTENDS CandidateTests, TLC
=============================================================================
