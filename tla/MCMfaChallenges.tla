-------------------------- MODULE MCMfaChallenges --------------------------
(* Instances of MfaChallenges for TLC.                                     *)
EXTENDS MfaChallenges, TLC

Symmetry == Permutations(Request) \cup Permutations(Challenge)
=============================================================================
