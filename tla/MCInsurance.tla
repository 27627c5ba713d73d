------------------------------ MODULE MCInsurance ------------------------------
(* Two governors, two stakers, one claim and one slash proposal.  *)
EXTENDS InsuranceStaking, TLC

CONSTANTS g1, g2, s1, s2

Symmetry == Permutations(Governors) \cup Permutations(Stakers)
===============================================================================
