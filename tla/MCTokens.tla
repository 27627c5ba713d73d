------------------------------- MODULE MCTokens -------------------------------
(* Two requests at a time over the tokens of one user.  *)
EXTENDS RefreshTokens, TLC

CONSTANTS r1, r2

TwoRequests == {r1, r2}
AllCacheKeys == Tokens \cup {User}
RequestSymmetry == Permutations(TwoRequests)
===============================================================================
