--------------------------- MODULE MCRateLimiter ---------------------------
(* A small instance of RateLimiter for TLC. *)
EXTENDS RateLimiter, TLC

CONSTANTS i1, i2, c1, c2

MCIP == {i1, i2}
MCCall == {c1, c2}

Symmetry == Permutations(MCIP) \cup Permutations(MCCall)
=============================================================================
