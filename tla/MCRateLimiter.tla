--------------------------- MODULE MCRateLimiter ---------------------------
(* Instances of RateLimiter for TLC; callers are interchangeable.          *)
EXTENDS RateLimiter, TLC

ClientSymmetry == Permutations(Clients)

=============================================================================
