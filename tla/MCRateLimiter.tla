---------------------------- MODULE MCRateLimiter ----------------------------
\* The instance of RateLimiter that TLC checks.
EXTENDS RateLimiter, TLC

\* Requests run the same code, and clients differ only in their name.
Symmetry == Permutations(Requests) \union Permutations(Clients)
=============================================================================
