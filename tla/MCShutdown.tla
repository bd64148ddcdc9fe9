----------------------------- MODULE MCShutdown -----------------------------
EXTENDS Shutdown, TLC

Symmetry == Permutations(Reqs)
=============================================================================
