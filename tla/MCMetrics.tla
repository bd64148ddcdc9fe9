------------------------------ MODULE MCMetrics ------------------------------
\* The instance of Metrics that TLC checks.
EXTENDS Metrics, TLC

\* Runs execute the same code.
Symmetry == Permutations(Runs)
=============================================================================
