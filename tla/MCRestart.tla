------------------------------ MODULE MCRestart ------------------------------
\* The instance of Restart that TLC checks.
EXTENDS Restart
=============================================================================
