------------------------------ MODULE MCUidPool ------------------------------
\* The instance of UidPool that TLC checks.
EXTENDS UidPool
=============================================================================
