----------------------------- MODULE MCExecJail -----------------------------
EXTENDS ExecJail

\* A clean exit, an error, and the two codes that also stand for a kill.
Codes == {0, 1, 137, 152}
OwnCodes == {0, 1}
=============================================================================
