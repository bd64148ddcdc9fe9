--------------------------- MODULE MCAdmissionGate ---------------------------
\* The instance of AdmissionGate that TLC checks.
EXTENDS AdmissionGate
=============================================================================
