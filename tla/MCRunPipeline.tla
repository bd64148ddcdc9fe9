---------------------------- MODULE MCRunPipeline ----------------------------
\* The instance of RunPipeline that TLC checks.
EXTENDS RunPipeline
=============================================================================
