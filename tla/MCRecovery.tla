----------------------------- MODULE MCRecovery -----------------------------
\* Small instances of Recovery.
EXTENDS Recovery

MCAttempts == 1..3
=============================================================================
