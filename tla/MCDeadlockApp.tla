---------------------------- MODULE MCDeadlockApp ----------------------------
EXTENDS DeadlockApp
=============================================================================
