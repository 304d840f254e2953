----------------------------- MODULE MCEventLog -----------------------------
EXTENDS EventLog, TLC
==============================================================================
