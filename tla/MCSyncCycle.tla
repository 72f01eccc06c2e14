---------------------------- MODULE MCSyncCycle ------------------------------
EXTENDS SyncCycle
=============================================================================
