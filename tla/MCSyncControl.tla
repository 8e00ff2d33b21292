--------------------------- MODULE MCSyncControl ---------------------------
EXTENDS SyncControl
============================================================================
