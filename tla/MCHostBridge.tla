----------------------------- MODULE MCHostBridge -----------------------------
EXTENDS HostBridge
=============================================================================
