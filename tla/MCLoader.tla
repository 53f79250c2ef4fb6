------------------------------- MODULE MCLoader -------------------------------
EXTENDS Loader, TLC
=============================================================================
