---------------------------- MODULE MCAddonObjects ----------------------------
EXTENDS AddonObjects
=============================================================================
