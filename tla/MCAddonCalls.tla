----------------------------- MODULE MCAddonCalls -----------------------------
EXTENDS AddonCalls
=============================================================================
