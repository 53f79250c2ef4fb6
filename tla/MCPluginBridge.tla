--------------------------- MODULE MCPluginBridge ---------------------------
EXTENDS PluginBridgeImpl
=============================================================================
