------------------------- MODULE MCServerLifecycle -------------------------
EXTENDS ServerLifecycle
=============================================================================
