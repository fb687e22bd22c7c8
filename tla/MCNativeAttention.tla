------------------------- MODULE MCNativeAttention -------------------------
EXTENDS NativeAttention
============================================================================
