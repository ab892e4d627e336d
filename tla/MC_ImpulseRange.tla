--------------------------- MODULE MC_ImpulseRange ---------------------------
EXTENDS ImpulseRange
=============================================================================
