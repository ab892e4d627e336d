---------------------------- MODULE MC_ShadowBook ----------------------------
EXTENDS ShadowBook
=============================================================================
