---------------------------- MODULE MC_CloseRange ----------------------------
EXTENDS CloseRange
=============================================================================
