----------------------------- MODULE MC_MaCross -----------------------------
EXTENDS MaCross
=============================================================================
