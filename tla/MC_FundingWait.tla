--------------------------- MODULE MC_FundingWait ---------------------------
EXTENDS FundingWait
=============================================================================
