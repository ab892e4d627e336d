------------------------------ MODULE MC_LiveFeed ------------------------------
EXTENDS LiveFeed
=============================================================================
