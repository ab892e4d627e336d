---------------------------- MODULE MC_PaperRuns ----------------------------
EXTENDS PaperRuns, TLC

CONSTANTS first, second

MCSetups ==
  (first :> {<<"backtest", "breakout">>, <<"paper", "burst">>}) @@ (second :> {<<"inmemory", "breakout">>})
MCMaxBars == (first :> 2) @@ (second :> 1)
MCPlaces == {-2, -1, 2}
=============================================================================
