---------------------------- MODULE MC_RiskGuard ----------------------------
(* Small instances of RiskGuard for TLC. *)
EXTENDS RiskGuard, TLC

CONSTANTS a, b

Losses == {-1, 1}
SlotSymmetry == Permutations({a, b})

=============================================================================
