-------------------------- MODULE MC_LiveExecutor --------------------------
(* Small instances of LiveExecutor for TLC. *)
EXTENDS LiveExecutorInv, TLC

CONSTANTS a, b, go, flip, other, t1, t2, t3

\* Slot a is offered a long and then the opposite short, slot b a long.
MCDecisionSlot == (go :> a @@ flip :> a @@ other :> b)
MCDecisionSide == (go :> "long" @@ flip :> "short" @@ other :> "long")
MCOwnerOf == (a :> "ma" @@ b :> "range")
MCOwners == {"ma", "range"}

\* One slot and its two decisions.
OneDecisionSlot == (go :> a @@ flip :> a)
OneDecisionSide == (go :> "long" @@ flip :> "short")
OneOwnerOf == (a :> "ma")

TradeSymmetry == Permutations({t1, t2, t3})

=============================================================================
