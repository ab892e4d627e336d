--------------------------- MODULE BreakoutMachine ---------------------------
(***************************************************************************)
(* The pure machine of strategy/close_range.py: a campaign of one parent   *)
(* unit and its add-ons, evaluated on completed daily candles and acted on *)
(* at the next open.  Prices are reduced to what they decide: whether a    *)
(* close falls back over the campaign's boundary, whether it recovers its  *)
(* peak, whether it breaks the range of twenty days and with which         *)
(* structure, whether an add-on at the open fits between the boundary and  *)
(* the distance limit, and which unit's liquidation level a bar reaches.   *)
(*                                                                         *)
(* A machine is a record; the operators are its methods.  A method that    *)
(* raises is one whose precondition (Has..., Is...) does not hold.         *)
(***************************************************************************)
EXTENDS Integers, FiniteSets, Sequences, FiniteSetsExt

CONSTANTS
  MaxUnits,     \* MAX_UNITS
  RecoveryAge,  \* RECOVERY_START_DAY
  MaxHold,      \* MAX_HOLD_DAYS
  Mode          \* direction_mode: the sides in which money may be committed

ASSUME MaxUnitsType == MaxUnits \in Nat \ {0}
ASSUME HoldType == RecoveryAge \in Nat /\ MaxHold \in Nat \ {0}
ASSUME ModeType == Mode \subseteq {"long", "short"}

Sides == {"long", "short"}
Ks == 0 .. MaxUnits - 1
Origins == {"historical", "paper", "live"}
Exits == {"range_close", "recover", "maximum_hold"}

\* far: the confirmed fill lies beyond MAX_ADDON_DISPLACEMENT of the parent's.
Unit(origin, far) == [origin |-> origin, far |-> far]
Units == [origin : Origins, far : BOOLEAN]

NoCampaign == [id |-> -1]
Campaigns ==
  [id : Nat,                 \* campaign_id: the day of its first open
   side : Sides,
   age : 0 .. MaxHold - 1,   \* held_days
   origin : Origins,
   lifetime : 1 .. MaxUnits, \* lifetime_units
   units : UNION {[ks -> Units] : ks \in SUBSET Ks}]

NoCandidate == [side |-> "none", sound |-> FALSE]
Candidates == {NoCandidate} \cup [side : Sides, sound : BOOLEAN]

Machines ==
  [campaign : Campaigns \cup {NoCampaign},
   exit : Exits \cup {"none"},   \* pending_exit
   candidate : Candidates,       \* pending_candidate
   day : Nat,                    \* completed candles taken in (last_bar_ts)
   verified : BOOLEAN,           \* historical_model_complete
   funded : BOOLEAN]             \* historical_funding_available

Occupied(m) == m.campaign # NoCampaign
IsOf(m, origin) == Occupied(m) /\ m.campaign.origin = origin
HasUnit(m, k) == Occupied(m) /\ k \in DOMAIN m.campaign.units
LatestUnit(c) == Max(DOMAIN c.units)
WithUnit(c, k, u) ==
  [c EXCEPT !.units = [j \in DOMAIN c.units \cup {k} |-> IF j = k THEN u ELSE c.units[j]]]
WithoutUnits(c, ks) ==
  [c EXCEPT !.units = [j \in DOMAIN c.units \ ks |-> c.units[j]]]
Vacated(m) == [m EXCEPT !.campaign = NoCampaign, !.exit = "none"]

-----------------------------------------------------------------------------
(* observe_historical_prices: unfunded occupancy lives on verified prices  *)
(* and funding only.  reached: the units whose liquidation level the bar   *)
(* crosses; without the parent the whole campaign is over.                 *)

Priced(m) == IsOf(m, "historical") /\ m.verified /\ m.funded

ObserveHistoricalPrices(m, reached) ==
  IF ~Priced(m) THEN m
  ELSE IF 0 \in reached THEN Vacated(m)
  ELSE [m EXCEPT !.campaign = WithoutUnits(@, reached)]

-----------------------------------------------------------------------------
(* _observe_close: the exit and the candidate that a completed candle      *)
(* leaves for the next open.                                               *)

ExitAfter(c, back, recovered) ==
  IF back THEN "range_close"
  ELSE IF c.age + 1 >= RecoveryAge /\ recovered THEN "recover"
  ELSE IF c.age + 1 >= MaxHold THEN "maximum_hold"
  ELSE "none"

ObserveClose(m, back, recovered, candidate) ==
  LET seen == [m EXCEPT !.day = @ + 1, !.candidate = candidate]
  IN  IF ~Occupied(m) THEN seen
      ELSE LET due == ExitAfter(m.campaign, back, recovered)
           IN  [seen EXCEPT !.campaign.age = @ + 1,
                            !.exit = IF due = "none" THEN @ ELSE due]

-----------------------------------------------------------------------------
(* _apply_open: the pending exit, then the pending candidate.  Opened      *)
(* machines come with the decisions that a caller acts on, in order;       *)
(* rejections are left out.                                                *)

Decision(kind, id, k, side) == [kind |-> kind, id |-> id, k |-> k, side |-> side]
Opened(m, decisions) == [machine |-> m, decisions |-> decisions]

NewCampaign(id, side, origin) ==
  [id |-> id, side |-> side, age |-> 0, origin |-> origin, lifetime |-> 1,
   units |-> [k \in {0} |-> Unit(origin, FALSE)]]

ExitAtOpen(m) ==
  IF Occupied(m) /\ m.exit # "none"
  THEN Opened(Vacated(m),
              <<Decision(IF m.campaign.origin = "historical" THEN "historical_exit"
                         ELSE "campaign_exit", m.campaign.id, 0, m.campaign.side)>>)
  ELSE Opened(m, <<>>)

\* A parent needs the structure, the direction, and not the side that has
\* just recovered at this open.
ParentAtOpen(m, recovered, active) ==
  LET c == m.candidate
      origin == IF active THEN "paper" ELSE "historical"
  IN  IF c.sound /\ c.side # recovered /\ (active => c.side \in Mode)
      THEN Opened([m EXCEPT !.campaign = NewCampaign(m.day, c.side, origin),
                            !.candidate = NoCandidate],
                  <<Decision(IF active THEN "paper_parent" ELSE "historical_parent",
                             m.day, 0, c.side)>>)
      ELSE Opened([m EXCEPT !.candidate = NoCandidate], <<>>)

AddonDecision(c, k) ==
  Decision(IF c.origin = "historical" THEN "historical_addon" ELSE "paper_addon", c.id, k, c.side)

\* Faulty: what a closed child leaves is used again.
AddonFillsHole(m, fits) ==
  LET c == m.campaign
      k == Cardinality(DOMAIN c.units)
      origin == IF c.origin = "historical" THEN "historical" ELSE "paper"
      done == [m EXCEPT !.candidate = NoCandidate]
  IN  IF m.candidate.side = c.side /\ k < MaxUnits /\ fits
         /\ (c.origin # "historical" => c.side \in Mode)
      THEN Opened([done EXCEPT !.campaign = [WithUnit(c, k, Unit(origin, FALSE))
                                               EXCEPT !.lifetime = Max({k + 1, @})]],
                  <<AddonDecision(c, k)>>)
      ELSE Opened(done, <<>>)

AddonAtOpen(m, fits) ==
  LET c == m.campaign
      k == c.lifetime
      origin == IF c.origin = "historical" THEN "historical" ELSE "paper"
      done == [m EXCEPT !.candidate = NoCandidate]
  IN  IF m.candidate.side = c.side /\ k < MaxUnits /\ fits
         /\ (c.origin # "historical" => c.side \in Mode)
      THEN Opened([done EXCEPT !.campaign = [WithUnit(c, k, Unit(origin, FALSE))
                                               EXCEPT !.lifetime = k + 1]],
                  <<AddonDecision(c, k)>>)
      ELSE Opened(done, <<>>)

ApplyOpen(m, fits, active) ==
  LET out == ExitAtOpen(m)
      recovered == IF m.exit = "recover" /\ Occupied(m) THEN m.campaign.side ELSE "none"
      in == IF out.machine.candidate = NoCandidate THEN Opened(out.machine, <<>>)
            ELSE IF Occupied(out.machine) THEN AddonAtOpen(out.machine, fits)
            ELSE ParentAtOpen(out.machine, recovered, active)
  IN  Opened(in.machine, out.decisions \o in.decisions)

-----------------------------------------------------------------------------
(* What the owner of the funded units reports.                             *)

\* confirm_owned_fill, where HasUnit(m, k)
ConfirmOwnedFill(m, k, far) ==
  LET c == WithUnit(m.campaign, k, Unit("live", far))
  IN  [m EXCEPT !.campaign = IF k = 0 THEN [c EXCEPT !.origin = "live"] ELSE c]

\* discard_unfilled_addon
IsLatestUnfilled(m, k) ==
  /\ HasUnit(m, k) /\ k > 0
  /\ m.campaign.lifetime = k + 1
  /\ LatestUnit(m.campaign) = k
  /\ m.campaign.units[k].origin = "paper"
DiscardUnfilledAddon(m, k) ==
  LET c == WithoutUnits(m.campaign, {k})
      shorter == [c EXCEPT !.lifetime = @ - 1]
  IN  [m EXCEPT !.campaign = shorter]

\* parent_liquidated, where Occupied(m)
ParentClosed(m) == Vacated(m)

\* child_liquidated, child_closed and forget_closed_child, where HasUnit(m, k), k > 0
ForgetClosedChild(m, k) == [m EXCEPT !.campaign = WithoutUnits(@, {k})]

\* _validate_restored: what restore refuses.
Restorable(m) ==
  Occupied(m) =>
    LET ks == DOMAIN m.campaign.units
    IN  0 \in ks /\ Max(ks) < m.campaign.lifetime /\ m.campaign.lifetime <= MaxUnits

=============================================================================
