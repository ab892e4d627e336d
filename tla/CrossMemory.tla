----------------------------- MODULE CrossMemory -----------------------------
(***************************************************************************)
(* What MaCross of strategy/ma_cross.py remembers of one timeframe, and its *)
(* methods as functions of that memory.                                    *)
(*                                                                         *)
(* The indicators are abstracted to the verdict of each completed bar, and *)
(* the profit of a trade to what it starts: a winner cooldown, a loss      *)
(* cooldown or neither.  A method returns an Outcome: the memory after it, *)
(* the side it leaves in its StrategyState, and the orders it emits.       *)
(***************************************************************************)
EXTENDS Integers, Sequences

CONSTANTS
  WinCount,     \* cooldown_signal_count
  LossCount,    \* loss_cooldown_signal_count
  SameBarFlip,  \* same_bar_flip
  Mode          \* cooldown_mode

ASSUME CountsType == WinCount \in Nat /\ LossCount \in Nat
ASSUME SameBarFlipType == SameBarFlip \in BOOLEAN
ASSUME ModeType ==
  Mode \in {"verdict_transition", "directional_transition", "order_opportunity"}

Verdicts == {"UP", "DOWN", "FLAT"}
Entries == {"long", "short"}
Sides == Entries \cup {"none"}
Results == {"win", "loss", "even"}
Causes == {"manual", "liquidated", "unknown"}

Memory ==
  [at : Nat,                            \* last_bar_ts: bars taken in
   verdict : Verdicts,
   win : 0 .. WinCount,                 \* _suppressed_signals
   loss : 0 .. LossCount,               \* _loss_suppressed_signals
   pending : Sides \cup {"flat"},       \* _pending_position_reconciliation
   hold : Verdicts \cup {"none"},       \* _manual_flat_hold
   reset : BOOLEAN,                     \* in _external_reset_pending
   restart : BOOLEAN,                   \* in _restart_pending
   startup : BOOLEAN]                   \* _startup_reconciliation_pending

Outcome(m, side, out) == [mem |-> m, side |-> side, out |-> out]

-----------------------------------------------------------------------------

\* The side a verdict asks for; none when it is FLAT.
Target(v) == CASE v = "UP" -> "long" [] v = "DOWN" -> "short" [] OTHER -> "none"

Opposes(side, v) == side # "none" /\ v # "FLAT" /\ side # Target(v)
WouldOrder(side, v) == v # "FLAT" /\ side # Target(v)

Cooling(m) == m.win > 0 \/ m.loss > 0

Consumes(side, v) ==
  CASE Mode = "verdict_transition" -> TRUE
    [] Mode = "directional_transition" -> v # "FLAT"
    [] Mode = "order_opportunity" -> WouldOrder(side, v)

\* _consume_cooldown: every cooldown that runs gives a slot.
Spent(m) == [m EXCEPT !.win = IF @ > 0 THEN @ - 1 ELSE @,
                      !.loss = IF @ > 0 THEN @ - 1 ELSE @]

Starts(result) ==
  (result = "win" /\ WinCount > 0) \/ (result = "loss" /\ LossCount > 0)

StartCooldowns(m, result) ==
  [m EXCEPT !.win = IF result = "win" THEN WinCount ELSE @,
            !.loss = IF result = "loss" THEN LossCount ELSE @]

-----------------------------------------------------------------------------

\* Faulty: a cooldown that begins does not hold back the other side.
FlipsAnyway(result) == SameBarFlip
Flips(result) == SameBarFlip /\ ~Starts(result)

\* _on_transition to verdict v
OnTransition(m, side, v, result) ==
  LET begin(s) == [m EXCEPT !.pending = s]
  IN  IF ~WouldOrder(side, v) THEN Outcome(m, side, <<>>)
      ELSE IF side = "none" THEN Outcome(begin(Target(v)), Target(v), <<Target(v)>>)
      ELSE IF Flips(result)
           THEN Outcome(StartCooldowns(begin(Target(v)), result), Target(v),
                        <<"exit", Target(v)>>)
      ELSE Outcome(StartCooldowns(begin("flat"), result), "none", <<"exit">>)

\* _cooldown_exposure_exit
CoolingExit(m) == Outcome([m EXCEPT !.pending = "flat"], "none", <<"exit">>)

\* _restart_catch_up: only exposure against the verdict is acted upon.
CatchUp(m, side, result) ==
  IF Opposes(side, m.verdict) THEN OnTransition(m, side, m.verdict, result)
  ELSE Outcome(m, side, <<>>)

\* An order that was emitted and is not confirmed, under the same verdict.
Retry(m, side, result) ==
  IF Cooling(m) THEN Outcome(m, side, <<>>) ELSE OnTransition(m, side, m.verdict, result)

\* Faulty: a target outlives the verdict it was set for.
TakenInStale(m, v) == [m EXCEPT !.at = @ + 1, !.verdict = v]
\* The next completed bar, of verdict v: what was pending for another one lapses.
TakenIn(m, v) ==
  [m EXCEPT !.at = @ + 1, !.verdict = v, !.pending = IF v = m.verdict THEN @ ELSE "none"]

Spends(m, side, changed) == changed /\ Cooling(m) /\ Consumes(side, m.verdict)

\* Faulty: replayed bars spend no slot.
ReplayedFree(m, side, changed) == Outcome(m, side, <<>>)
\* on_bar for a bar of the warmup
Replayed(m, side, changed) ==
  Outcome(IF Spends(m, side, changed) THEN Spent(m) ELSE m, side, <<>>)

\* on_bar below the manual hold
Resumed(m, side, changed, result) ==
  LET v == m.verdict
      spends == Spends(m, side, changed)
      paid == IF spends THEN Spent(m) ELSE m
      known == [m EXCEPT !.restart = FALSE]
  IN  IF Cooling(m) /\ Opposes(side, v) THEN CoolingExit([paid EXCEPT !.restart = FALSE])
      ELSE IF m.pending = "flat" /\ side # "none" THEN Outcome(known, "none", <<"exit">>)
      ELSE IF spends THEN Outcome([paid EXCEPT !.restart = FALSE], side, <<>>)
      ELSE IF m.restart
           THEN IF ~changed /\ Cooling(m) /\ WouldOrder(side, v) THEN Outcome(known, side, <<>>)
                ELSE CatchUp(known, side, result)
      ELSE IF changed THEN OnTransition(m, side, v, result)
      ELSE IF m.pending \in Entries THEN Retry(m, side, result)
      ELSE Outcome(m, side, <<>>)

\* on_bar for a live bar
OnBar(m, side, v, result) ==
  LET n == TakenIn(m, v)
  IN  IF n.reset THEN OnTransition([n EXCEPT !.reset = FALSE], side, v, result)
      ELSE IF n.hold = v
           THEN Outcome([n EXCEPT !.restart = FALSE, !.pending = "none"], side, <<>>)
      ELSE Resumed([n EXCEPT !.hold = "none"], side, v # m.verdict, result)

\* _reconcile_startup_positions, at the first live minute of a run
Startup(m, side, result) ==
  LET n == [m EXCEPT !.startup = FALSE, !.restart = FALSE]
  IN  IF ~m.startup \/ (~m.restart /\ m.pending = "none")
      THEN Outcome([m EXCEPT !.startup = FALSE], side, <<>>)
      ELSE IF m.pending = "flat" /\ side # "none" THEN Outcome(n, "none", <<"exit">>)
      ELSE IF m.pending \in Entries /\ side # m.pending THEN Retry(n, side, result)
      ELSE IF Cooling(n) /\ Opposes(side, n.verdict) THEN CoolingExit(n)
      ELSE CatchUp(n, side, result)

-----------------------------------------------------------------------------

\* reconcile_execution_state: the executor holds the pending target.
Reconciled(m, side) ==
  IF m.pending # "none" /\ m.pending = (IF side = "none" THEN "flat" ELSE side)
  THEN [m EXCEPT !.pending = "none"] ELSE m

\* on_intent_rejected, for an entry
Rejected(m) == [m EXCEPT !.pending = "none"]

\* Faulty: what was pending stays pending.
ExternallyClosedPending(m, cause) ==
  [m EXCEPT !.hold = "none", !.restart = FALSE, !.win = 0,
            !.loss = IF cause = "manual" THEN 0 ELSE LossCount,
            !.reset = cause = "manual"]

\* on_external_position_closed
ExternallyClosed(m, cause) ==
  [m EXCEPT !.pending = "none", !.hold = "none", !.restart = FALSE, !.win = 0,
            !.loss = IF cause = "manual" THEN 0 ELSE LossCount,
            !.reset = cause = "manual"]

\* Faulty: a restored position is not looked at.
StartedWithTarget(m, side) == [m EXCEPT !.startup = m.pending # "none"]
\* on_startup, in an object that has just been restored
Started(m, side) ==
  [m EXCEPT !.restart = side # "none", !.startup = side # "none" \/ m.pending # "none"]

\* persistent_state: what a restart loses
Durable(m) == [m EXCEPT !.restart = FALSE, !.startup = FALSE]

=============================================================================
