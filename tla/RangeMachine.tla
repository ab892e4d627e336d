---------------------------- MODULE RangeMachine ----------------------------
(***************************************************************************)
(* The pure machine of strategy/impulse_range.py: impulse, pullback,       *)
(* channel, expansion, expiry.  Prices are reduced to what they decide:    *)
(* whether a completed 4h bar takes the machine onward, voids what it      *)
(* waits for or holds, or neither; whether a bar opens inside the channel; *)
(* whether a minute closes at an edge or through the midpoint.  The side   *)
(* of a range is left out: nothing below depends on it.                    *)
(*                                                                         *)
(* A machine is a record; the operators are its methods.                   *)
(***************************************************************************)
EXTENDS Integers

CONSTANTS
  MaxAge,         \* max_age_days, in 4h bars
  MinutesPerBar,  \* minutes of a 4h bar
  ChopFilter      \* chop_filter

ASSUME MaxAgeType == MaxAge \in Nat \ {0}
ASSUME MinutesPerBarType == MinutesPerBar \in Nat \ {0}
ASSUME ChopFilterType == ChopFilter \in BOOLEAN

Never == -1
Time == Nat \cup {Never}
Minute(b, k) == b * MinutesPerBar + k

Machines ==
  [state : {"idle", "seek", "active"},
   pulled : BOOLEAN,      \* setup.pulled
   confirmed : Time,      \* channel.confirmed_ts, as a 4h bar
   expanding : BOOLEAN,   \* channel.expanding # 0
   stop : BOOLEAN,        \* channel.pending_stop
   checked : BOOLEAN,     \* channel.er_checked
   tradeable : BOOLEAN,   \* channel.tradeable
   bar : Nat,             \* bar_ts: the current 4h bar
   signal : Time,         \* pending_impulse.effective_ts
   holding : BOOLEAN,     \* position is not None
   fill : Time,           \* position.fill_minute
   lastExit : Time]       \* last_exit_minute

Idle(m) == [m EXCEPT !.state = "idle", !.pulled = FALSE, !.confirmed = Never,
                     !.expanding = FALSE, !.stop = FALSE, !.checked = FALSE,
                     !.tradeable = TRUE]
Flat(m) == [m EXCEPT !.holding = FALSE, !.fill = Never]

\* levels() is not None: the channel is confirmed, intact and current.
Trading(m) == m.state = "active" /\ m.bar >= m.confirmed /\ ~m.expanding

ObserveDaily(m, b) == [m EXCEPT !.signal = b]

-----------------------------------------------------------------------------
(* open_bar(ts, open_price): a new impulse, a stop, the expiry and the     *)
(* chop check, in this order.                                              *)

ActsOnSignal(m, b, inside) ==
  m.signal = b /\ ~(m.state = "active" /\ (m.expanding \/ inside))

TakeSignal(m, b, inside) ==
  LET seen == [m EXCEPT !.bar = b,
                        !.signal = IF m.signal <= b THEN Never ELSE m.signal]
  IN  IF ActsOnSignal(m, b, inside) THEN [Idle(Flat(seen)) EXCEPT !.state = "seek"]
      ELSE seen

\* Faulty: the channel breaks, the position it gave a target stays.
BreakWithoutExit(m) ==
  IF m.state = "active" /\ m.stop
  THEN [m EXCEPT !.stop = FALSE, !.expanding = TRUE] ELSE m

Break(m) ==
  IF m.state = "active" /\ m.stop
  THEN [Flat(m) EXCEPT !.stop = FALSE, !.expanding = TRUE] ELSE m

Expire(m) ==
  IF m.state = "active" /\ m.bar - m.confirmed >= MaxAge THEN Idle(Flat(m)) ELSE m

\* vouched: the confirmation day is on record, its efficiency ratio not choppy.
ChopCheck(m, vouched) ==
  IF m.state = "active" /\ m.bar >= m.confirmed /\ ~m.checked
  THEN [m EXCEPT !.checked = TRUE, !.tradeable = ~ChopFilter \/ vouched] ELSE m

OpenBar(m, b, inside, vouched) ==
  ChopCheck(Expire(Break(TakeSignal(m, b, inside))), vouched)

-----------------------------------------------------------------------------
(* close_bar(bar): "onward" is the pullback, the confirmation or the       *)
(* redraw; "void" a close beyond the impulse, the width cap, or a close    *)
(* beyond the stop band of an intact channel.                              *)

CloseBar(m, move) ==
  CASE m.state = "seek" /\ ~m.pulled /\ move = "onward" -> [m EXCEPT !.pulled = TRUE]
    [] m.state = "seek" /\ m.pulled /\ move = "void" -> Idle(m)
    [] m.state = "seek" /\ m.pulled /\ move = "onward" ->
         [Idle(m) EXCEPT !.state = "active", !.confirmed = m.bar + 1]
    [] m.state = "active" /\ m.bar >= m.confirmed /\ m.expanding /\ move = "void" -> Idle(m)
    [] m.state = "active" /\ m.bar >= m.confirmed /\ m.expanding /\ move = "onward" ->
         [m EXCEPT !.expanding = FALSE]
    [] Trading(m) /\ move = "void" -> [m EXCEPT !.stop = TRUE]
    [] OTHER -> m

-----------------------------------------------------------------------------
(* minute_signal(bar) for minute t, and the fills a caller reports.        *)

MinuteSignal(m, t, touch) ==
  CASE Trading(m) /\ m.holding /\ m.fill # t /\ touch = "target" -> "exit"
    [] Trading(m) /\ ~m.holding /\ m.lastExit # t /\ m.tradeable /\ touch = "edge" -> "entry"
    [] OTHER -> "none"

\* record_entry raises when this does not hold.
Admissible(m) == ~m.holding /\ Trading(m) /\ m.tradeable
RecordEntry(m, t) == [m EXCEPT !.holding = TRUE, !.fill = t]
RecordTargetExit(m, t) == [Flat(m) EXCEPT !.lastExit = t]

=============================================================================
