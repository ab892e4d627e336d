------------------------------ MODULE FundingWait ------------------------------
(***************************************************************************)
(* The seeded historical campaign of the breakout strategy in the loop of  *)
(* engine/portfolio_live.py: funding is settled every Period minutes and   *)
(* published late, the campaign may only be advanced on it, and the bars   *)
(* that arrive meanwhile are held and replayed in order.  Restarts rebuild *)
(* the model from its snapshot and the feed's backfill, or from the        *)
(* reference (strategy/historical.py).                                     *)
(*                                                                         *)
(* The feed is counted in positions: 2 * t + 1 is the minute candle of t,  *)
(* 2 * t the daily bar that completes at t.                                *)
(***************************************************************************)
EXTENDS Integers, Sequences, FiniteSets, SequencesExt

CONSTANTS
  Period,      \* minutes between two settlements (8h)
  DayPeriods,  \* settlements a day
  LateWindow,  \* _HISTORICAL_DECISION_LATE_WINDOW, in minutes
  MaxBars,     \* _MAX_HISTORICAL_CATCHUP_BARS
  LastMinute   \* bound: the last minute of the feed, which comes again and again

ASSUME ClockType == Period \in Nat \ {0} /\ DayPeriods \in Nat \ {0}
ASSUME BoundsType == LateWindow \in Nat /\ MaxBars \in Nat /\ LastMinute \in Nat

VARIABLES
  model,      \* machine: its campaign, clocks and flags
  gap,        \* engine data health: the daily bar it lacks, 0 for none
  wait,       \* historical_waits of the strategy
  saved,      \* the durable snapshot of model and gap
  fresh,      \* ~strategy_snapshot_saved
  pc,         \* where the loop is
  decision,   \* the funded entry that is about to be submitted
  pos,        \* the feed position being processed, or the next one
  since,      \* the first live position
  lost,       \* a candle of the running day is missing
  published,  \* the last settlement that the venue has published
  acts,       \* history: the funded entries submitted
  boot        \* history: this process rebuilt the model, nothing was missing since

feedVars == <<pos, since, lost>>
vars == <<model, gap, wait, saved, fresh, pc, decision, feedVars, published, acts, boot>>

Day == Period * DayPeriods
Boundary(t) == t - (t % Period)
NextDay(t) == t - (t % Day) + Day

Models ==
  [origin : {"historical", "own", "none"},  \* of the campaign
   day : Nat,            \* the daily bars completed up to here are taken in
   funded : Nat,         \* last_historical_funding_ts
   priced : Nat,         \* last_historical_price_ts
   complete : BOOLEAN,   \* historical_model_complete
   available : BOOLEAN,  \* historical_funding_available
   inTurn : BOOLEAN,     \* history: every price was judged with just its funding paid
   unbroken : BOOLEAN]   \* history: and no minute was passed over
Bars == [t : Nat, daily : BOOLEAN, warm : BOOLEAN]
Waits ==
  [bars : Seq(Bars), asked : Nat,  \* requested_boundary
   task : {"none", "running", "ok", "failed", "resting"}]
\* A daily bar's entry, the minute in which it is decided, and on what.
Entries == [bar : Nat, at : Nat, sound : BOOLEAN]
NoEntry == [bar |-> 0]
NoWait == [task |-> "absent"]
NewWait == [bars |-> <<>>, asked |-> 0, task |-> "none"]

TypeOK ==
  /\ model \in Models /\ gap \in Nat
  /\ wait = NoWait \/ (wait \in Waits /\ Len(wait.bars) <= MaxBars)
  /\ saved.model \in Models /\ saved.gap \in Nat
  /\ fresh \in BOOLEAN /\ pc \in {"down", "idle", "submit"}
  /\ decision \in Entries \cup {NoEntry}
  /\ {pos, since, published} \subseteq Nat /\ lost \in BOOLEAN
  /\ acts \subseteq Entries
  /\ boot \in [rebuilt : BOOLEAN, whole : BOOLEAN]

-----------------------------------------------------------------------------
(* The strategy's on_bar, as far as the historical campaign goes.  A choice *)
(* c says in which minute the campaign is liquidated (ends, 0 for never)   *)
(* and what a daily bar decides.                                           *)

Seen(m, act) == [model |-> m, act |-> act]

Observe(m, t, ends) ==
  IF m.origin # "historical" \/ ~m.complete \/ ~m.available \/ t < m.priced THEN m
  ELSE [m EXCEPT !.priced = t,
                 !.inTurn = @ /\ m.funded = Boundary(t),
                 !.unbroken = (@ /\ t <= m.priced + 1) \/ t = ends,
                 !.origin = IF t = ends THEN "none" ELSE @]

\* Only a funded parent makes the campaign our own; what a replay missed is
\* abandoned.
TakeDaily(m, t, acting, verdict) ==
  LET enters == verdict = "enter" /\ acting /\ m.complete /\ m.available
      next == IF verdict = "stay" THEN m.origin ELSE IF enters THEN "own" ELSE "none"
  IN  IF t <= m.day THEN Seen(m, 0)
      ELSE IF m.origin = "own" THEN Seen([m EXCEPT !.day = t], 0)
      ELSE Seen([m EXCEPT !.day = t, !.origin = next], IF enters THEN t ELSE 0)

See(m, b, c) ==
  IF b.daily THEN TakeDaily(m, b.t, ~b.warm, c.verdict)
  ELSE Seen(Observe(m, b.t, c.ends), 0)

Settled(m, boundary) == [m EXCEPT !.funded = IF @ < boundary THEN boundary ELSE @]

\* Faulty: a held decision still acts.
TimelyIfLive(b, now) == ~b.warm

\* A decision that was held acts while it is not too late for it, at minute now.
Timely(b, now) == ~b.warm /\ b.t >= now - LateWindow

\* One bar of a replay; v.last is the last minute replayed.
ReplayStep(v, b, now, c) ==
  LET f == Settled(v.model, Boundary(b.t))
      s == TakeDaily(f, b.t, Timely(b, now), c.verdict)
  IN  IF ~v.ok THEN v
      ELSE IF b.daily
           THEN [v EXCEPT !.model = s.model, !.act = IF s.act # 0 THEN s.act ELSE @]
           ELSE IF b.t > v.last + 1 THEN [v EXCEPT !.ok = FALSE]
           ELSE [v EXCEPT !.model = Observe(f, b.t, c.ends), !.last = b.t]

\* _replay_historical_bars, at minute now
Replayed(m, bars, now, c) ==
  FoldLeft(LAMBDA v, b : ReplayStep(v, b, now, c),
           [model |-> [m EXCEPT !.available = TRUE], last |-> m.priced, act |-> 0, ok |-> TRUE],
           bars)

Verdicts == {"stay", "exit", "enter"}
ChoicesOf(bars) ==
  [ends : {0} \cup {bars[i].t : i \in DOMAIN bars}, verdict : Verdicts]

-----------------------------------------------------------------------------
(* The feed.                                                               *)

Bar == [t |-> pos \div 2, daily |-> pos % 2 = 0, warm |-> pos < since]
NextMinutePos(p) == IF p \div 2 = LastMinute THEN p ELSE 2 * (p \div 2 + 1) + 1
NextPos(p) ==
  LET t == p \div 2 + 1
  IN  IF p % 2 = 0 THEN p + 1 ELSE IF p \div 2 # LastMinute /\ t % Day = 0 THEN 2 * t
      ELSE NextMinutePos(p)
Advance ==
  /\ pos' = NextPos(pos)
  /\ since' = IF pos < since THEN since ELSE NextPos(pos)
\* The first minute of the day that the model has not taken in.
ReplayStart(m) == 2 * m.day + 1

-----------------------------------------------------------------------------
(* Start and stop.                                                         *)

Init ==
  /\ model = [origin |-> "historical", day |-> Day, funded |-> Day - Period, priced |-> Day,
              complete |-> TRUE, available |-> TRUE, inTurn |-> TRUE, unbroken |-> TRUE]
  /\ gap = 0 /\ wait = NoWait
  /\ saved = [model |-> model, gap |-> gap] /\ fresh = TRUE
  /\ pc = "down" /\ decision = NoEntry
  /\ pos = ReplayStart(model) /\ since = ReplayStart(model) /\ lost = FALSE
  /\ published = model.funded
  /\ acts = {} /\ boot = [rebuilt |-> FALSE, whole |-> FALSE]

Crash ==
  /\ pc # "down"
  /\ pc' = "down" /\ decision' = NoEntry
  /\ model' = saved.model /\ gap' = saved.gap /\ wait' = NoWait /\ fresh' = TRUE
  /\ pos' = ReplayStart(saved.model) /\ lost' = FALSE
  /\ UNCHANGED <<saved, since, published, acts, boot>>

\* The last day that the feed has completed is history for the next start.
Downtime ==
  /\ pc = "down"
  /\ since' = NextMinutePos(since)
  /\ UNCHANGED <<model, gap, wait, saved, fresh, pc, decision, pos, lost, published, acts, boot>>

\* hydrate_historical, for a campaign whose candles stay clear of liquidation
Hydrated(m) ==
  [m EXCEPT !.funded = m.day - Period, !.priced = m.day, !.complete = TRUE,
            !.available = TRUE, !.inTurn = TRUE, !.unbroken = TRUE]

Start(m, rebuilt) ==
  /\ pc = "down"
  /\ pc' = "idle"
  /\ model' = m
  /\ boot' = [rebuilt |-> rebuilt, whole |-> TRUE]
  /\ UNCHANGED <<gap, wait, saved, fresh, decision, feedVars, published, acts>>

Restart == Start(model, FALSE)
RestartRebuilding ==
  /\ ~model.complete /\ model.origin = "historical" /\ published >= model.day - Period
  /\ Start(Hydrated(model), TRUE)

-----------------------------------------------------------------------------
(* Market evidence: a day that lacks a candle blocks daily decisions until *)
(* exactly that day comes complete in a replay.                            *)

Committed(b) == b.t <= model.day
GapAfter(b) ==
  LET at == IF ~b.daily \/ Committed(b) THEN gap
            ELSE IF lost \/ b.t > model.day + Day
                 THEN IF gap = 0 THEN model.day + Day ELSE gap
            ELSE IF b.warm /\ gap = b.t THEN 0
            ELSE gap
  IN  IF at = 0 /\ lost /\ ~b.warm THEN NextDay(b.t) ELSE at

\* Faulty: the model's own flag is left to the daily bar.
CheckedAtDaily(b) ==
  IF GapAfter(b) # 0 /\ model.origin = "historical" /\ b.daily
  THEN [model EXCEPT !.complete = FALSE] ELSE model

Checked(b) ==
  IF GapAfter(b) # 0 /\ model.origin = "historical"
  THEN [model EXCEPT !.complete = FALSE] ELSE model

CandleLost ==
  /\ pc = "idle" /\ pos % 2 = 1 /\ pos \div 2 # LastMinute
  /\ lost' = TRUE
  /\ boot' = [boot EXCEPT !.whole = FALSE]
  /\ Advance
  /\ UNCHANGED <<model, gap, wait, saved, fresh, pc, decision, published, acts>>

-----------------------------------------------------------------------------
(* One bar: m, w and act are the model, the wait and the entry after it.   *)
(* The state is saved before an entry is submitted.                        *)

Flags(m) == <<m.complete, m.available>>
Done(m, w, act) ==
  LET b == Bar
      due == ~b.warm /\ (b.daily \/ GapAfter(b) # 0 \/ act # 0 \/ fresh \/ Flags(m) # Flags(model))
  IN  /\ model' = m /\ gap' = GapAfter(b) /\ wait' = w
      /\ decision' = IF act = 0 THEN NoEntry ELSE [bar |-> act, at |-> b.t, sound |-> m.inTurn /\ m.unbroken]
      /\ pc' = IF act # 0 THEN "submit" ELSE "idle"
      /\ IF due THEN saved' = [model |-> m, gap |-> GapAfter(b)] /\ fresh' = FALSE
         ELSE UNCHANGED <<saved, fresh>>
      /\ lost' = (lost /\ ~b.daily)
      /\ Advance
      /\ UNCHANGED <<published, acts, boot>>

Waitable == Checked(Bar).origin = "historical" /\ Checked(Bar).complete
Unsettled == Waitable /\ wait = NoWait /\ model.available /\ model.funded < Boundary(Bar.t)

\* Nothing historical is in the way of the strategy.
BarSeen(c) ==
  LET b == Bar
      s == See(Checked(b), b, c)
  IN  /\ pc = "idle"
      /\ \/ Checked(b).origin # "historical"
         \/ Waitable /\ wait = NoWait /\ model.available /\ model.funded >= Boundary(b.t)
      /\ IF b.daily /\ GapAfter(b) # 0 /\ ~Committed(b) THEN Done(Checked(b), wait, 0)
         ELSE Done(s.model, wait, s.act)

\* The model needs a rebuild: the strategy sees nothing.
BarUnmodelled ==
  /\ pc = "idle"
  /\ Checked(Bar).origin = "historical" /\ ~Checked(Bar).complete
  /\ Done(Checked(Bar), NoWait, 0)

\* _initial_historical_funding
FundingRead(c) ==
  LET s == See(Settled(model, Boundary(Bar.t)), Bar, c)
  IN  /\ pc = "idle" /\ Unsettled
      /\ published >= Boundary(Bar.t)
      /\ Done(s.model, NoWait, s.act)

\* The bar in hand joins the wait w, which asks for the settlements up to it
\* when nothing is asked.
AskedAgain(w) ==
  IF w.task = "none" THEN [w EXCEPT !.asked = Boundary(Bar.t), !.task = "running"] ELSE w

Held(m, w) ==
  LET bars == Append(w.bars, Bar)
      answered == CASE w.task = "failed" -> [w EXCEPT !.bars = bars, !.task = "resting"]
                    [] w.task = "ok" -> [w EXCEPT !.bars = bars, !.task = "none"]
                    [] OTHER -> [w EXCEPT !.bars = bars]
  IN  IF Bar.t < m.funded + Period THEN Done(m, w, 0)
      ELSE IF Len(bars) > MaxBars
           THEN Done([m EXCEPT !.complete = FALSE, !.available = FALSE], NoWait, 0)
      ELSE Done(m, AskedAgain(answered), 0)

FundingLate ==
  /\ pc = "idle" /\ Unsettled
  /\ Held([model EXCEPT !.available = FALSE], NewWait)

\* A restart finds the model paused.
WaitResumed ==
  /\ pc = "idle" /\ Waitable /\ wait = NoWait /\ ~model.available
  /\ Held(model, NewWait)

Recovers(w) ==
  /\ w.task = "ok" /\ w.asked >= Boundary(Bar.t)
  /\ Bar.t >= model.funded + Period /\ Len(w.bars) < MaxBars
BarHeld ==
  /\ pc = "idle" /\ Waitable /\ wait # NoWait
  /\ ~Recovers(wait)
  /\ Held(model, wait)

\* The replay, rolled back when a price is missing.
BarsReplayed(c) ==
  LET v == Replayed(model, Append(wait.bars, Bar), Bar.t, c)
  IN  /\ pc = "idle" /\ Waitable /\ wait # NoWait
      /\ Recovers(wait)
      /\ IF v.ok THEN Done(v.model, NoWait, v.act)
         ELSE Done([model EXCEPT !.complete = FALSE, !.available = FALSE], NoWait, 0)

Submit ==
  /\ pc = "submit"
  /\ pc' = "idle" /\ decision' = NoEntry
  /\ acts' = acts \cup {decision}
  /\ UNCHANGED <<model, gap, wait, saved, fresh, feedVars, published, boot>>

-----------------------------------------------------------------------------
(* The venue publishes late; the read in the background is answered, or    *)
(* fails, and is repeated when its pause is over.                          *)

Publish ==
  /\ published + Period <= since \div 2
  /\ published' = published + Period
  /\ UNCHANGED <<model, gap, wait, saved, fresh, pc, decision, feedVars, acts, boot>>

TaskTurns(from, to) ==
  /\ wait # NoWait /\ wait.task = from
  /\ wait' = [wait EXCEPT !.task = to]
  /\ UNCHANGED <<model, gap, saved, fresh, pc, decision, feedVars, published, acts, boot>>
ReadAnswered == wait # NoWait /\ published >= wait.asked /\ TaskTurns("running", "ok")
ReadFails == TaskTurns("running", "failed")
PauseOver == TaskTurns("resting", "none")

-----------------------------------------------------------------------------
HeldBars == IF wait = NoWait THEN <<>> ELSE wait.bars

Feed ==
  \/ \E c \in ChoicesOf(<<Bar>>) : BarSeen(c) \/ FundingRead(c)
  \/ BarUnmodelled \/ FundingLate \/ WaitResumed \/ BarHeld
  \/ \E c \in ChoicesOf(HeldBars) : BarsReplayed(c)

Next ==
  \/ Crash \/ Downtime \/ Restart \/ RestartRebuilding
  \/ CandleLost \/ Feed \/ Submit
  \/ Publish \/ ReadAnswered \/ ReadFails \/ PauseOver

Spec == Init /\ [][Next]_vars

-----------------------------------------------------------------------------
(* Properties.                                                             *)

\* A funded entry of a daily bar is submitted within the late window, and only
\* on a campaign model whose every minute was judged after just the settlements
\* due by then, whatever the reads, the restarts and the held bars did: the
\* order in which _replay_historical_bars applies them.
FundedOnEvidence ==
  \A a \in acts : a.sound /\ a.at <= a.bar + LateWindow

\* A seeded campaign that the model reports complete and funded has missed no
\* minute and no settlement, unless a candle of the running day is missing.
ClaimIsSound ==
  model.origin = "historical" /\ model.complete /\ model.available /\ ~lost
    => model.inTurn /\ model.unbroken

\* No wait holds more bars than its bound, and the model's claim is sound.
ModelIsSound == TypeOK /\ ClaimIsSound

\* DEPLOYMENT.md: with the evidence verified, a restart of the trader rebuilds
\* the model.  Here the restart rebuilt it, no candle has been missing since, and
\* the replay has repaired the gap of the daily bars.
\* The code breaks this one (README.md, Disagreements).
RestartRebuilds ==
  boot.rebuilt /\ boot.whole /\ gap = 0 /\ pos >= since /\ pc = "idle"
    /\ model.origin = "historical"
    => model.complete

=============================================================================
