---------------------------- MODULE ImpulseRange ----------------------------
(***************************************************************************)
(* The funded impulse-range strategy: the adapter of                       *)
(* strategy/impulse_range_live.py around RangeMachine, driven by the loop  *)
(* of engine/portfolio_live.py over one executor slot, through restarts    *)
(* that replay the bars of the downtime.                                   *)
(*                                                                         *)
(* The feed is a sequence of 4h bars; bar b is MinutesPerBar minutes and   *)
(* then, at tick MinutesPerBar, the completed 4h bar (with the daily bar   *)
(* that may precede it).  The executor slot is what LiveExecutor           *)
(* guarantees of one slot, reduced to the trade it holds, the close it     *)
(* owes and what it knows of the venue.                                    *)
(***************************************************************************)
EXTENDS RangeMachine, Sequences

CONSTANTS
  MaxTrades,  \* bound: trades the slot opens
  LastBar     \* bound: the 4h bar whose last minute repeats for ever

ASSUME MaxTradesType == MaxTrades \in Nat
ASSUME LastBarType == LastBar \in Nat

VARIABLES
  model,    \* range_machine
  live,     \* the adapter's own fields
  mirror,   \* state.position(SLOT): the loop's copy of the slot's trade
  gap,      \* engine data health has an entry for this strategy
  saved,    \* the durable snapshot of model, live and gap
  slot,     \* the trade the executor holds (0: none), durable
  begun,    \* that trade has a close command, durable
  told,     \* no external close awaits its acknowledgement, durable
  opened,   \* trades opened so far
  gone,     \* the venue has closed the trade the slot holds
  owed,     \* _pending_exits
  doubt,    \* _inventory_unavailable, or the trade is in _missing_remote
  pc,       \* where the loop is
  intents,  \* intents left to submit
  due,      \* snapshot_due of this bar
  fresh,    \* ~strategy_snapshot_saved: this run has not saved a snapshot
  bar, tick,            \* the feed item being processed, or the next one
  sinceBar, sinceTick,  \* the first feed item that is live
  \* history
  warnedBar,  \* the 4h bar in which the loop told of an external close
  hurt        \* a live bar had incomplete evidence

stratVars == <<model, live, mirror, gap>>
execVars == <<slot, begun, told, opened, gone, owed, doubt>>
flowVars == <<pc, intents, due, fresh>>
feedVars == <<bar, tick, sinceBar, sinceTick>>
histVars == <<warnedBar, hurt>>
vars == <<stratVars, saved, execVars, flowVars, feedVars, histVars>>

TradeIds == 0 .. MaxTrades

Adapters ==
  [closing : BOOLEAN,                     \* _closing
   urgent : BOOLEAN,                      \* _urgent_exit is not None
   closeId : TradeIds,                    \* _close_trade_id
   complete : BOOLEAN,                    \* model_complete
   carried : {"none", "entry", "exit"},   \* _carried
   blocked : Time,                        \* _entry_blocked_bar
   lastMin : Time]                        \* last_minute_ts

ExitOf(id) == [kind |-> "exit", id |-> id, fill |-> Never]
EntryAt(t) == [kind |-> "entry", id |-> 0, fill |-> t]
Intents == [kind : {"exit", "entry"}, id : TradeIds, fill : Time]
Stages == {"down", "idle", "venue", "deliver", "retry", "decide", "submit",
           "booked"}

TypeOK ==
  /\ model \in Machines
  /\ live \in Adapters
  /\ mirror \in TradeIds
  /\ gap \in BOOLEAN
  /\ saved \in [model : Machines, live : Adapters, gap : BOOLEAN]
  /\ slot \in TradeIds
  /\ begun \in BOOLEAN
  /\ told \in BOOLEAN
  /\ opened \in TradeIds
  /\ gone \in BOOLEAN
  /\ owed \in BOOLEAN
  /\ doubt \in BOOLEAN
  /\ pc \in Stages
  /\ intents \in Seq(Intents)
  /\ due \in BOOLEAN
  /\ fresh \in BOOLEAN
  /\ bar \in Nat /\ tick \in Nat
  /\ sinceBar \in Nat /\ sinceTick \in Nat
  /\ warnedBar \in Time
  /\ hurt \in BOOLEAN

-----------------------------------------------------------------------------
(* The adapter's methods, as functions of machine m and fields l.  A       *)
(* Verdict is the machine and the fields after a bar, and its intents.     *)

Verdict(m, l, out) == [model |-> m, live |-> l, out |-> out]

FundedExit(l) ==
  [l EXCEPT !.closing = TRUE, !.urgent = TRUE, !.closeId = mirror]
ExitNow(warm) == IF warm \/ mirror = 0 THEN <<>> ELSE <<ExitOf(mirror)>>

Act(m, l, signal, t, warm, sized) ==
  IF signal = "exit" /\ Trading(m) /\ m.holding
  THEN Verdict(RecordTargetExit(m, t), FundedExit(l), ExitNow(warm))
  ELSE IF /\ signal = "entry" /\ Admissible(m)
          /\ ~warm /\ l.complete /\ ~l.closing
          /\ l.blocked # m.bar /\ mirror = 0 /\ sized
       THEN Verdict(m, l, <<EntryAt(t)>>)
       ELSE Verdict(m, l, <<>>)

\* Due on the last verified channel although the evidence is incomplete.
FrozenExit(m, l, t, touch) ==
  /\ ~l.complete /\ m.holding /\ mirror # 0 /\ Trading(m)
  /\ \/ bar >= m.confirmed + MaxAge
     \/ t # m.fill /\ touch = "target"

OnMinute(m, l, touch, warm, sized) ==
  LET t == Minute(bar, tick)
      n == [l EXCEPT !.lastMin = t]
      signal == IF bar = m.bar THEN MinuteSignal(m, t, touch) ELSE "none"
  IN  IF t <= l.lastMin THEN Verdict(m, l, <<>>)
      ELSE IF FrozenExit(m, l, t, touch)
           THEN Verdict(RecordTargetExit(m, t + 1), FundedExit(n), ExitNow(warm))
      ELSE IF tick = MinutesPerBar - 1
           THEN Verdict(m, IF signal = "none" THEN n ELSE [n EXCEPT !.carried = signal], <<>>)
      ELSE Act(m, n, signal, t + 1, warm, sized)

\* Faulty: the exit is left to the bar that decided it.
DecidedExitOnly(l, warm) == <<>>

\* on_bar for a minute: an owed urgent exit goes first.
UrgentExit(l, warm) ==
  IF l.urgent /\ mirror # 0 /\ ~warm THEN <<ExitOf(l.closeId)>> ELSE <<>>

\* on_bar for a complete 4h bar: close it, open the next, then the carried signal.
On4h(m, l, move, inside, vouched, warm, sized) ==
  LET opens == OpenBar(CloseBar(m, move), bar + 1, inside, vouched)
      stopped == m.holding /\ ~opens.holding
      after == [IF stopped THEN FundedExit(l) ELSE l EXCEPT !.carried = "none"]
      next == IF warm THEN Verdict(opens, after, <<>>)
              ELSE Act(opens, after, l.carried, Minute(bar + 1, 0), warm, sized)
  IN  [next EXCEPT !.out = (IF stopped THEN ExitNow(warm) ELSE <<>>) \o next.out]

\* reconcile_execution_state with executor position p
Settled(m, l, p) ==
  Verdict(IF p = 0 THEN Flat(m) ELSE m,
          IF p = 0 /\ l.closing
          THEN [l EXCEPT !.closing = FALSE, !.urgent = FALSE, !.closeId = 0] ELSE l,
          <<>>)

\* on_external_position_closed
Told(m, l) ==
  Verdict(Flat(m), [l EXCEPT !.closing = FALSE, !.blocked = m.bar], <<>>)

\* on_startup
\* Faulty: a trade the snapshot does not know of is left alone.
StartedKnown(m, l, p) ==
  Verdict(IF p = 0 THEN Flat(m) ELSE m,
          IF p # 0 /\ l.closing
          THEN [l EXCEPT !.closing = TRUE, !.urgent = TRUE, !.closeId = p] ELSE l,
          <<>>)
Started(m, l, p) ==
  Verdict(IF p = 0 THEN Flat(m) ELSE m,
          IF p # 0 /\ (l.closing \/ ~m.holding)
          THEN [l EXCEPT !.closing = TRUE, !.urgent = TRUE, !.closeId = p] ELSE l,
          <<>>)

-----------------------------------------------------------------------------
(* The feed.  The item at (sinceBar, sinceTick) is live, what lies before  *)
(* it is replayed with bar.warmup set.  The last minute of LastBar comes   *)
(* again and again: the model's time stands still there, the loop does not. *)

Warm == bar < sinceBar \/ (bar = sinceBar /\ tick < sinceTick)
AtBoundary == tick = MinutesPerBar

After(b, k) ==
  IF b = LastBar /\ k = MinutesPerBar - 1 THEN <<b, k>>
  ELSE IF k = MinutesPerBar THEN <<b + 1, 0>> ELSE <<b, k + 1>>

\* The first live minute once item (b, k) is history: a completed 4h bar
\* comes with its last minute.
NextMinute(b, k) ==
  IF After(b, k)[2] = MinutesPerBar THEN <<b + 1, 0>> ELSE After(b, k)

MoveTo(p) == bar' = p[1] /\ tick' = p[2]
LiveFrom(p) == sinceBar' = p[1] /\ sinceTick' = p[2]

Advance ==
  /\ MoveTo(After(bar, tick))
  /\ IF Warm THEN UNCHANGED <<sinceBar, sinceTick>> ELSE LiveFrom(After(bar, tick))

\* The replay begins with a bar that is already part of the snapshot.
ReplayStart == IF saved.model.bar = 0 THEN 0 ELSE saved.model.bar - 1

Land(v) == model' = v.model /\ live' = v.live
Incomplete(l) == [l EXCEPT !.complete = FALSE]

\* Faulty: what the strategy lacks is not part of its snapshot.
SnapshotWithoutHealth(m, l, g) ==
  [model |-> m, live |-> [l EXCEPT !.complete = TRUE], gap |-> FALSE]
Snapshot(m, l, g) == [model |-> m, live |-> l, gap |-> g]

-----------------------------------------------------------------------------
(* Start and stop.                                                         *)

Fresh == [state |-> "idle", pulled |-> FALSE, confirmed |-> Never, expanding |-> FALSE,
          stop |-> FALSE, checked |-> FALSE, tradeable |-> TRUE, bar |-> 0,
          signal |-> Never, holding |-> FALSE, fill |-> Never, lastExit |-> Never]

FlatMachines ==
  {Fresh}
    \cup {[Fresh EXCEPT !.state = "seek", !.pulled = p] : p \in BOOLEAN}
    \cup UNION {{[Fresh EXCEPT !.state = "active", !.confirmed = 0, !.checked = TRUE,
                               !.expanding = e, !.tradeable = t] : t \in BOOLEAN}
                 : e \in BOOLEAN}

NewAdapter == [closing |-> FALSE, urgent |-> FALSE, closeId |-> 0, complete |-> TRUE,
               carried |-> "none", blocked |-> Never, lastMin |-> Never]

Init ==
  /\ model \in FlatMachines
  /\ live = NewAdapter
  /\ mirror = 0
  /\ gap = FALSE
  /\ saved = Snapshot(model, live, gap)
  /\ slot = 0 /\ begun = FALSE /\ told = TRUE /\ opened = 0
  /\ gone = FALSE /\ owed = FALSE /\ doubt = FALSE
  /\ pc = "down" /\ intents = <<>> /\ due = FALSE /\ fresh = TRUE
  /\ bar = 0 /\ tick = 0 /\ sinceBar = 0 /\ sinceTick = 0
  /\ warnedBar = Never /\ hurt = FALSE

\* Memory is lost; a live bar that was in progress is history from here on.
Stop ==
  /\ pc' = "down" /\ intents' = <<>> /\ due' = FALSE /\ fresh' = TRUE
  /\ model' = saved.model /\ live' = saved.live /\ gap' = saved.gap /\ mirror' = 0
  /\ owed' = FALSE /\ doubt' = FALSE
  /\ MoveTo(<<ReplayStart, 0>>)
  /\ IF Warm \/ (pc = "idle" /\ ~AtBoundary) THEN UNCHANGED <<sinceBar, sinceTick>>
     ELSE LiveFrom(NextMinute(bar, tick))
  /\ UNCHANGED <<saved, slot, begun, told, opened, gone, histVars>>

Crash == pc # "down" /\ Stop

Downtime ==
  /\ pc = "down"
  /\ LiveFrom(NextMinute(sinceBar, sinceTick))
  /\ UNCHANGED <<stratVars, saved, execVars, flowVars, bar, tick, histVars>>

\* reconcile, restore, reconcile_execution_state, the close still to be told, on_startup
Restart ==
  LET settled == Settled(saved.model, saved.live, slot)
      heard == IF told THEN settled ELSE Told(settled.model, settled.live)
  IN  /\ pc = "down"
      /\ pc' = "idle"
      /\ Land(Started(heard.model, heard.live, slot))
      /\ saved' = IF told THEN saved ELSE Snapshot(heard.model, heard.live, gap)
      /\ told' = TRUE
      /\ mirror' = slot
      /\ owed' = (begun /\ ~gone)
      /\ doubt' = gone
      /\ UNCHANGED <<gap, slot, begun, opened, gone, intents, due, fresh, feedVars, histVars>>

-----------------------------------------------------------------------------
(* Replayed items: the strategy sees them, nothing is sent or saved.       *)

Chained(whole) == whole /\ bar = model.bar /\ (~gap \/ Warm)

ReplayMinute(touch) ==
  LET v == OnMinute(model, IF gap THEN Incomplete(live) ELSE live, touch, TRUE, FALSE)
  IN  /\ pc = "idle" /\ Warm /\ ~AtBoundary
      /\ Land(Settled(v.model, v.live, slot))
      /\ Advance
      /\ UNCHANGED <<mirror, gap, saved, execVars, flowVars, histVars>>

\* The completed bars of a boundary.  evidence: a minute is missing of the
\* day but not of its last 4h bar ("day"), or of the 4h bar ("bar").
BoundaryVerdict(evidence, signalled, move, inside, vouched, sized) ==
  LET m == IF signalled THEN ObserveDaily(model, bar + 1) ELSE model
      l == IF evidence = "none" THEN live ELSE Incomplete(live)
  IN  IF bar < model.bar THEN Verdict(model, live, <<>>)
      ELSE IF Chained(evidence # "bar") THEN On4h(m, l, move, inside, vouched, Warm, sized)
      ELSE Verdict(model, Incomplete(live), <<>>)

\* data_health after a boundary
GapAfter(evidence) ==
  IF bar < model.bar THEN gap ELSE ~Chained(evidence # "bar")

Evidence == {"none", "day", "bar"}
Moves == {"stay", "onward", "void"}
Touches == {"none", "edge", "target"}

ReplayBoundary(evidence, signalled, move, inside, vouched) ==
  LET v == BoundaryVerdict(evidence, signalled, move, inside, vouched, FALSE)
  IN  /\ pc = "idle" /\ Warm /\ AtBoundary
      /\ signalled => evidence = "none" /\ Chained(TRUE)
      /\ Land(Settled(v.model, v.live, slot))
      /\ gap' = GapAfter(evidence)
      /\ Advance
      /\ UNCHANGED <<mirror, saved, execVars, flowVars, histVars>>

-----------------------------------------------------------------------------
(* A live item: the venue (minutes only), the owed exit, the decision.     *)

Goto(stage) == pc' = stage /\ UNCHANGED <<intents, due, fresh, feedVars>>

BarArrives ==
  /\ pc = "idle" /\ ~Warm
  /\ Goto(IF AtBoundary THEN "retry" ELSE "venue")
  /\ UNCHANGED <<stratVars, saved, execVars, histVars>>

\* The inventory, or the history that would explain a missing trade, fails.
VenueUnclear ==
  /\ pc = "venue"
  /\ Goto("retry")
  /\ doubt' = TRUE
  /\ UNCHANGED <<stratVars, saved, slot, begun, told, opened, gone, owed, histVars>>

VenueAgrees ==
  /\ pc = "venue" /\ ~gone
  /\ Goto("retry")
  /\ doubt' = FALSE
  /\ UNCHANGED <<stratVars, saved, slot, begun, told, opened, gone, owed, histVars>>

ClosureBooked ==
  /\ pc = "venue" /\ gone
  /\ Goto("deliver")
  /\ slot' = 0 /\ begun' = FALSE /\ gone' = FALSE /\ owed' = FALSE /\ doubt' = FALSE
  /\ told' = FALSE
  /\ UNCHANGED <<stratVars, saved, opened, histVars>>

Deliver ==
  LET v == Told(model, live)
  IN  /\ pc = "deliver"
      /\ Goto("retry")
      /\ Land(v)
      /\ mirror' = slot
      /\ saved' = Snapshot(v.model, v.live, gap)
      /\ told' = TRUE
      /\ warnedBar' = bar
      /\ UNCHANGED <<gap, slot, begun, opened, gone, owed, doubt, hurt>>

\* _do_exit with close_trade_id id (0: none)
Unanswerable == doubt /\ begun
Sendable(id) == slot # 0 /\ id \in {0, slot} /\ ~Unanswerable

NoClose(id) ==
  /\ slot = 0 \/ (id \in {0, slot} /\ Unanswerable)
  /\ UNCHANGED execVars
CloseAccepted(id) ==
  /\ Sendable(id) /\ ~gone
  /\ slot' = 0 /\ begun' = FALSE /\ owed' = FALSE
  /\ UNCHANGED <<told, opened, gone, doubt>>
\* No answer, or a refusal because the trade is closed already.
CloseFails(id, executed) ==
  /\ Sendable(id)
  /\ begun' = TRUE /\ owed' = TRUE
  /\ gone' = (gone \/ executed)
  /\ UNCHANGED <<slot, told, opened, doubt>>

Retried ==
  /\ pc = "retry" /\ owed
  /\ Goto("decide")
  /\ UNCHANGED <<stratVars, saved, histVars>>
RetryIdle == Retried /\ NoClose(0)
RetryAccepted == Retried /\ CloseAccepted(0)
RetryFails(executed) == Retried /\ CloseFails(0, executed)
NothingOwed ==
  /\ pc = "retry" /\ ~owed
  /\ Goto("decide")
  /\ UNCHANGED <<stratVars, saved, execVars, histVars>>

\* The verdict of the bar, and the snapshot before anything is submitted.
Decided(v, g, must, broken) ==
  /\ Land(v)
  /\ gap' = g
  /\ intents' = v.out
  /\ due' = (must \/ g \/ fresh \/ v.out # <<>>)
  /\ saved' = IF due' THEN Snapshot(v.model, v.live, g) ELSE saved
  /\ fresh' = FALSE
  /\ hurt' = (hurt \/ broken)
  /\ pc' = "submit"
  /\ UNCHANGED <<mirror, execVars, feedVars, warnedBar>>

\* daily: a daily entry of data_health outlives the 4h one.
DecideMinute(touch, sized, hole, daily) ==
  LET l == IF gap \/ hole THEN Incomplete(live) ELSE live
      v == OnMinute(model, l, touch, FALSE, sized)
  IN  /\ pc = "decide" /\ ~AtBoundary
      /\ daily => ~l.complete
      /\ Decided([v EXCEPT !.out = UrgentExit(live, FALSE) \o v.out], gap \/ hole, daily, hole)

DecideBoundary(evidence, signalled, move, inside, vouched, sized) ==
  /\ pc = "decide" /\ AtBoundary
  /\ signalled => evidence = "none" /\ Chained(TRUE)
  /\ Decided(BoundaryVerdict(evidence, signalled, move, inside, vouched, sized),
             GapAfter(evidence), TRUE, evidence # "none")

-----------------------------------------------------------------------------
(* The intents, in order, and the end of the bar.                          *)

NextIntent(kind) == pc = "submit" /\ intents # <<>> /\ Head(intents).kind = kind

ExitSubmitted ==
  /\ NextIntent("exit")
  /\ intents' = Tail(intents)
  /\ UNCHANGED <<stratVars, saved, pc, due, fresh, feedVars, histVars>>
ExitIdle == ExitSubmitted /\ NoClose(Head(intents).id)
ExitAccepted == ExitSubmitted /\ CloseAccepted(Head(intents).id)
ExitFails(executed) == ExitSubmitted /\ CloseFails(Head(intents).id, executed)

\* UnsafeLiveStateError: the obligation belongs to another trade.
ExitRaises ==
  /\ NextIntent("exit")
  /\ slot # 0 /\ Head(intents).id \notin {0, slot}
  /\ Stop

EntryFills ==
  /\ NextIntent("entry")
  /\ ~doubt /\ slot = 0 /\ opened < MaxTrades
  /\ slot' = opened + 1 /\ opened' = opened + 1
  /\ pc' = "booked"
  /\ UNCHANGED <<stratVars, saved, begun, told, gone, owed, doubt, intents, due, fresh,
                 feedVars, histVars>>

\* on_order_result for a filled entry
EntryRecorded ==
  LET t == Head(intents).fill
  IN  /\ pc = "booked"
      /\ Land(IF Admissible(model) THEN Verdict(RecordEntry(model, t), live, <<>>)
              ELSE Verdict(model, [live EXCEPT !.closing = TRUE, !.urgent = TRUE], <<>>))
      /\ intents' = Tail(intents)
      /\ pc' = "submit"
      /\ UNCHANGED <<mirror, gap, saved, execVars, due, fresh, feedVars, histVars>>

\* Refused by the guard, the executor or the venue, or its answer is lost; the
\* doubt about a lost one lasts until an operator has settled it.
EntryNotFilled(unclear) ==
  /\ NextIntent("entry")
  /\ live' = [live EXCEPT !.blocked = model.bar]
  /\ doubt' = (doubt \/ unclear)
  /\ intents' = Tail(intents)
  /\ UNCHANGED <<model, mirror, gap, saved, slot, begun, told, opened, gone, owed,
                 pc, due, fresh, feedVars, histVars>>

BarEnds ==
  LET v == Settled(model, live, slot)
  IN  /\ pc = "submit" /\ intents = <<>>
      /\ pc' = "idle"
      /\ Land(v)
      /\ mirror' = slot
      /\ saved' = IF due THEN Snapshot(v.model, v.live, gap) ELSE saved
      /\ due' = FALSE
      /\ Advance
      /\ UNCHANGED <<gap, execVars, intents, fresh, histVars>>

\* Liquidation, or a close by hand.
VenueCloses ==
  /\ slot # 0 /\ ~gone
  /\ gone' = TRUE
  /\ UNCHANGED <<stratVars, saved, slot, begun, told, opened, owed, doubt, flowVars,
                 feedVars, histVars>>

-----------------------------------------------------------------------------

Replay ==
  \/ \E touch \in Touches : ReplayMinute(touch)
  \/ \E evidence \in Evidence, signalled \in BOOLEAN, move \in Moves, inside \in BOOLEAN,
        vouched \in BOOLEAN : ReplayBoundary(evidence, signalled, move, inside, vouched)

Decide ==
  \/ \E touch \in Touches, sized \in BOOLEAN, hole \in BOOLEAN, daily \in BOOLEAN :
        DecideMinute(touch, sized, hole, daily)
  \/ \E evidence \in Evidence, signalled \in BOOLEAN, move \in Moves, inside \in BOOLEAN,
        vouched \in BOOLEAN, sized \in BOOLEAN :
        DecideBoundary(evidence, signalled, move, inside, vouched, sized)

Submit ==
  \/ ExitIdle \/ ExitAccepted \/ (\E x \in BOOLEAN : ExitFails(x)) \/ ExitRaises
  \/ EntryFills \/ EntryRecorded \/ (\E u \in BOOLEAN : EntryNotFilled(u))
  \/ BarEnds

LiveBar ==
  \/ BarArrives \/ VenueUnclear \/ VenueAgrees \/ ClosureBooked \/ Deliver
  \/ RetryIdle \/ RetryAccepted \/ (\E x \in BOOLEAN : RetryFails(x)) \/ NothingOwed
  \/ Submit

Next == Restart \/ Replay \/ LiveBar \/ Decide \/ Crash \/ Downtime \/ VenueCloses

Spec == Init /\ [][Next]_vars

\* A replayed item is left behind and a live one is decided, whatever the verdict.
ReplayGoesOn == Warm /\ pc = "idle" /\ MoveTo(After(bar, tick))
DecisionIsTaken == pc = "decide" /\ pc' = "submit"

\* The process is restarted whenever it stops and is killed finitely often;
\* the loop goes on; a call that every bar repeats is answered now and then.
FairSpec ==
  /\ Spec
  /\ <>[][~Crash]_vars
  /\ WF_vars(Restart \/ LiveBar)
  /\ WF_<<bar, tick>>(ReplayGoesOn)
  /\ WF_pc(DecisionIsTaken)
  /\ SF_vars(VenueAgrees \/ ClosureBooked)
  /\ SF_vars(RetryAccepted \/ ExitAccepted)

-----------------------------------------------------------------------------
(* Properties.                                                             *)

\* A held position has a target: its channel is confirmed, intact, current
\* and younger than the age limit, so that an exit signal can still come.
\* _exit in open_bar clears the position of a range that breaks or ends.
HeldHasTarget ==
  model.holding => Trading(model) /\ model.bar < model.confirmed + MaxAge

\* Whatever a stop interrupted, between two bars the trade that the executor
\* holds is either modelled, with a target, or on its way out, and the model
\* holds nothing that the executor does not (on_startup, reconcile_execution_state).
\* A trade on its way out has an exit that every live minute repeats, and the
\* exit names that trade (_urgent_exit, _close_trade_id).
OwnedIsManaged ==
  /\ pc = "idle" => /\ slot # 0 => model.holding \/ live.closing
                    /\ model.holding => slot # 0
  /\ live.closing /\ slot # 0 => live.urgent /\ live.closeId = slot

\* No position is held past the age limit on the clock, also when evidence is
\* missing and the model's own bars stand still (impulse_range_live.py:229).
NeverHeldPastExpiry ==
  pc = "idle" /\ model.holding => live.lastMin < Minute(model.confirmed + MaxAge, 0)

\* A held position can always leave: every variable keeps its type, and a
\* position has an exit signal ahead of it, in the model's bars and on the clock.
HeldCanLeave == TypeOK /\ HeldHasTarget /\ NeverHeldPastExpiry

\* What blocks entries blocks them durably, whatever restarts come between: in
\* the 4h bar in which the loop told the strategy of an external close nothing
\* is entered again, and after a live bar that lacked evidence nothing at all,
\* in this run or a later one, since that is saved before anything is submitted.
EntriesRespectBlocks ==
  [][opened' # opened => ~hurt /\ warnedBar # (IF AtBoundary THEN bar + 1 ELSE bar)]_vars

\* A trade whose close is owed by the durable snapshot is closed.
ClosingFinishes == (saved.live.closing /\ slot # 0) ~> (slot = 0)

\* README.md:131, "Funded range recovery retains an owned close obligation
\* until venue flatness": an exit never names a trade other than the held one.
\* The code breaks this one (README.md, Disagreements).
ExitNamesHeldTrade ==
  NextIntent("exit") /\ slot # 0 => Head(intents).id \in {0, slot}

=============================================================================
