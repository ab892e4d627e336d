------------------------------ MODULE CloseRange ------------------------------
(***************************************************************************)
(* The funded breakout ladder: the adapter of strategy/close_range_live.py *)
(* around BreakoutMachine, driven by the loop of engine/portfolio_live.py  *)
(* over one executor slot per unit, through restarts that replay the bars  *)
(* of the downtime.                                                        *)
(*                                                                         *)
(* Day d is MinutesPerDay minutes and then, at tick MinutesPerDay, the     *)
(* completed daily bar, whose close is the next open.  An executor slot is *)
(* what LiveExecutor guarantees of one slot, reduced to the trade it       *)
(* holds, the close it owes and what the venue knows.                      *)
(***************************************************************************)
EXTENDS BreakoutMachine, SequencesExt

CONSTANTS
  MinutesPerDay,
  Window,     \* REVERSAL_ENTRY_WINDOW, in minutes
  MaxTrades,  \* bound: trades opened
  LastDay     \* bound: the day whose last minute repeats for ever

ASSUME MinutesType == MinutesPerDay \in Nat \ {0} /\ Window \in Nat /\ Window < MinutesPerDay
ASSUME BoundsType == MaxTrades \in Nat /\ LastDay \in Nat

VARIABLES
  model,    \* machine
  live,     \* the adapter's own fields
  mirror,   \* state.positions: the slots that hold a trade, as the loop copied them
  gap,      \* engine data health has an entry for this strategy
  saved,    \* the durable snapshot of model, live and gap
  slots,    \* the trade of each slot that the executor holds, durable
  begun,    \* slots whose trade has a close command, durable
  untold,   \* slots with an external close to be acknowledged, durable
  gone,     \* slots whose trade the venue has closed
  owed,     \* slots in _pending_exits
  doubt,    \* _inventory_unavailable, _missing_remote or an unresolved entry
  pc,       \* where the loop is
  intents,  \* intents left to submit
  due,      \* snapshot_due of this bar
  fresh,    \* ~strategy_snapshot_saved: this run has not saved a snapshot
  day, tick,            \* the feed item being processed, or the next one
  sinceDay, sinceTick,  \* the first feed item that is live
  \* history
  traded,   \* <<campaign, unit>> of every trade opened, in order
  kept,     \* how many of them opened before the last snapshot
  torn,     \* the process has stopped between a fill and the snapshot after it
  raised    \* what has raised: an event told at startup, startup, or a handler

stratVars == <<model, live, mirror, gap>>
execVars == <<slots, begun, untold, gone, owed, doubt>>
flowVars == <<pc, intents, due, fresh>>
feedVars == <<day, tick, sinceDay, sinceTick>>
histVars == <<traded, kept, torn, raised>>
vars == <<stratVars, saved, execVars, flowVars, feedVars, histVars>>

NoReversal == [id |-> -1]
NoTrade == [id |-> -1]

Adapters ==
  [urgent : SUBSET Ks,    \* _urgent_intents, by slot
   closing : SUBSET Ks,   \* _closing_slots
   aborting : SUBSET Ks,  \* _aborting_slots
   reversal : {NoReversal} \cup [id : Nat, side : Sides, at : Nat]]  \* _pending_reversal
Trades == {NoTrade} \cup [id : Nat, side : Sides, far : BOOLEAN]
Intents ==
  [kind : {"exit"}, k : Ks, id : Int, side : {"none"}, abort : BOOLEAN]
    \cup [kind : {"entry"}, k : Ks, id : Nat, side : Sides, abort : {FALSE}]
Stages == {"down", "idle", "venue", "deliver", "retry", "decide", "submit",
           "filled"}

TypeOK ==
  /\ model \in Machines
  /\ live \in Adapters
  /\ mirror \subseteq Ks
  /\ gap \in BOOLEAN
  /\ saved.model \in Machines /\ saved.live \in Adapters /\ saved.gap \in BOOLEAN
  /\ slots \in [Ks -> Trades]
  /\ begun \subseteq Ks /\ untold \subseteq Ks /\ gone \subseteq Ks /\ owed \subseteq Ks
  /\ doubt \in BOOLEAN
  /\ pc \in Stages
  /\ intents \in Seq(Intents)
  /\ due \in BOOLEAN /\ fresh \in BOOLEAN
  /\ {day, tick, sinceDay, sinceTick} \subseteq Nat
  /\ traded \in Seq(Nat \X Ks) /\ kept \in Nat /\ torn \in BOOLEAN
  /\ raised \in {"none", "redelivery", "startup", "handler"}

Minute(d, t) == d * MinutesPerDay + t
Held(s) == {k \in Ks : s[k] # NoTrade}
InOrder(ks) ==
  CHOOSE q \in [1 .. Cardinality(ks) -> ks] : \A i, j \in DOMAIN q : i < j => q[i] < q[j]

ExitOf(k, abort) == [kind |-> "exit", k |-> k, id |-> -1, side |-> "none", abort |-> abort]
EntryOf(k, id, side) == [kind |-> "entry", k |-> k, id |-> id, side |-> side, abort |-> FALSE]
ExitsOf(ks, abort) == [i \in 1 .. Cardinality(ks) |-> ExitOf(InOrder(ks)[i], abort)]

-----------------------------------------------------------------------------
(* The adapter's methods, as functions of machine m and fields l.  A       *)
(* Verdict is both after the call, the intents it returns, and whether it  *)
(* ran to its end (ok) or raised.                                          *)

Verdict(m, l, out, ok) == [model |-> m, live |-> l, out |-> out, ok |-> ok]
Quiet(m, l) == Verdict(m, l, <<>>, TRUE)
Raises(m, l) == Verdict(m, l, <<>>, FALSE)

NewAdapter ==
  [urgent |-> {}, closing |-> {}, aborting |-> {}, reversal |-> NoReversal]

\* _abandon_unfunded_parent
AbandonParent(m, l, id) ==
  Quiet(IF IsOf(m, "paper") /\ m.campaign.id = id
        THEN [m EXCEPT !.campaign = NoCampaign] ELSE m,
        IF l.reversal.id = id THEN [l EXCEPT !.reversal = NoReversal] ELSE l)

AbandonReversal(m, l) ==
  IF l.reversal = NoReversal THEN Quiet(m, l) ELSE AbandonParent(m, l, l.reversal.id)

\* The undone unit of an entry that did not fill, or must not be sent.
Undone(m, l, k, id) ==
  IF k = 0 THEN AbandonParent(m, l, id)
  ELSE IF IsLatestUnfilled(m, k) THEN Quiet(DiscardUnfilledAddon(m, k), l)
  ELSE Raises(m, l)
UndoneIfLive(m, l, k, id) ==
  IF k = 0 \/ IsOf(m, "live") THEN Undone(m, l, k, id) ELSE Quiet(m, l)

\* _mark_out_of_range_fills
OutOfRange(m) ==
  IF IsOf(m, "live")
  THEN {k \in DOMAIN m.campaign.units \ {0} :
          m.campaign.units[k].origin = "live" /\ m.campaign.units[k].far}
  ELSE {}
Marked(m, l) == [l EXCEPT !.aborting = @ \cup OutOfRange(m)]

\* reconcile_execution_state, with the slots p that hold a trade
Settled(m, l, p) ==
  LET flat == l.aborting \ p
  IN  Quiet(IF Occupied(m)
            THEN [m EXCEPT !.campaign = WithoutUnits(@, flat \cap DOMAIN @.units)] ELSE m,
            [l EXCEPT !.aborting = @ \cap p, !.closing = @ \cap p])

\* Faulty: they are closed once, and forgotten if that fails.
SurvivorsOnce(l, p) == [l EXCEPT !.urgent = @ \cup (p \ {0})]

\* The parent is gone: surviving children follow it.
Survivors(l, p) == [l EXCEPT !.closing = @ \cup (p \ {0}), !.urgent = @ \cup (p \ {0})]

\* on_external_position_closed
ClosedOutside(m, l, k, p) ==
  IF ~Occupied(m)
  THEN IF k \in l.closing THEN Quiet(m, [l EXCEPT !.closing = @ \ {k}]) ELSE Raises(m, l)
  ELSE IF k = 0 THEN Quiet(ParentClosed(m), Survivors(l, p))
  ELSE IF HasUnit(m, k)
       THEN Quiet(ForgetClosedChild(m, k), [l EXCEPT !.aborting = @ \ {k}])
  ELSE Raises(m, l)

\* Faulty: in the order of the slots.
ToldParentFirst(m, l, ks, p) ==
  LET Step(v, k) ==
        LET w == ClosedOutside(v.model, v.live, k, p)
        IN  IF v.ok THEN w ELSE v
  IN  FoldLeft(Step, Quiet(m, l), InOrder(ks))

\* on_external_positions_closed: children before their parent.
Told(m, l, ks, p) ==
  LET Step(v, k) ==
        LET w == ClosedOutside(v.model, v.live, k, p)
        IN  IF v.ok THEN w ELSE v
  IN  FoldLeft(Step, Quiet(m, l), InOrder(ks \ {0}) \o InOrder(ks \cap {0}))

-----------------------------------------------------------------------------
(* on_startup, with executor slots s.                                      *)

\* Units that the snapshot knows as decided only are confirmed or undone,
\* the latest first.
AddonsResumed(m, l, s) ==
  LET Step(v, k) ==
        IF ~v.ok \/ v.model.campaign.units[k].origin # "paper" THEN v
        ELSE IF s[k] # NoTrade
             THEN IF s[k].side = v.model.campaign.side
                  THEN Quiet(ConfirmOwnedFill(v.model, k, s[k].far), v.live)
                  ELSE Raises(v.model, v.live)
             ELSE Undone(v.model, v.live, k, v.model.campaign.id)
      ks == DOMAIN m.campaign.units \ {0}
      v == FoldLeft(Step, Quiet(m, l), Reverse(InOrder(ks)))
  IN  [v EXCEPT !.live = Marked(v.model, @)]

ParentResumed(m, l, s) ==
  IF ~IsOf(m, "paper") THEN Quiet(m, l)
  ELSE IF s[0] # NoTrade
       THEN IF s[0].side = m.campaign.side THEN Quiet(ConfirmOwnedFill(m, 0, FALSE), l)
            ELSE Raises(m, l)
  ELSE IF Held(s) = {} THEN Quiet(Vacated(m), l)
  ELSE Quiet(m, l)

\* The checks at the end: owned trades and the live campaign agree.
Agreed(m, l, s) ==
  /\ Held(s) # {} => IsOf(m, "live")
  /\ IsOf(m, "live") => s[0] # NoTrade \/ l.closing # {}
  /\ Occupied(m) => Held(s) \subseteq DOMAIN m.campaign.units

Started(m, l, s) ==
  LET parent == ParentResumed(m, l, s)
      v == IF parent.ok /\ IsOf(parent.model, "live")
           THEN AddonsResumed(parent.model, parent.live, s) ELSE parent
  IN  IF l.reversal # NoReversal /\ Held(s) = {0} /\ l.closing = {}
      THEN IF Occupied(m) /\ m.campaign.id = l.reversal.id
           THEN Quiet(ConfirmOwnedFill(m, 0, FALSE), [l EXCEPT !.reversal = NoReversal])
           ELSE Raises(m, l)
      ELSE IF ~v.ok THEN v
      ELSE IF Held(s) # {} /\ ~Occupied(v.model) /\ Held(s) \subseteq v.live.closing
           THEN Quiet(v.model, [v.live EXCEPT !.urgent = @ \cup Held(s)])
      ELSE [v EXCEPT !.ok = Agreed(v.model, v.live, s)]

-----------------------------------------------------------------------------
(* on_bar.                                                                 *)

\* Faulty: the slot of the parent is free, a child is still on its way out.
ReversalOnFreeSlot(m, l, t) ==
  IF l.reversal = NoReversal THEN Quiet(m, l)
  ELSE IF l.reversal.side \notin Mode \/ t > l.reversal.at + Window
       THEN AbandonReversal(m, l)
  ELSE IF 0 \notin mirror
       THEN Verdict(IF Occupied(m) THEN m
                    ELSE [m EXCEPT !.campaign = NewCampaign(l.reversal.id, l.reversal.side, "paper")],
                    l, <<EntryOf(0, l.reversal.id, l.reversal.side)>>, TRUE)
  ELSE Quiet(m, l)

\* The pending reversal on a live bar at minute t: it is abandoned when its
\* window is over, and gets its campaign back once the old stack is gone.
ReversalAt(m, l, t) ==
  IF l.reversal = NoReversal THEN Quiet(m, l)
  ELSE IF l.reversal.side \notin Mode \/ t > l.reversal.at + Window
       THEN AbandonReversal(m, l)
  ELSE IF l.closing = {} /\ mirror = {}
       THEN Verdict(IF Occupied(m) THEN m
                    ELSE [m EXCEPT !.campaign = NewCampaign(l.reversal.id, l.reversal.side, "paper")],
                    l, <<EntryOf(0, l.reversal.id, l.reversal.side)>>, TRUE)
  ELSE Quiet(m, l)

OnMinute(m, l, t, reached, warm) ==
  LET priced == ObserveHistoricalPrices(m, reached)
      v == ReversalAt(priced, [l EXCEPT !.urgent = {}], t)
  IN  IF warm THEN Quiet(priced, l)
      ELSE [v EXCEPT !.out = ExitsOf(l.urgent, FALSE)
                               \o ExitsOf((l.aborting \cap mirror) \ l.closing, TRUE) \o @]

\* _reconcile_warmup_decisions, one decision: exits stay actionable, what
\* was missed is not entered.
WarmStep(v, d) ==
  IF ~v.ok THEN v
  ELSE CASE d.kind = "campaign_exit" ->
              Quiet(v.model, [v.live EXCEPT !.closing = @ \cup mirror, !.urgent = @ \cup mirror])
         [] d.kind = "paper_parent" -> AbandonParent(v.model, v.live, d.id)
         [] d.kind = "paper_addon" -> UndoneIfLive(v.model, v.live, d.k, d.id)
         [] OTHER -> v

\* A parent that must wait for the close of the old stack.
Deferred(m, l, d) ==
  IF d.k = 0
  THEN Quiet([m EXCEPT !.campaign = NoCampaign],
             [l EXCEPT !.reversal = [id |-> d.id, side |-> d.side, at |-> Minute(d.id, 0)]])
  ELSE Quiet(m, l)

\* _intents, one decision of a live bar
LiveStep(v, d) ==
  IF ~v.ok THEN v
  ELSE CASE d.kind = "campaign_exit" ->
              Verdict(v.model, [v.live EXCEPT !.closing = @ \cup mirror],
                      v.out \o ExitsOf(mirror, FALSE), TRUE)
         [] d.kind \in {"paper_parent", "paper_addon"} ->
              LET undone == UndoneIfLive(v.model, v.live, d.k, d.id)
                  deferred == Deferred(v.model, v.live, d)
              IN  IF v.live.aborting # {} \/ ~v.model.verified \/ ~v.model.funded
                  THEN [undone EXCEPT !.out = v.out]
                  ELSE IF v.live.closing # {} THEN [deferred EXCEPT !.out = v.out]
                  ELSE IF (d.k > 0 /\ 0 \notin mirror) \/ d.k \in mirror THEN v
                  ELSE [v EXCEPT !.out = @ \o <<EntryOf(d.k, d.id, d.side)>>]
         [] OTHER -> v

\* on_bar for a complete daily bar, with the evidence e of the candle
OnDaily(m, l, e, warm) ==
  LET v == ReversalAt(m, [l EXCEPT !.urgent = {}], Minute(day + 1, 0))
      Step(w, d) == IF warm THEN WarmStep(w, d) ELSE LiveStep(w, d)
      Act(n, f) ==
        LET seen == ObserveClose(ObserveHistoricalPrices(n, e.reached),
                                 e.back, e.recovered, e.candidate)
            opened == ApplyOpen(seen, e.fits, TRUE)
        IN  FoldLeft(Step, Quiet(opened.machine, f), opened.decisions)
      acted == Act(v.model, v.live)
  IN  IF warm THEN Act(m, l)
      ELSE [acted EXCEPT !.out = ExitsOf(l.urgent, FALSE) \o @]

-----------------------------------------------------------------------------
(* on_order_result and post_entry_exits.                                   *)

ExitReported(m, l, i) ==
  LET done == [l EXCEPT !.closing = @ \ {i.k}]
  IN  IF ~i.abort THEN Quiet(m, done)
      ELSE Quiet(IF HasUnit(m, i.k) THEN ForgetClosedChild(m, i.k) ELSE m,
                 [done EXCEPT !.aborting = @ \ {i.k}])

EntryReported(m, l, i, far) ==
  IF ~HasUnit(m, i.k) THEN Raises(m, l)
  ELSE LET n == ConfirmOwnedFill(m, i.k, far)
           f == IF i.k = 0 THEN [l EXCEPT !.reversal = NoReversal] ELSE Marked(n, l)
       IN  Verdict(n, f, IF i.k \in f.aborting THEN <<ExitOf(i.k, TRUE)>> ELSE <<>>, TRUE)

-----------------------------------------------------------------------------
(* The feed: as in ImpulseRange, what lies before (sinceDay, sinceTick) is *)
(* replayed with bar.warmup set.  The last minute of LastDay comes again   *)
(* and again.                                                              *)

Warm == day < sinceDay \/ (day = sinceDay /\ tick < sinceTick)
AtBoundary == tick = MinutesPerDay
After(d, t) ==
  IF d = LastDay /\ t = MinutesPerDay - 1 THEN <<d, t>>
  ELSE IF t = MinutesPerDay THEN <<d + 1, 0>> ELSE <<d, t + 1>>
NextMinute(d, t) ==
  IF After(d, t)[2] = MinutesPerDay THEN <<d + 1, 0>> ELSE After(d, t)
MoveTo(p) == day' = p[1] /\ tick' = p[2]
LiveFrom(p) == sinceDay' = p[1] /\ sinceTick' = p[2]
Advance ==
  /\ MoveTo(After(day, tick))
  /\ IF Warm THEN UNCHANGED <<sinceDay, sinceTick>> ELSE LiveFrom(After(day, tick))
ReplayStart == IF saved.model.day = 0 THEN 0 ELSE saved.model.day - 1

Land(v) == model' = v.model /\ live' = v.live
Snapshot(m, l, g) == [model |-> m, live |-> [l EXCEPT !.urgent = {}], gap |-> g]
Save(m, l, g) == saved' = Snapshot(m, l, g) /\ kept' = Len(traded)

Evidence ==
  [reached : {{}, {0}}, back : BOOLEAN, recovered : BOOLEAN, candidate : Candidates,
   fits : BOOLEAN]

\* Choices that cannot show in the verdict are taken once.
Plain(m, e) ==
  /\ e.reached # {} => Priced(m)
  /\ e.back \/ e.recovered => Occupied(m) /\ e.reached = {}
  /\ e.recovered => ~e.back /\ m.campaign.age + 1 >= RecoveryAge
  /\ e.fits => e.candidate # NoCandidate /\ Occupied(m) /\ e.reached = {} /\ ~e.back
Evidences(m) == {e \in Evidence : Plain(m, e)}

-----------------------------------------------------------------------------
(* Start and stop.                                                         *)

Blank == [campaign |-> NoCampaign, exit |-> "none", candidate |-> NoCandidate, day |-> 0,
          verified |-> TRUE, funded |-> TRUE]

\* warmup and seed_campaign: the machine may start in the middle of a
\* hypothetical campaign.
Seeded(s) == [Blank EXCEPT !.campaign = NewCampaign(0, s, "historical")]

Init ==
  /\ model \in {Blank} \cup {Seeded(s) : s \in Sides}
  /\ live = NewAdapter
  /\ mirror = {} /\ gap = FALSE
  /\ saved = Snapshot(model, live, gap)
  /\ slots = [k \in Ks |-> NoTrade]
  /\ begun = {} /\ untold = {} /\ gone = {} /\ owed = {} /\ doubt = FALSE
  /\ pc = "down" /\ intents = <<>> /\ due = FALSE /\ fresh = TRUE
  /\ day = 0 /\ tick = 0 /\ sinceDay = 0 /\ sinceTick = 0
  /\ traded = <<>> /\ kept = 0 /\ torn = FALSE /\ raised = "none"

\* Memory is lost; a live bar that was in progress is history from here on.
Stop ==
  /\ pc' = "down" /\ intents' = <<>> /\ due' = FALSE /\ fresh' = TRUE
  /\ model' = saved.model /\ live' = saved.live /\ gap' = saved.gap /\ mirror' = {}
  /\ owed' = {} /\ doubt' = FALSE
  /\ MoveTo(<<ReplayStart, 0>>)
  /\ IF Warm \/ (pc = "idle" /\ ~AtBoundary) THEN UNCHANGED <<sinceDay, sinceTick>>
     ELSE LiveFrom(NextMinute(day, tick))
  /\ torn' = (torn \/ kept # Len(traded))
  /\ UNCHANGED <<saved, slots, begun, untold, gone, traded, kept>>

Crash == pc # "down" /\ Stop /\ UNCHANGED raised

\* A handler that raises takes the process down; the step is done otherwise.
Unless(ok, step) == IF ok THEN step ELSE Stop /\ raised' = "handler"

Downtime ==
  /\ pc = "down"
  /\ LiveFrom(NextMinute(sinceDay, sinceTick))
  /\ UNCHANGED <<stratVars, saved, execVars, flowVars, day, tick, histVars>>

\* reconcile, restore, reconcile_execution_state, the closes still to be
\* told, on_startup
Booted ==
  LET settled == Settled(saved.model, saved.live, Held(slots))
      heard == Told(settled.model, settled.live, untold, Held(slots))
      started == Started(heard.model, heard.live, slots)
  IN  [verdict |-> IF heard.ok THEN started ELSE heard,
       heard |-> heard]

Restart ==
  /\ pc = "down"
  /\ Booted.verdict.ok /\ Restorable(saved.model)
  /\ pc' = "idle"
  /\ Land(Booted.verdict)
  /\ IF untold = {} THEN UNCHANGED <<saved, kept>>
     ELSE Save(Booted.heard.model, Booted.heard.live, gap)
  /\ untold' = {}
  /\ mirror' = Held(slots)
  /\ owed' = begun \ gone
  /\ doubt' = (gone # {})
  /\ UNCHANGED <<gap, slots, begun, gone, intents, due, fresh, feedVars, traded, torn, raised>>

RestartRefused ==
  /\ pc = "down" /\ raised \in {"none", "handler"}
  /\ ~(Booted.verdict.ok /\ Restorable(saved.model))
  /\ raised' = IF Booted.heard.ok THEN "startup" ELSE "redelivery"
  /\ UNCHANGED <<stratVars, saved, execVars, flowVars, feedVars, traded, kept, torn>>

-----------------------------------------------------------------------------
(* Replayed items: the strategy sees them, nothing is sent or saved.       *)

\* The chain of complete daily bars holds; a replay may repair it.
Chained == day = model.day /\ (~gap \/ Warm)
Reaches == {{}} \cup (IF Priced(model) THEN {{0}} ELSE {})

ReplayMinute(reached) ==
  LET v == OnMinute(model, live, Minute(day, tick), reached, TRUE)
  IN  /\ pc = "idle" /\ Warm /\ ~AtBoundary
      /\ Land(Settled(v.model, v.live, mirror))
      /\ Advance
      /\ UNCHANGED <<mirror, gap, saved, execVars, flowVars, histVars>>

ReplayDaily(e) ==
  LET v == OnDaily(model, live, e, TRUE)
  IN  /\ pc = "idle" /\ Warm /\ AtBoundary /\ Chained
      /\ Unless(v.ok, /\ Land(Settled(v.model, v.live, mirror))
                      /\ gap' = FALSE
                      /\ Advance
                      /\ UNCHANGED <<mirror, saved, execVars, flowVars, histVars>>)

\* A minute of the day is missing, or a day before it was.
ReplayIncomplete ==
  /\ pc = "idle" /\ Warm /\ AtBoundary /\ day >= model.day
  /\ Land(Settled(model, live, mirror))
  /\ gap' = TRUE
  /\ Advance
  /\ UNCHANGED <<mirror, saved, execVars, flowVars, histVars>>

ReplaySeen ==
  /\ pc = "idle" /\ Warm /\ AtBoundary /\ day < model.day
  /\ Advance
  /\ UNCHANGED <<stratVars, saved, execVars, flowVars, histVars>>

-----------------------------------------------------------------------------
(* A live item: the venue (minutes only), owed exits, the decision.        *)

Goto(stage) == pc' = stage /\ UNCHANGED <<intents, due, fresh, feedVars>>

BarArrives ==
  /\ pc = "idle" /\ ~Warm
  /\ Goto(IF AtBoundary THEN "retry" ELSE "venue")
  /\ UNCHANGED <<stratVars, saved, execVars, histVars>>

VenueUnclear ==
  /\ pc = "venue"
  /\ Goto("retry")
  /\ doubt' = TRUE
  /\ UNCHANGED <<stratVars, saved, slots, begun, untold, gone, owed, histVars>>

VenueAgrees ==
  /\ pc = "venue" /\ gone = {}
  /\ Goto("retry")
  /\ doubt' = FALSE
  /\ UNCHANGED <<stratVars, saved, slots, begun, untold, gone, owed, histVars>>

\* Every trade that the venue closed and that its history explains (ks) is booked.
ClosureBooked(ks) ==
  /\ pc = "venue" /\ ks # {} /\ ks \subseteq gone
  /\ Goto("deliver")
  /\ slots' = [k \in Ks |-> IF k \in ks THEN NoTrade ELSE slots[k]]
  /\ begun' = begun \ ks /\ owed' = owed \ ks /\ gone' = gone \ ks
  /\ untold' = untold \cup ks
  /\ doubt' = (gone # ks)
  /\ UNCHANGED <<stratVars, saved, histVars>>

Deliver ==
  LET v == Told(model, live, untold, Held(slots))
  IN  /\ pc = "deliver"
      /\ Unless(v.ok, /\ Goto("retry")
                      /\ Land(v)
                      /\ mirror' = Held(slots)
                      /\ Save(v.model, v.live, gap)
                      /\ untold' = {}
                      /\ UNCHANGED <<gap, slots, begun, gone, owed, doubt, traded, torn, raised>>)

\* _do_exit of slot k
Sendable(k) == slots[k] # NoTrade /\ ~(doubt /\ k \in begun)
NoClose(k) == ~Sendable(k) /\ UNCHANGED execVars
CloseAccepted(k) ==
  /\ Sendable(k) /\ k \notin gone
  /\ slots' = [slots EXCEPT ![k] = NoTrade]
  /\ begun' = begun \ {k} /\ owed' = owed \ {k}
  /\ UNCHANGED <<untold, gone, doubt>>
\* No answer, or a refusal because the trade is closed already.
CloseFails(k, executed) ==
  /\ Sendable(k)
  /\ begun' = begun \cup {k} /\ owed' = owed \cup {k}
  /\ gone' = IF executed THEN gone \cup {k} ELSE gone
  /\ UNCHANGED <<slots, untold, doubt>>

\* retry_pending_exits: one call after the other, before the strategy sees
\* the bar; the mirror is not refreshed.
Retried(k) ==
  /\ pc = "retry" /\ k \in owed
  /\ UNCHANGED <<stratVars, saved, flowVars, feedVars, histVars>>
RetryAccepted(k) == Retried(k) /\ CloseAccepted(k)
RetryExecuted(k) == Retried(k) /\ k \notin gone /\ CloseFails(k, TRUE)
RetryDone ==
  /\ pc = "retry"
  /\ Goto("decide")
  /\ UNCHANGED <<stratVars, saved, execVars, histVars>>

\* The verdict of the bar, and the snapshot before anything is submitted.
Decided(v, g, must) ==
  Unless(v.ok, /\ Land(v)
               /\ gap' = g
               /\ intents' = v.out
               /\ due' = (must \/ g \/ fresh \/ v.out # <<>>)
               /\ IF due' THEN Save(v.model, v.live, g) ELSE UNCHANGED <<saved, kept>>
               /\ fresh' = FALSE
               /\ pc' = "submit"
               /\ UNCHANGED <<mirror, execVars, feedVars, traded, torn, raised>>)

DecideMinute(reached, hole) ==
  /\ pc = "decide" /\ ~AtBoundary
  /\ Decided(OnMinute(model, live, Minute(day, tick), reached, FALSE), gap \/ hole, reached # {})

DecideDaily(e) ==
  /\ pc = "decide" /\ AtBoundary /\ Chained
  /\ Decided(OnDaily(model, live, e, FALSE), FALSE, TRUE)

SkipDaily ==
  /\ pc = "decide" /\ AtBoundary
  /\ Decided(Quiet(model, live), TRUE, TRUE)

-----------------------------------------------------------------------------
(* The intents, in order, and the end of the bar.                          *)

NextIntent(kind) == pc = "submit" /\ intents # <<>> /\ Head(intents).kind = kind
Reported(v) ==
  /\ Land(v)
  /\ intents' = Tail(intents) \o v.out
  /\ UNCHANGED <<mirror, gap, saved, pc, due, fresh, feedVars, kept, torn, raised>>

ExitAccepted ==
  /\ NextIntent("exit")
  /\ CloseAccepted(Head(intents).k)
  /\ Reported(ExitReported(model, live, Head(intents)))
  /\ UNCHANGED traded
ExitIdle ==
  /\ NextIntent("exit")
  /\ NoClose(Head(intents).k)
  /\ Reported(Quiet(model, live))
  /\ UNCHANGED traded
ExitFails(executed) ==
  /\ NextIntent("exit")
  /\ CloseFails(Head(intents).k, executed)
  /\ Reported(Quiet(model, live))
  /\ UNCHANGED traded

EntryFills(far) ==
  LET i == Head(intents)
  IN  /\ NextIntent("entry")
      /\ ~doubt /\ ~gap /\ slots[i.k] = NoTrade /\ Len(traded) < MaxTrades
      /\ i.k = 0 => ~far
      /\ slots' = [slots EXCEPT ![i.k] = [id |-> i.id, side |-> i.side, far |-> far]]
      /\ traded' = Append(traded, <<i.id, i.k>>)
      /\ pc' = "filled"
      /\ UNCHANGED <<stratVars, saved, begun, untold, gone, owed, doubt, intents, due, fresh,
                     feedVars, kept, torn, raised>>

\* on_order_result and post_entry_exits for a filled entry
FillReported ==
  LET i == Head(intents)
      v == EntryReported(model, live, i, slots[i.k].far)
  IN  /\ pc = "filled"
      /\ Unless(v.ok, /\ pc' = "submit"
                      /\ Land(v)
                      /\ intents' = Tail(intents) \o v.out
                      /\ UNCHANGED <<mirror, gap, saved, execVars, due, fresh, feedVars, histVars>>)

\* Refused by the guard, the executor or the venue, or its answer is lost;
\* the doubt about a lost one lasts until an operator has settled it.
EntryNotFilled(unclear) ==
  LET i == Head(intents)
      v == Undone(model, live, i.k, i.id)
  IN  /\ NextIntent("entry")
      /\ Unless(v.ok, /\ doubt' = (doubt \/ unclear)
                      /\ Reported(v)
                      /\ UNCHANGED <<slots, begun, untold, gone, owed, traded>>)

BarEnds ==
  LET v == Settled(model, live, Held(slots))
  IN  /\ pc = "submit" /\ intents = <<>>
      /\ pc' = "idle"
      /\ Land(v)
      /\ mirror' = Held(slots)
      /\ IF due THEN Save(v.model, v.live, gap) ELSE UNCHANGED <<saved, kept>>
      /\ due' = FALSE
      /\ Advance
      /\ UNCHANGED <<gap, execVars, intents, fresh, traded, torn, raised>>

\* Liquidation, or a close by hand.
VenueCloses(k) ==
  /\ slots[k] # NoTrade /\ k \notin gone
  /\ gone' = gone \cup {k}
  /\ UNCHANGED <<stratVars, saved, slots, begun, untold, owed, doubt, flowVars, feedVars,
                 histVars>>

-----------------------------------------------------------------------------

Replay ==
  \/ \E r \in Reaches : ReplayMinute(r)
  \/ \E e \in Evidences(model) : ReplayDaily(e)
  \/ ReplayIncomplete \/ ReplaySeen

Venue ==
  \/ VenueUnclear \/ VenueAgrees
  \/ \E ks \in SUBSET gone : ClosureBooked(ks)
  \/ Deliver
  \/ \E k \in owed : RetryAccepted(k) \/ RetryExecuted(k)
  \/ RetryDone

Decide ==
  \/ \E r \in Reaches, hole \in BOOLEAN : DecideMinute(r, hole)
  \/ \E e \in Evidences(model) : DecideDaily(e)
  \/ SkipDaily

Submit ==
  \/ ExitAccepted \/ ExitIdle \/ (\E x \in BOOLEAN : ExitFails(x))
  \/ \E far \in BOOLEAN : EntryFills(far)
  \/ FillReported
  \/ (\E u \in BOOLEAN : EntryNotFilled(u))
  \/ BarEnds

Next ==
  \/ Restart \/ RestartRefused \/ Downtime \/ Crash
  \/ Replay \/ BarArrives \/ Venue \/ Decide \/ Submit
  \/ \E k \in Ks : VenueCloses(k)

Spec == Init /\ [][Next]_vars

-----------------------------------------------------------------------------
(* Properties.                                                             *)

\* No order of bars, results, rejections, external closes and restarts makes
\* a method of the ladder raise, or its checks at startup fail, but for the
\* redelivery of a close (see ClosedSlotIsBookkept): a handler that raises
\* ends the process, and a failed check keeps it from starting.
NeverRaises == raised \in {"none", "redelivery"}

\* Between bars every trade that the ladder owns is a funded unit of the
\* campaign, or queued for closure (_closing_slots): no trade is left that
\* neither the campaign's exit nor a retry would ever close.
OwnedIsManaged ==
  pc = "idle" =>
    \A k \in Held(slots) :
      k \in live.closing \/ (HasUnit(model, k) /\ model.campaign.units[k].origin = "live")

\* Trades that are held together are of one campaign: a reversal waits until
\* every unit of the old stack is flat, also through restarts.
OneCampaignAtATime ==
  \A j, k \in Held(slots) : slots[j].id = slots[k].id

\* Ages, units and slots stay within what persistent_state can restore, and
\* what is held belongs to one campaign.
LadderIsWhole == TypeOK /\ OneCampaignAtATime

\* A lifetime slot of a campaign is opened at most once: a closed child is
\* removed "without replenishing its lifetime slot".
\* The code breaks this one (README.md, Disagreements).
OpenedOnce == \A i, j \in DOMAIN traded : traded[i] = traded[j] => i = j

\* It holds as long as no stop separates a fill from the snapshot after it.
OpenedOnceIfKept == ~torn => OpenedOnce

\* For a unit queued for closure that the venue closes first, "only durable
\* close bookkeeping remains" (on_external_position_closed): it never keeps
\* the process from starting.
ClosedSlotIsBookkept == raised # "redelivery"

=============================================================================
