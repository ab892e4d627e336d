------------------------------- MODULE MaCross -------------------------------
(***************************************************************************)
(* One timeframe of the moving-average strategy of strategy/ma_cross.py,   *)
(* driven by the loop of engine/portfolio_live.py over one executor slot,  *)
(* through restarts that replay the bars of the downtime.                  *)
(*                                                                         *)
(* The feed is the sequence of verdicts of the completed bars of the       *)
(* timeframe: a bar that is replayed has the verdict it had when it was    *)
(* live.  Minutes come between them.  The executor slot is what            *)
(* LiveExecutor guarantees of one slot, reduced to the side it holds, the  *)
(* close it owes and what it knows of the venue.                           *)
(***************************************************************************)
EXTENDS CrossMemory, FiniteSets

CONSTANTS
  MaxBars,   \* bound: completed bars; minutes go on after the last
  MaxTrades  \* bound: trades the slot opens

ASSUME MaxBarsType == MaxBars \in Nat \ {0}
ASSUME MaxTradesType == MaxTrades \in Nat

VARIABLES
  mem,      \* the strategy's memory of the timeframe
  mirror,   \* the side in its StrategyState
  gap,      \* engine data health has an entry for this strategy
  saved,    \* the durable snapshot of mem and gap
  slot,     \* the side of the trade the executor holds, durable
  begun,    \* that trade has a close command, durable
  gone,     \* how the venue has closed the trade the slot holds ("no": it has not)
  told,     \* the cause of an external close still to be delivered, durable
  unclear,  \* the slot's last trade was closed for an unknown cause, durable
  opened,   \* trades opened so far
  owed,     \* _pending_exits
  doubt,    \* _inventory_unavailable, or the trade is in _missing_remote
  pc,       \* where the loop is
  kind,     \* what it processes: a minute or a completed bar
  intents,  \* orders left to submit
  due,      \* snapshot_due of this bar
  fresh,    \* this run has not processed a live bar
  feed,     \* the verdicts of the completed bars
  \* history
  winFrom, lossFrom,  \* bar at which the cooldown started (0: none since an external close)
  enteredAt,          \* bar of the last entry (0: none since a manual close)
  eligible            \* a live bar was taken in after the last external close

stratVars == <<mem, mirror, gap>>
execVars == <<slot, begun, gone, told, unclear, opened, owed, doubt>>
flowVars == <<pc, kind, intents, due, fresh>>
histVars == <<winFrom, lossFrom, enteredAt, eligible>>
vars == <<stratVars, saved, execVars, flowVars, feed, histVars>>

Stages == {"down", "replay", "idle", "venue", "deliver", "retry", "decide", "submit"}

TypeOK ==
  /\ mem \in Memory
  /\ mirror \in Sides
  /\ gap \in BOOLEAN
  /\ saved \in [mem : Memory, gap : BOOLEAN]
  /\ slot \in Sides
  /\ begun \in BOOLEAN
  /\ gone \in {"no", "self", "manual", "liquidated"}
  /\ told \in Causes \cup {"none"}
  /\ unclear \in BOOLEAN
  /\ opened \in 0 .. MaxTrades
  /\ owed \in BOOLEAN /\ doubt \in BOOLEAN
  /\ pc \in Stages
  /\ kind \in {"minute", "bar"}
  /\ intents \in Seq(Entries \cup {"exit"})
  /\ due \in BOOLEAN /\ fresh \in BOOLEAN
  /\ feed \in Seq(Verdicts)
  /\ winFrom \in Nat /\ lossFrom \in Nat /\ enteredAt \in Nat
  /\ eligible \in BOOLEAN

-----------------------------------------------------------------------------

Snapshot(m, g) == [mem |-> Durable(m), gap |-> g]

\* A hold is an operator's, set on a flat slot under the verdict it names.
Init ==
  /\ \E v \in Verdicts : \E h \in {"none"} \cup ({v} \ {"FLAT"}) :
       /\ feed = <<v>>
       /\ mem = [at |-> 1, verdict |-> v, win |-> 0, loss |-> 0, pending |-> "none",
                 hold |-> h, reset |-> FALSE, restart |-> FALSE, startup |-> FALSE]
  /\ mirror = "none" /\ gap = FALSE
  /\ saved = Snapshot(mem, FALSE)
  /\ slot = "none" /\ begun = FALSE /\ gone = "no" /\ told = "none" /\ unclear = FALSE
  /\ opened = 0 /\ owed = FALSE /\ doubt = FALSE
  /\ pc = "down" /\ kind = "minute" /\ intents = <<>> /\ due = FALSE /\ fresh = TRUE
  /\ winFrom = 0 /\ lossFrom = 0 /\ enteredAt = 0 /\ eligible = TRUE

\* What an external close of this cause, heard at bar b, leaves of the history.
Heard(cause, b) ==
  /\ winFrom' = 0
  /\ lossFrom' = IF cause = "manual" THEN 0 ELSE b
  /\ enteredAt' = IF cause = "manual" THEN 0 ELSE enteredAt
  /\ eligible' = FALSE

-----------------------------------------------------------------------------
(* Start, stop and what happens while the process is down.                 *)

Crash ==
  /\ pc # "down"
  /\ pc' = "down" /\ kind' = "minute" /\ intents' = <<>> /\ due' = FALSE /\ fresh' = TRUE
  /\ mem' = saved.mem /\ gap' = saved.gap /\ mirror' = "none"
  /\ owed' = FALSE /\ doubt' = FALSE
  /\ UNCHANGED <<saved, slot, begun, gone, told, unclear, opened, feed, histVars>>

Downtime(v) ==
  /\ pc = "down" /\ Len(feed) < MaxBars
  /\ feed' = Append(feed, v)
  /\ UNCHANGED <<stratVars, saved, execVars, flowVars, histVars>>

\* classify_ma_external_close.py, with the trader stopped and no later trade
Classify(cause) ==
  LET m == IF cause = "manual" THEN ExternallyClosed(saved.mem, cause) ELSE saved.mem
  IN  /\ pc = "down" /\ unclear /\ ~begun /\ told = "none"
      /\ unclear' = FALSE
      /\ saved' = Snapshot(m, saved.gap)
      /\ mem' = Durable(m)
      /\ IF cause = "manual" THEN Heard(cause, 0) ELSE UNCHANGED histVars
      /\ UNCHANGED <<mirror, gap, slot, begun, gone, told, opened, owed, doubt,
                     flowVars, feed>>

\* reconcile, restore, reconcile_execution_state, the close still to be told, on_startup
Restart ==
  LET settled == Reconciled(saved.mem, slot)
      heard == IF told = "none" THEN settled ELSE ExternallyClosed(settled, told)
  IN  /\ pc = "down"
      /\ pc' = "replay"
      /\ mem' = Started(heard, slot)
      /\ mirror' = slot
      /\ saved' = IF told = "none" THEN saved ELSE Snapshot(heard, gap)
      /\ IF told = "none" THEN UNCHANGED <<unclear, histVars>>
         ELSE unclear' = (told = "unknown") /\ Heard(told, heard.at)
      /\ told' = "none"
      /\ owed' = (begun /\ gone = "no")
      /\ doubt' = (gone # "no")
      /\ UNCHANGED <<gap, slot, begun, gone, opened, kind, intents, due, fresh, feed>>

-----------------------------------------------------------------------------
(* Replayed bars: the strategy sees them, nothing is sent or saved.        *)

Behind == mem.at < Len(feed)

\* The candles of the next bar are complete, which also repairs a gap.
ReplayBar ==
  LET n == TakenIn(mem, feed[mem.at + 1])
  IN  /\ pc = "replay" /\ Behind
      /\ mem' = Reconciled(Replayed(n, mirror, n.verdict # mem.verdict).mem, slot)
      /\ gap' = FALSE
      /\ UNCHANGED <<mirror, saved, execVars, flowVars, feed, histVars>>

\* They are not: this bar and all after it are withheld from the strategy.
ReplayBroken ==
  /\ pc = "replay" /\ Behind
  /\ gap' = TRUE
  /\ pc' = "idle"
  /\ UNCHANGED <<mem, mirror, saved, execVars, kind, intents, due, fresh, feed, histVars>>

ReplayDone ==
  /\ pc = "replay" /\ ~Behind
  /\ pc' = "idle"
  /\ UNCHANGED <<stratVars, saved, execVars, kind, intents, due, fresh, feed, histVars>>

-----------------------------------------------------------------------------
(* A live bar: the venue (minutes only), the owed exit, the decision.      *)

Goto(stage) == pc' = stage /\ UNCHANGED <<intents, due, fresh>>

MinuteArrives ==
  /\ pc = "idle"
  /\ kind' = "minute"
  /\ Goto("venue")
  /\ UNCHANGED <<stratVars, saved, execVars, feed, histVars>>

BarCompletes(v) ==
  /\ pc = "idle" /\ ~fresh /\ Len(feed) < MaxBars
  /\ feed' = Append(feed, v)
  /\ kind' = "bar"
  /\ Goto("retry")
  /\ UNCHANGED <<stratVars, saved, execVars, histVars>>

\* The inventory, or the history that would explain a missing trade, fails.
VenueUnclear ==
  /\ pc = "venue"
  /\ Goto("retry")
  /\ doubt' = TRUE
  /\ UNCHANGED <<stratVars, saved, slot, begun, gone, told, unclear, opened, owed,
                 kind, feed, histVars>>

VenueAgrees ==
  /\ pc = "venue" /\ gone = "no"
  /\ Goto("retry")
  /\ doubt' = FALSE
  /\ UNCHANGED <<stratVars, saved, slot, begun, gone, told, unclear, opened, owed,
                 kind, feed, histVars>>

\* The venue may not say why; it never calls another close a liquidation.
ClosureBooked(cause) ==
  /\ pc = "venue" /\ gone # "no"
  /\ cause \in {"unknown", IF gone = "liquidated" THEN "liquidated" ELSE "manual"}
  /\ Goto("deliver")
  /\ slot' = "none" /\ begun' = FALSE /\ gone' = "no" /\ owed' = FALSE /\ doubt' = FALSE
  /\ told' = cause
  /\ UNCHANGED <<stratVars, saved, unclear, opened, kind, feed, histVars>>

Deliver ==
  LET m == ExternallyClosed(mem, told)
  IN  /\ pc = "deliver"
      /\ Goto("retry")
      /\ mem' = m
      /\ mirror' = slot
      /\ saved' = Snapshot(m, gap)
      /\ unclear' = (told = "unknown")
      /\ told' = "none"
      /\ Heard(told, m.at)
      /\ UNCHANGED <<gap, slot, begun, gone, opened, owed, doubt, kind, feed>>

\* _do_exit
Unanswerable == doubt /\ begun
NoClose ==
  /\ slot = "none" \/ Unanswerable
  /\ UNCHANGED execVars
CloseAccepted ==
  /\ slot # "none" /\ ~Unanswerable /\ gone = "no"
  /\ slot' = "none" /\ begun' = FALSE /\ owed' = FALSE
  /\ UNCHANGED <<gone, told, unclear, opened, doubt>>
\* No answer, or a refusal because the trade is closed already.
CloseFails(executed) ==
  /\ slot # "none" /\ ~Unanswerable
  /\ begun' = TRUE /\ owed' = TRUE
  /\ gone' = IF executed /\ gone = "no" THEN "self" ELSE gone
  /\ UNCHANGED <<slot, told, unclear, opened, doubt>>

Retried ==
  /\ pc = "retry" /\ owed
  /\ Goto("decide")
  /\ UNCHANGED <<stratVars, saved, kind, feed, histVars>>
RetryIdle == Retried /\ NoClose
RetryAccepted == Retried /\ CloseAccepted
RetryFails(executed) == Retried /\ CloseFails(executed)
NothingOwed ==
  /\ pc = "retry" /\ ~owed
  /\ Goto("decide")
  /\ UNCHANGED <<stratVars, saved, execVars, kind, feed, histVars>>

\* Outcome v of the bar, and the snapshot before anything is submitted.
Decided(v, g) ==
  /\ pc = "decide" /\ pc' = "submit"
  /\ mem' = v.mem /\ mirror' = v.side /\ gap' = g
  /\ intents' = v.out
  /\ due' = (kind = "bar" \/ g \/ fresh \/ v.out # <<>>)
  /\ saved' = IF due' THEN Snapshot(v.mem, g) ELSE saved
  /\ fresh' = FALSE
  /\ winFrom' = IF v.mem.win > mem.win THEN v.mem.at ELSE winFrom
  /\ lossFrom' = IF v.mem.loss > mem.loss THEN v.mem.at ELSE lossFrom
  /\ UNCHANGED <<execVars, kind, feed, enteredAt>>

DecideMinute(hole, result) ==
  /\ kind = "minute"
  /\ Decided(Startup(mem, mirror, result), gap \/ hole)
  /\ UNCHANGED eligible

DecideBar(result) ==
  /\ kind = "bar" /\ ~gap /\ Behind
  /\ Decided(OnBar(mem, mirror, feed[mem.at + 1], result), FALSE)
  /\ eligible' = TRUE

\* The bar is incomplete, or one before it is missing.
SkipBar ==
  /\ kind = "bar"
  /\ Decided(Outcome(mem, mirror, <<>>), TRUE)
  /\ UNCHANGED eligible

-----------------------------------------------------------------------------
(* The orders, one after the other, and the end of the bar.                *)

Submits(order) == pc = "submit" /\ intents # <<>> /\ Head(intents) = order
Loop == UNCHANGED <<mirror, gap, saved, pc, kind, due, fresh, feed>>
Done == intents' = Tail(intents)

ExitSubmitted == Submits("exit") /\ Done /\ Loop /\ UNCHANGED <<mem, histVars>>
ExitIdle == ExitSubmitted /\ NoClose
ExitAccepted == ExitSubmitted /\ CloseAccepted
ExitFails(executed) == ExitSubmitted /\ CloseFails(executed)

\* Faulty: missing market evidence is not looked at.
AdmittedUnseen == ~doubt
\* entry_admission_reason
Admitted == ~doubt /\ ~gap

\* _do_entry closes an opposite trade first.
FlipCloses(side) ==
  /\ Submits(side) /\ Admitted /\ slot \notin {"none", side}
  /\ CloseAccepted
  /\ Loop /\ UNCHANGED <<mem, intents, histVars>>

FlipFails(side, executed) ==
  /\ Submits(side) /\ Admitted /\ slot \notin {"none", side}
  /\ CloseFails(executed)
  /\ mem' = Rejected(mem)
  /\ Done /\ Loop /\ UNCHANGED histVars

EntryFills(side) ==
  /\ Submits(side) /\ Admitted /\ slot = "none" /\ opened < MaxTrades
  /\ slot' = side /\ opened' = opened + 1 /\ unclear' = FALSE
  /\ enteredAt' = mem.at
  /\ Done /\ Loop
  /\ UNCHANGED <<mem, begun, gone, told, owed, doubt, winFrom, lossFrom, eligible>>

\* Refused by the guard, the executor or the venue, or its answer is lost; the
\* doubt about a lost one lasts until an operator has settled it.
EntryNotFilled(side, lost) ==
  /\ Submits(side)
  /\ mem' = Rejected(mem)
  /\ doubt' = (doubt \/ lost)
  /\ Done /\ Loop
  /\ UNCHANGED <<slot, begun, gone, told, unclear, opened, owed, histVars>>

BarEnds ==
  LET m == Reconciled(mem, slot)
  IN  /\ pc = "submit" /\ intents = <<>>
      /\ pc' = "idle"
      /\ mem' = m
      /\ mirror' = slot
      /\ saved' = IF due THEN Snapshot(m, gap) ELSE saved
      /\ due' = FALSE
      /\ UNCHANGED <<gap, execVars, kind, intents, fresh, feed, histVars>>

\* Liquidation, or a close by hand.
VenueCloses(how) ==
  /\ slot # "none" /\ gone = "no"
  /\ gone' = how
  /\ UNCHANGED <<stratVars, saved, slot, begun, told, unclear, opened, owed, doubt,
                 flowVars, feed, histVars>>

-----------------------------------------------------------------------------

Replay == ReplayBar \/ ReplayBroken \/ ReplayDone

Venue == VenueUnclear \/ VenueAgrees \/ (\E cause \in Causes : ClosureBooked(cause)) \/ Deliver

Decide ==
  \E result \in Results :
    (\E hole \in BOOLEAN : DecideMinute(hole, result)) \/ DecideBar(result) \/ SkipBar

Entry(side) ==
  \/ FlipCloses(side) \/ EntryFills(side)
  \/ \E x \in BOOLEAN : FlipFails(side, x) \/ EntryNotFilled(side, x)

LiveBar ==
  \/ MinuteArrives \/ (\E v \in Verdicts : BarCompletes(v))
  \/ Venue
  \/ RetryIdle \/ RetryAccepted \/ (\E x \in BOOLEAN : RetryFails(x)) \/ NothingOwed
  \/ Decide
  \/ ExitIdle \/ ExitAccepted \/ (\E x \in BOOLEAN : ExitFails(x))
  \/ (\E side \in Entries : Entry(side))
  \/ BarEnds

Offline == (\E v \in Verdicts : Downtime(v)) \/ (\E c \in {"manual", "liquidated"} : Classify(c))

Next ==
  \/ Restart \/ Replay \/ LiveBar \/ Crash \/ Offline
  \/ \E how \in {"manual", "liquidated"} : VenueCloses(how)

Spec == Init /\ [][Next]_vars

\* The process is restarted whenever it stops and is killed finitely often;
\* the loop goes on; a call that every minute repeats is answered now and then.
FairSpec ==
  /\ Spec
  /\ <>[][~Crash]_vars
  /\ WF_vars(Restart \/ Replay \/ LiveBar)
  /\ SF_vars(VenueAgrees) /\ SF_vars(\E cause \in Causes : ClosureBooked(cause))
  /\ SF_vars(RetryAccepted) /\ SF_vars(ExitAccepted)

-----------------------------------------------------------------------------
(* Properties.                                                             *)

\* Changes of verdict in the feed after bar a, up to bar b.
Changes(a, b) == Cardinality({i \in a + 1 .. b : feed[i] # feed[i - 1]})

\* Those of them that spend a slot, in the modes in which the feed alone decides.
Spending(a, b) ==
  Cardinality({i \in a + 1 .. b :
    feed[i] # feed[i - 1] /\ (Mode = "directional_transition" => feed[i] # "FLAT")})

Left(count, from) ==
  IF from = 0 \/ Spending(from, mem.at) >= count THEN 0
  ELSE count - Spending(from, mem.at)

\* Every change of verdict that the mode counts spends one slot of each cooldown that runs and
\* nothing else does, whether the bar was live or replayed after a restart, and
\* however often a crash makes it come again (_consume_cooldown, last_bar_ts).
CooldownMatchesFeed ==
  mem.win = Left(WinCount, winFrom) /\ mem.loss = Left(LossCount, lossFrom)

\* What is to be sent again is what the present verdict asks for: the startup
\* path sends the verdict, not the target (_reconcile_startup_positions).
TargetIsCurrent ==
  mem.pending \in Entries => mem.pending = Target(mem.verdict)

\* Exposure against the verdict is never left alone: between two bars either
\* the executor owes its close, or the venue has closed it, or the strategy has
\* a target or a restored position to act upon.
OpposedIsObligated ==
  pc = "idle" /\ Opposes(slot, mem.verdict) =>
    begun \/ gone # "no" \/ mem.pending # "none" \/ (mem.restart /\ mem.startup)

\* What the strategy remembers is right: its cooldowns count the feed, and
\* exposure against the verdict is in somebody's charge.
MemoryIsRight == CooldownMatchesFeed /\ OpposedIsObligated

\* Nothing is opened while a cooldown runs: neither a transition, nor the
\* retry of an unconfirmed target, nor the catch-up of a restart.
NoEntryWhileCooling == [][opened' # opened => ~Cooling(mem)]_vars

\* A verdict is entered once: after an entry there is another only when the
\* verdict has changed since, or the operator closed the trade by hand.  A
\* restart never submits the same transition again (portfolio_live.py:691).
OneEntryPerVerdict ==
  [][opened' # opened => enteredAt = 0 \/ Changes(enteredAt, mem.at) > 0]_vars

\* What is opened is on the side of the newest completed bar, also when the
\* strategy has not seen that bar.
EntryOnLatestVerdict ==
  [][opened' # opened => slot' = Target(feed[Len(feed)])]_vars

\* Entries follow the verdicts: one for each, on the side of the newest.
EntriesFollowVerdicts == OneEntryPerVerdict /\ EntryOnLatestVerdict

\* After an external close no trade is opened before a live bar of the
\* timeframe: neither warmup nor a minute does (DEPLOYMENT.md, section 10).
ReplacementAwaitsBoundary == [][opened' # opened => eligible]_vars

\* Exposure against the durable verdict is closed, or the verdict turns.
OpposedIsClosed ==
  Opposes(slot, saved.mem.verdict) ~> ~Opposes(slot, saved.mem.verdict)

\* tests/test_cooldown_modes.py:274, a manual flat hold "blocks only the missed
\* direction until verdict changes": it is released by the change.
\* The code breaks this one (README.md, Disagreements).
HoldEndsWithItsVerdict ==
  pc = "idle" /\ ~fresh /\ mem.hold # "none" =>
    \A i \in 1 .. mem.at : feed[i] = mem.hold

\* ma_cross.py:459, "A pending action for an older verdict is no longer a valid
\* retry": a retried close still serves the verdict.
\* The code breaks this one (README.md, Disagreements).
RetriedCloseIsCurrent ==
  [][RetryAccepted => slot # Target(mem.verdict)]_vars

=============================================================================
