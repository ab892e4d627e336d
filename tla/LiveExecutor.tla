---------------------------- MODULE LiveExecutor ----------------------------
(***************************************************************************)
(* Real-money execution: engine/live_executor.py driven by the live loop   *)
(* of engine/portfolio_live.py, against a venue that answers late or not   *)
(* at all and closes positions on its own, with a process that may stop    *)
(* between any two durable writes and is restarted by systemd.             *)
(*                                                                         *)
(* The process is one task, so pc names the await or the commit it is at.  *)
(* A step ends at every await and at every commit; what lies between is    *)
(* one action.  The venue, its network and the crash interleave with it.   *)
(***************************************************************************)
EXTENDS CommandLedger

CONSTANTS
  DecisionSide,  \* "long" or "short", for each decision
  Owners,        \* strategy bindings
  OwnerOf,       \* the binding that owns a slot
  BoundSlots,    \* slots whose exits carry metadata close_trade_id
  NoDecision,
  Manual         \* origin of a trade opened by hand at the venue

ASSUME DecisionSideType == DecisionSide \in [Decisions -> {"long", "short"}]
ASSUME OwnerOfType == OwnerOf \in [Slots -> Owners]
ASSUME BoundSlotsType == BoundSlots \subseteq Slots
ASSUME NoDecisionIsNone == NoDecision \notin Decisions /\ Manual \notin Decisions
                           /\ Manual # NoDecision

VARIABLES
  \* the venue and the wire to it
  venue,      \* "none" (not opened yet), "running" or "closed", per trade
  origin,     \* the decision whose request opened a trade, or Manual
  entryWire,  \* new_trade requests in transit, per decision
  closeWire,  \* trades with a close_trade request in transit
  reply,      \* the venue's answer to the call the process awaits
  \* the process's memory
  pos,        \* the trade each slot holds
  owed,       \* _pending_exits: the trade a failed close was meant for
  missing,    \* _missing_remote
  unknown,    \* _unknown_remote
  invDown,    \* _inventory_unavailable
  heard,      \* external closes applied to the strategies' state, per trade
  pc,         \* where the task is
  cur, ct,    \* slot and trade of the close in progress
  want,       \* decision of the entry in progress
  back,       \* what the close in progress returns to
  todo,       \* slots left in the loop being run
  seen,       \* running trades as read before the last await
  \* the strategies' durable snapshots, and history
  saved,      \* external closes folded into the durable strategy state
  acked       \* closes whose acceptance reached the process

venueVars == <<venue, origin, entryWire, closeWire>>
memVars == <<pos, owed, missing, unknown, invDown>>
flowVars == <<pc, cur, ct, want, back, todo, seen>>
vars == <<ledgerVars, venueVars, reply, memVars, heard, flowVars, saved, acked>>

\* One execution path at a time: the stages of a bar, the awaits inside them
\* and the points where only a commit separates two steps.
Stages == {"down", "boot", "deliver", "idle", "inventory", "history", "closing",
           "close_result", "close_apply", "retry", "strategy", "exit_wait",
           "exit_result", "exit_apply", "entry_inventory", "entry_decide",
           "entry_wait", "entry_result", "entry_apply"}

TypeOK ==
  /\ LedgerTypeOK
  /\ venue \in [Trades -> {"none", "running", "closed"}]
  /\ origin \in [Trades -> Decisions \cup {NoDecision, Manual}]
  /\ entryWire \in [Decisions -> Nat]
  /\ closeWire \in SUBSET Trades
  /\ reply \in {"none", "done", "refused"}
  /\ pos \in [Slots -> Trades \cup {NoTrade}]
  /\ owed \in [Slots -> Trades \cup {NoTrade}]
  /\ missing \in SUBSET Trades
  /\ unknown \in SUBSET Trades
  /\ invDown \in BOOLEAN
  /\ heard \in [Trades -> Nat]
  /\ pc \in Stages
  /\ cur \in Slots \cup {NoSlot}
  /\ ct \in Trades \cup {NoTrade}
  /\ want \in Decisions \cup {NoDecision}
  /\ back \in {"none", "idle", "retry", "strategy", "entry"}
  /\ todo \in SUBSET Slots
  /\ seen \in SUBSET Trades
  /\ saved \in [Trades -> Nat]
  /\ acked \in SUBSET Trades

-----------------------------------------------------------------------------

Running == {t \in Trades : venue[t] = "running"}
Closed == {t \in Trades : venue[t] = "closed"}
Held == {pos[s] : s \in Slots} \ {NoTrade}
Owed == {s \in Slots : owed[s] # NoTrade}
SideOf(t) == DecisionSide[origin[t]]

\* entries_blocked_reason on inventory i, missing trades m, unknown trades u
Blocked(i, m, u) == i \/ m # {} \/ u # {} \/ UnresolvedEntry

\* Faulty: every bar repeats the close.
NeverUnresolved(t) == t = NoTrade

\* An exit is not repeated while its outcome may still be read from the venue.
CloseUnresolved(t) == (invDown \/ t \in missing) /\ closeCmd[t] = "submitted"

Cleared == [s \in Slots |-> NoTrade]

Init ==
  /\ LedgerInit
  /\ venue = [t \in Trades |-> "none"]
  /\ origin = [t \in Trades |-> NoDecision]
  /\ entryWire = [d \in Decisions |-> 0]
  /\ closeWire = {}
  /\ reply = "none"
  /\ pos = Cleared
  /\ owed = Cleared
  /\ missing = {} /\ unknown = {} /\ invDown = FALSE
  /\ heard = [t \in Trades |-> 0]
  /\ pc = "down"
  /\ cur = NoSlot /\ ct = NoTrade /\ want = NoDecision /\ back = "none"
  /\ todo = {} /\ seen = {}
  /\ saved = [t \in Trades |-> 0]
  /\ acked = {}

-----------------------------------------------------------------------------
(* The venue.  A request may be executed, refused or lost; the answer is   *)
(* kept only while the process still awaits that very call.                *)

Awaiting(d) == pc = "entry_wait" /\ want = d

VenueOpens(d, t) ==
  /\ entryWire[d] > 0
  /\ venue[t] = "none"
  /\ entryWire' = [entryWire EXCEPT ![d] = @ - 1]
  /\ venue' = [venue EXCEPT ![t] = "running"]
  /\ origin' = [origin EXCEPT ![t] = d]
  /\ reply' = IF Awaiting(d) THEN "done" ELSE reply
  /\ UNCHANGED <<ledgerVars, closeWire, memVars, heard, flowVars, saved, acked>>

VenueRefusesEntry(d) ==
  /\ entryWire[d] > 0
  /\ entryWire' = [entryWire EXCEPT ![d] = @ - 1]
  /\ reply' = IF Awaiting(d) THEN "refused" ELSE reply
  /\ UNCHANGED <<ledgerVars, venue, origin, closeWire, memVars, heard, flowVars,
                 saved, acked>>

\* Closing a trade that is no longer running is an error at the venue.
VenueCloses(t) ==
  /\ t \in closeWire
  /\ closeWire' = closeWire \ {t}
  /\ venue' = IF venue[t] = "running" THEN [venue EXCEPT ![t] = "closed"] ELSE venue
  /\ reply' = IF pc = "exit_wait" /\ ct = t
              THEN IF venue[t] = "running" THEN "done" ELSE "refused"
              ELSE reply
  /\ UNCHANGED <<ledgerVars, origin, entryWire, memVars, heard, flowVars, saved, acked>>

CloseRequestLost(t) ==
  /\ t \in closeWire
  /\ closeWire' = closeWire \ {t}
  /\ UNCHANGED <<ledgerVars, venue, origin, entryWire, reply, memVars, heard,
                 flowVars, saved, acked>>

\* Liquidation, stop or a manual close at the venue.
VenueClosesAlone(t) ==
  /\ venue[t] = "running"
  /\ venue' = [venue EXCEPT ![t] = "closed"]
  /\ UNCHANGED <<ledgerVars, origin, entryWire, closeWire, reply, memVars, heard,
                 flowVars, saved, acked>>

ManualOpen(t) ==
  /\ venue[t] = "none"
  /\ venue' = [venue EXCEPT ![t] = "running"]
  /\ origin' = [origin EXCEPT ![t] = Manual]
  /\ UNCHANGED <<ledgerVars, entryWire, closeWire, reply, memVars, heard, flowVars,
                 saved, acked>>

-----------------------------------------------------------------------------
(* Moves of the task: Goto keeps the scratch variables, Return clears      *)
(* them and goes to stage p.                                               *)

Goto(p) == pc' = p /\ UNCHANGED <<cur, ct, want, back, todo, seen>>

Return(p, rest) ==
  /\ pc' = p
  /\ cur' = NoSlot /\ ct' = NoTrade /\ want' = NoDecision /\ back' = "none"
  /\ todo' = rest /\ seen' = {}

(* After an exit: the retry loop goes on, a flip reads the inventory, any  *)
(* other intent is done.  ok tells whether the trade was closed; the       *)
(* faulty form opens the flip's entry whether or not the close succeeded.  *)
AfterAnyExit(ok) ==
  \/ /\ back = "retry" /\ ok \in BOOLEAN
     /\ Return("retry", todo)
  \/ /\ back = "strategy"
     /\ Return("strategy", {})
  \/ /\ back = "entry"
     /\ pc' = "entry_inventory"
     /\ cur' = NoSlot /\ ct' = NoTrade /\ back' = "none"
     /\ UNCHANGED <<want, todo, seen>>

AfterExit(ok) ==
  \/ /\ back = "retry"
     /\ Return("retry", todo)
  \/ /\ back = "strategy" \/ (back = "entry" /\ ~ok)
     /\ Return("strategy", {})
  \/ /\ back = "entry" /\ ok
     /\ pc' = "entry_inventory"
     /\ cur' = NoSlot /\ ct' = NoTrade /\ back' = "none"
     /\ UNCHANGED <<want, todo, seen>>

-----------------------------------------------------------------------------
(* Crash, restart and startup reconciliation.                              *)

\* A kill, a machine restart, or any exception the loop lets through.
Crash ==
  /\ pc # "down"
  /\ Return("down", {})
  /\ pos' = Cleared /\ owed' = Cleared
  /\ missing' = {} /\ unknown' = {} /\ invDown' = FALSE
  /\ heard' = saved
  /\ reply' = "none"
  /\ UNCHANGED <<ledgerVars, venueVars, saved, acked>>

Restart ==
  /\ pc = "down"
  /\ Goto("boot")
  /\ UNCHANGED <<ledgerVars, venueVars, reply, memVars, heard, saved, acked>>

BootApplyEntry(d) ==
  /\ pc = "boot"
  /\ d \in ReceivedEntries
  /\ ApplyEntry(d)
  /\ UNCHANGED <<venueVars, reply, memVars, heard, flowVars, saved, acked>>

BootApplyClose(t) ==
  /\ pc = "boot"
  /\ t \in ReceivedCloses
  /\ ApplyClose(t)
  /\ UNCHANGED <<venueVars, reply, memVars, heard, flowVars, saved, acked>>

\* Faulty: only what still runs at the venue is restored.
RestoredIfRunning(s) == IF OpenIn(s) \cap Running = {} THEN NoTrade
                        ELSE CHOOSE t \in OpenIn(s) \cap Running : TRUE

Restored(s) == IF OpenIn(s) = {} THEN NoTrade ELSE CHOOSE t \in OpenIn(s) : TRUE

\* Two open trades of one slot are ambiguous: startup raises.
BootRestore ==
  /\ pc = "boot"
  /\ ReceivedEntries = {} /\ ReceivedCloses = {}
  /\ \A t1, t2 \in LocallyOpen : holder[t1] = holder[t2] => t1 = t2
  /\ pos' = [s \in Slots |-> Restored(s)]
  /\ owed' = [s \in Slots |->
                IF pos'[s] \in Running /\ closeCmd[pos'[s]] = "submitted"
                THEN pos'[s] ELSE NoTrade]
  /\ missing' = LocallyOpen \ Running
  /\ unknown' = Running \ LocallyOpen
  /\ invDown' = FALSE
  /\ pc' = "deliver" /\ back' = "idle"
  /\ UNCHANGED <<cur, ct, want, todo, seen>>
  /\ UNCHANGED <<ledgerVars, venueVars, reply, heard, saved, acked>>

-----------------------------------------------------------------------------
(* Delivery of external closes: the hook's effect on the strategy, its     *)
(* snapshot and the acknowledgement are one transaction per binding.       *)

OwnedBy(o) == {t \in Trades : holder[t] \in Slots /\ OwnerOf[holder[t]] = o}
EventsOf(o) == PendingExternalEvents \cap OwnedBy(o)

\* Faulty: acknowledged, but the snapshot is left for the next save.
DeliverWithoutSnapshot(o) ==
  /\ pc = "deliver"
  /\ EventsOf(o) # {}
  /\ heard' = [t \in Trades |-> IF t \in EventsOf(o) THEN heard[t] + 1 ELSE heard[t]]
  /\ AcknowledgeCloses(EventsOf(o))
  /\ UNCHANGED <<venueVars, reply, memVars, flowVars, saved, acked>>

DeliverTo(o) ==
  /\ pc = "deliver"
  /\ EventsOf(o) # {}
  /\ heard' = [t \in Trades |-> IF t \in EventsOf(o) THEN heard[t] + 1 ELSE heard[t]]
  /\ saved' = [t \in Trades |-> IF t \in OwnedBy(o) THEN heard'[t] ELSE saved[t]]
  /\ AcknowledgeCloses(EventsOf(o))
  /\ UNCHANGED <<venueVars, reply, memVars, flowVars, acked>>

DeliveryDone ==
  /\ pc = "deliver"
  /\ PendingExternalEvents = {}
  /\ IF back = "idle" THEN Return("idle", {}) ELSE Return("retry", Owed)
  /\ UNCHANGED <<ledgerVars, venueVars, reply, memVars, heard, saved, acked>>

-----------------------------------------------------------------------------
(* A bar.  A live 1m bar first compares the venue with the owned trades; a *)
(* higher-timeframe bar starts with the owed exits.                        *)

MinuteBar ==
  /\ pc = "idle"
  /\ Goto("inventory")
  /\ UNCHANGED <<ledgerVars, venueVars, reply, memVars, heard, saved, acked>>

HigherBar ==
  /\ pc = "idle"
  /\ Return("retry", Owed)
  /\ UNCHANGED <<ledgerVars, venueVars, reply, memVars, heard, saved, acked>>

InventoryFails ==
  /\ pc = "inventory"
  /\ invDown' = TRUE
  /\ Goto("deliver")
  /\ UNCHANGED <<ledgerVars, venueVars, reply, pos, owed, missing, unknown, heard,
                 saved, acked>>

InventoryRead ==
  /\ pc = "inventory"
  /\ invDown' = FALSE
  /\ unknown' = Running \ Held
  /\ missing' = Held \ Running
  /\ Goto(IF Held \subseteq Running THEN "deliver" ELSE "history")
  /\ UNCHANGED <<ledgerVars, venueVars, reply, pos, owed, heard, saved, acked>>

HistoryFails ==
  /\ pc = "history"
  /\ Goto("deliver")
  /\ UNCHANGED <<ledgerVars, venueVars, reply, memVars, heard, saved, acked>>

\* The closed history may lag: any part of what has closed may be listed.
HistoryRead(listed) ==
  /\ pc = "history"
  /\ listed \subseteq Closed
  /\ pc' = "closing"
  /\ todo' = {s \in Slots : pos[s] \in missing \cap listed}
  /\ UNCHANGED <<cur, ct, want, back, seen>>
  /\ UNCHANGED <<ledgerVars, venueVars, reply, memVars, heard, saved, acked>>

ExternalBegin(s) ==
  /\ pc = "closing"
  /\ s \in todo
  /\ BeginClose(pos[s])
  /\ pc' = "close_result"
  /\ cur' = s /\ ct' = pos[s] /\ todo' = todo \ {s}
  /\ UNCHANGED <<want, back, seen>>
  /\ UNCHANGED <<venueVars, reply, memVars, heard, saved, acked>>

ExternalResult ==
  /\ pc = "close_result"
  /\ CloseResult(ct, TRUE)
  /\ Goto("close_apply")
  /\ UNCHANGED <<venueVars, reply, memVars, heard, saved, acked>>

\* Faulty: the owed exit survives its trade.
ExternalApplyKeepingOwed ==
  /\ pc = "close_apply"
  /\ ApplyClose(ct)
  /\ missing' = missing \ {ct}
  /\ pos' = [pos EXCEPT ![cur] = NoTrade]
  /\ Return("closing", todo)
  /\ UNCHANGED <<venueVars, reply, owed, unknown, invDown, heard, saved, acked>>

ExternalApply ==
  /\ pc = "close_apply"
  /\ ApplyClose(ct)
  /\ missing' = missing \ {ct}
  /\ pos' = [pos EXCEPT ![cur] = NoTrade]
  /\ owed' = [owed EXCEPT ![cur] = NoTrade]
  /\ Return("closing", todo)
  /\ UNCHANGED <<venueVars, reply, unknown, invDown, heard, saved, acked>>

ExternalDone ==
  /\ pc = "closing"
  /\ todo = {}
  /\ Goto("deliver")
  /\ UNCHANGED <<ledgerVars, venueVars, reply, memVars, heard, saved, acked>>

-----------------------------------------------------------------------------
(* _do_exit: begin the durable close, send it, and book what is accepted.  *)

ExitStart(s, after) ==
  /\ pos[s] # NoTrade
  /\ ~CloseUnresolved(pos[s])
  /\ BeginClose(pos[s])
  /\ closeWire' = closeWire \cup {pos[s]}
  /\ reply' = "none"
  /\ pc' = "exit_wait"
  /\ cur' = s /\ ct' = pos[s] /\ back' = after
  /\ UNCHANGED <<venue, origin, entryWire, memVars, heard, seen, saved, acked>>

\* Faulty: the failed close is forgotten.
ExitFailsUnowed ==
  /\ pc = "exit_wait"
  /\ reply # "done"
  /\ AfterExit(FALSE)
  /\ reply' = "none"
  /\ UNCHANGED <<ledgerVars, venueVars, memVars, heard, saved, acked>>

\* An error, a timeout or a lost answer: the exit stays owed.
ExitFails ==
  /\ pc = "exit_wait"
  /\ reply # "done"
  /\ owed' = [owed EXCEPT ![cur] = ct]
  /\ AfterExit(FALSE)
  /\ reply' = "none"
  /\ UNCHANGED <<ledgerVars, venueVars, pos, missing, unknown, invDown, heard,
                 saved, acked>>

\* The answer is lost although the venue executed the close.
ExitAnswerLost ==
  /\ pc = "exit_wait"
  /\ reply = "done"
  /\ owed' = [owed EXCEPT ![cur] = ct]
  /\ AfterExit(FALSE)
  /\ reply' = "none"
  /\ UNCHANGED <<ledgerVars, venueVars, pos, missing, unknown, invDown, heard,
                 saved, acked>>

\* Faulty: an error counts as "already closed".
ExitAcceptedAnyhow ==
  /\ pc = "exit_wait"
  /\ acked' = acked \cup {ct}
  /\ owed' = [owed EXCEPT ![cur] = NoTrade]
  /\ pos' = [pos EXCEPT ![cur] = NoTrade]
  /\ reply' = "none"
  /\ Goto("exit_result")
  /\ UNCHANGED <<ledgerVars, venueVars, missing, unknown, invDown, heard, saved>>

\* Memory is cleared before anything is booked.
ExitAccepted ==
  /\ pc = "exit_wait"
  /\ reply = "done"
  /\ acked' = acked \cup {ct}
  /\ owed' = [owed EXCEPT ![cur] = NoTrade]
  /\ pos' = [pos EXCEPT ![cur] = NoTrade]
  /\ reply' = "none"
  /\ Goto("exit_result")
  /\ UNCHANGED <<ledgerVars, venueVars, missing, unknown, invDown, heard, saved>>

ExitResult ==
  /\ pc = "exit_result"
  /\ CloseResult(ct, FALSE)
  /\ Goto("exit_apply")
  /\ UNCHANGED <<venueVars, reply, memVars, heard, saved, acked>>

ExitApply ==
  /\ pc = "exit_apply"
  /\ ApplyClose(ct)
  /\ AfterExit(TRUE)
  /\ UNCHANGED <<venueVars, reply, memVars, heard, saved, acked>>

-----------------------------------------------------------------------------
(* retry_pending_exits.                                                    *)

RetrySkips(s) ==
  /\ pc = "retry"
  /\ s \in todo
  /\ pos[s] = NoTrade \/ CloseUnresolved(pos[s])
  /\ owed' = IF pos[s] = NoTrade THEN [owed EXCEPT ![s] = NoTrade] ELSE owed
  /\ Return("retry", todo \ {s})
  /\ UNCHANGED <<ledgerVars, venueVars, reply, pos, missing, unknown, invDown,
                 heard, saved, acked>>

\* A close obligation never closes another trade (close_trade_id).
RetryExit(s) ==
  /\ pc = "retry"
  /\ s \in todo
  /\ s \in BoundSlots => owed[s] = pos[s]
  /\ ExitStart(s, "retry")
  /\ todo' = todo \ {s}
  /\ UNCHANGED want

RetryDone ==
  /\ pc = "retry"
  /\ todo = {}
  /\ Goto("strategy")
  /\ UNCHANGED <<ledgerVars, venueVars, reply, memVars, heard, saved, acked>>

-----------------------------------------------------------------------------
(* submit: the strategies' intents of this bar, one at a time.             *)

BarEnds ==
  /\ pc = "strategy"
  /\ Return("idle", {})
  /\ UNCHANGED <<ledgerVars, venueVars, reply, memVars, heard, saved, acked>>

SubmitExit(s) ==
  /\ pc = "strategy"
  /\ ExitStart(s, "strategy")
  /\ UNCHANGED <<want, todo>>

\* An entry against the held side closes it first; the same side is a no-op.
SubmitFlip(d) ==
  LET s == DecisionSlot[d] IN
  /\ pc = "strategy"
  /\ ~Blocked(invDown, missing, unknown)
  /\ pos[s] # NoTrade
  /\ SideOf(pos[s]) # DecisionSide[d]
  /\ ExitStart(s, "entry")
  /\ want' = d
  /\ UNCHANGED todo

SubmitEntry(d) ==
  /\ pc = "strategy"
  /\ ~Blocked(invDown, missing, unknown)
  /\ pos[DecisionSlot[d]] = NoTrade
  /\ pc' = "entry_inventory"
  /\ want' = d
  /\ UNCHANGED <<cur, ct, back, todo, seen>>
  /\ UNCHANGED <<ledgerVars, venueVars, reply, memVars, heard, saved, acked>>

-----------------------------------------------------------------------------
(* _do_entry: read the venue, admit, write the command, send it, book it.  *)

EntryInventoryRead ==
  /\ pc = "entry_inventory"
  /\ seen' = Running
  /\ pc' = "entry_decide"
  /\ UNCHANGED <<cur, ct, want, back, todo>>
  /\ UNCHANGED <<ledgerVars, venueVars, reply, memVars, heard, saved, acked>>

\* get_running_trades or get_open_trades raises.
EntryInventoryFails ==
  /\ pc \in {"entry_inventory", "entry_decide"}
  /\ invDown' = TRUE
  /\ Return("strategy", {})
  /\ UNCHANGED <<ledgerVars, venueVars, reply, pos, owed, missing, unknown, heard,
                 saved, acked>>

EntryAdmitted(d) == ~Blocked(FALSE, missing, seen \ Held) /\ EntryIsNew(d)

\* Blocked, already submitted, or its admission window has passed meanwhile.
EntryNotSent ==
  /\ pc = "entry_decide"
  /\ invDown' = FALSE
  /\ unknown' = seen \ Held
  /\ Return("strategy", {})
  /\ UNCHANGED <<ledgerVars, venueVars, reply, pos, owed, missing, heard, saved, acked>>

EntrySent ==
  /\ pc = "entry_decide"
  /\ EntryAdmitted(want)
  /\ invDown' = FALSE
  /\ unknown' = seen \ Held
  /\ BeginEntry(want)
  /\ entryWire' = [entryWire EXCEPT ![want] = @ + 1]
  /\ reply' = "none"
  /\ pc' = "entry_wait" /\ seen' = {}
  /\ UNCHANGED <<cur, ct, want, back, todo>>
  /\ UNCHANGED <<venue, origin, closeWire, pos, owed, missing, heard, saved, acked>>

\* Only a definitive status releases the decision.
EntryRefused ==
  /\ pc = "entry_wait"
  /\ reply = "refused"
  /\ RejectEntry(want)
  /\ reply' = "none"
  /\ Return("strategy", {})
  /\ UNCHANGED <<venueVars, memVars, heard, saved, acked>>

\* Timeout, 429, 5xx, no trade id: whatever the venue did, or will still do.
EntryUnresolved ==
  /\ pc = "entry_wait"
  /\ reply' = "none"
  /\ Return("strategy", {})
  /\ UNCHANGED <<ledgerVars, venueVars, memVars, heard, saved, acked>>

\* The answer names the trade the venue opened for this request.
EntryAccepted(t) ==
  /\ pc = "entry_wait"
  /\ reply = "done"
  /\ origin[t] = want
  /\ ct' = t
  /\ reply' = "none"
  /\ pc' = "entry_result"
  /\ UNCHANGED <<cur, want, back, todo, seen>>
  /\ UNCHANGED <<ledgerVars, venueVars, memVars, heard, saved, acked>>

EntryResultCommit ==
  /\ pc = "entry_result"
  /\ EntryResult(want, ct)
  /\ Goto("entry_apply")
  /\ UNCHANGED <<venueVars, reply, memVars, heard, saved, acked>>

EntryApplyCommit ==
  /\ pc = "entry_apply"
  /\ ApplyEntry(want)
  /\ pos' = [pos EXCEPT ![DecisionSlot[want]] = ct]
  /\ Return("strategy", {})
  /\ UNCHANGED <<venueVars, reply, owed, missing, unknown, invDown, heard, saved, acked>>

-----------------------------------------------------------------------------

Venue ==
  \/ \E d \in Decisions, t \in Trades : VenueOpens(d, t)
  \/ \E d \in Decisions : VenueRefusesEntry(d)
  \/ \E t \in Trades : VenueCloses(t)
  \/ \E t \in Trades : CloseRequestLost(t)
  \/ \E t \in Trades : VenueClosesAlone(t)
  \/ \E t \in Trades : ManualOpen(t)

Startup ==
  \/ Restart
  \/ \E d \in Decisions : BootApplyEntry(d)
  \/ \E t \in Trades : BootApplyClose(t)
  \/ BootRestore

Reconcile ==
  \/ MinuteBar \/ HigherBar \/ InventoryFails \/ InventoryRead \/ HistoryFails
  \/ \E listed \in SUBSET Trades : HistoryRead(listed)
  \/ \E s \in Slots : ExternalBegin(s)
  \/ ExternalResult \/ ExternalApply \/ ExternalDone
  \/ \E o \in Owners : DeliverTo(o)
  \/ DeliveryDone

Exit ==
  \/ ExitFails \/ ExitAnswerLost \/ ExitAccepted \/ ExitResult \/ ExitApply
  \/ \E s \in Slots : RetrySkips(s) \/ RetryExit(s) \/ SubmitExit(s)
  \/ RetryDone \/ BarEnds

Entry ==
  \/ \E d \in Decisions : SubmitFlip(d) \/ SubmitEntry(d)
  \/ EntryInventoryRead \/ EntryInventoryFails \/ EntryNotSent \/ EntrySent
  \/ EntryRefused \/ EntryUnresolved
  \/ \E t \in Trades : EntryAccepted(t)
  \/ EntryResultCommit \/ EntryApplyCommit

Next == Venue \/ Crash \/ Startup \/ Reconcile \/ Exit \/ Entry

Spec == Init /\ [][Next]_vars

(* What the task does when it is neither waiting for the venue nor free to *)
(* choose: every stage has such a step but idle and the awaits that need   *)
(* an answer.                                                              *)
Progress ==
  \/ Startup
  \/ \E s \in Slots : ExternalBegin(s) \/ RetrySkips(s)
  \/ ExternalResult \/ ExternalApply \/ ExternalDone
  \/ \E o \in Owners : DeliverTo(o)
  \/ DeliveryDone \/ RetryDone
  \/ ExitFails \/ ExitResult \/ ExitApply
  \/ EntryInventoryRead \/ EntryNotSent \/ EntryUnresolved
  \/ EntryResultCommit \/ EntryApplyCommit

(* systemd restarts the process and it stays up in the end; minute bars    *)
(* keep coming and a bar has finitely many intents; a call repeated on     *)
(* every bar (inventory, history, an owed close) is answered now and then. *)
(* Nothing is assumed of entries, refusals or the strategies.              *)
Fairness ==
  /\ <>[][~Crash]_vars
  /\ WF_vars(Progress)
  /\ SF_vars(MinuteBar) /\ SF_vars(BarEnds)
  /\ SF_vars(InventoryRead) /\ SF_vars(HistoryRead(Closed))
  /\ \A s \in Slots : SF_vars(RetryExit(s))
  /\ SF_vars(pc = "exit_wait" /\ VenueCloses(ct))
  /\ SF_vars(ExitAccepted)

FairSpec == Spec /\ Fairness

-----------------------------------------------------------------------------
(* Properties.                                                             *)

Ours(t) == origin[t] \in Decisions

OpenOnly == <<"open">>
OpenClose == <<"open", "close">>

\* While the process runs, its positions are exactly the trades the durable
\* order rows say are open, but for the one whose accepted close is being
\* booked: no owned trade is forgotten, none is invented, no slot has two.
MemoryMatchesLedger ==
  pc \notin {"down", "boot"} =>
    \A s \in Slots :
      OpenIn(s) = (({pos[s]} \ {NoTrade}) \cup
                   (IF pc \in {"exit_result", "exit_apply"} /\ cur = s THEN {ct} ELSE {}))

\* Replayed results, restarts and late external closes never book a trade's
\* opening or its closing a second time, nor a close without its open.
BookedOnce == \A t \in Trades : rows[t] \in {<<>>, OpenOnly, OpenClose}

\* However often a decision is rediscovered (retry, restart, lost answer), the
\* venue opens at most one trade for it: the durable key is the guard.
OneTradePerDecision ==
  \A t1, t2 \in Trades : Ours(t1) /\ origin[t1] = origin[t2] => t1 = t2

\* Exposure the ledger does not know of is at most one entry: the request in
\* transit or the unbooked trade of a single decision, across crashes and
\* answers that never came.
Outstanding ==
  {d \in Decisions : entryWire[d] > 0 \/ \E t \in Trades : origin[t] = d /\ rows[t] = <<>>}
AtMostOneUnbookedEntry == \A d1, d2 \in Outstanding : d1 = d2

\* A slot never has two trades of ours running at the venue, also when a flip
\* closes and reopens, or the venue closed one and the process learns it late.
OneRunningTradePerSlot ==
  \A t1, t2 \in Running :
    Ours(t1) /\ Ours(t2) /\ DecisionSlot[origin[t1]] = DecisionSlot[origin[t2]] => t1 = t2

\* A close is booked only for a trade that is closed at the venue: lagging
\* history and failed reads never write off a position that still runs.
BookedCloseIsReal == \A t \in Trades : closeCmd[t] \in {"received", "applied"} => t \in Closed

\* The durable strategy state has folded an external close in exactly when its
\* command is acknowledged, once, whatever crash falls between the two.
ExternalCloseFoldedOnce ==
  \A t \in Trades : saved[t] = IF t \in external \cap notified THEN 1 ELSE 0

\* "From here on, never retry that remote action": once the acceptance of a
\* close reached the process, no later step sends that close again, not even
\* after a crash that lost the result.
AcceptedCloseNeverResent ==
  [][pc # "exit_wait" /\ pc' = "exit_wait" => ct' \notin acked]_vars

\* An owed exit always means the trade the slot holds: it is never carried
\* over to a later trade of the slot.
OwedExitIsForHeldTrade == \A s \in Owed : owed[s] = pos[s]

\* A close the ledger has begun is finished, through lost answers, crashes and
\* venue-side closes.
BegunCloseIsFinished ==
  \A t \in Trades : closeCmd[t] = "submitted" ~> closeCmd[t] = "applied"

\* A trade of ours that the venue closed is booked, and its strategy told.
VenueCloseReachesStrategy ==
  \A t \in Trades :
    (venue[t] = "closed" /\ rows[t] = OpenOnly) ~> (closeCmd[t] = "applied" /\ t \in notified)

\* ExternalClose is documented as "closed ... without our close call": an
\* accepted close of ours would then never become an external event.
\* The code breaks this one (README.md, Disagreements).
ExternalCloseIsNotOurs == external \cap acked = {}

-----------------------------------------------------------------------------
(* The refinement mapping to TradeBook: a decision is committed with its   *)
(* durable command, a trade is what its order rows say.                    *)

StageOf(status) ==
  CASE status = "none" -> "new"
    [] status \in {"submitted", "received"} -> "committed"
    [] status = "applied" -> "booked"
    [] status = "rejected" -> "refused"

stageBar == [d \in Decisions |-> StageOf(entryCmd[d])]
bookBar == [t \in Trades |-> IF rows[t] = <<>> THEN "none"
                             ELSE IF t \in LocallyOpen THEN "open" ELSE "closed"]
toldBar == {t \in Trades : saved[t] > 0}

Book == INSTANCE TradeBook WITH
  stage <- stageBar, book <- bookBar, keeper <- holder, told <- toldBar

\* Every step of execution, the venue's and the crashes included, is a step of
\* the book or leaves it alone.
BookIsKept == Book!BookSpec

=============================================================================
