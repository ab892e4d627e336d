------------------------------ MODULE RiskGuard ------------------------------
(***************************************************************************)
(* The guard between the strategies and the executor: risk/guard.py, with  *)
(* as much of engine/live_executor.py as decides what an entry may add:    *)
(* admission, the flip that closes before it opens, the send.  Between the *)
(* guard's checks and the send lie up to four awaits (balance, cash, the   *)
(* close of a flip, the venue's inventory), and time passes in each.       *)
(*                                                                         *)
(* Time is a count of ticks.  What makes the executor refuse for reasons   *)
(* of its own (see LiveExecutor) is a refusal that may always happen.      *)
(***************************************************************************)
EXTENDS Integers, Sequences, FiniteSetsExt

CONSTANTS
  Slots,          \* execution keys
  Asks,           \* notionals a strategy or the equity sizing may come to
  Leverages,      \* leverages a strategy may ask for
  Prices,         \* marks a bar may bring
  Results,        \* P&L of a close or of funding, in sats
  Fees,           \* opening fees, in sats
  MaxPosition, MaxLeverage, MaxLoss, MaxOrders, MaxTotal, MaxMargin,
  Window,         \* ticks of the order window, 60 s in the code
  MaxEntryAge,    \* ticks an entry may be late, 300 s in the code
  MaxQuoteAge,    \* ticks a bar may be old, 90 s in the code
  DayTicks,       \* ticks of a UTC day
  LastTick,       \* bound: the clock stops here
  MaxBooked,      \* bound: no day's P&L leaves -MaxBooked..MaxBooked
  NoSlot

ASSUME BoundsType == /\ Asks \subseteq Nat /\ Leverages \subseteq Nat \ {0}
                     /\ Prices \subseteq Nat \ {0} /\ Fees \subseteq Nat
                     /\ {MaxLoss, MaxOrders, DayTicks} \subseteq Nat \ {0}
                     /\ {LastTick, MaxBooked} \subseteq Nat
ASSUME CapsType == /\ {MaxPosition, MaxTotal, MaxMargin, MaxEntryAge} \subseteq Nat
                   /\ {MaxLeverage, Window} \subseteq Nat \ {0}
ASSUME SlotsType == IsFiniteSet(Slots) /\ NoSlot \notin Slots

VARIABLES
  now,         \* the clock the guard and the executor read
  price,       \* current_price_usd and _last_close, set together by a bar
  booked,      \* daily_pnl rows, per UTC day
  pos,         \* per slot: quantity held and the collateral recorded for it
  gone,        \* the day the venue closed a slot's trade unnoticed, or NoDay
  unresolved,  \* notional of entries sent and neither booked nor refused
  recent,      \* _recent_orders
  stage,       \* which await the task is at
  intent,      \* the intent being submitted
  size,        \* its notional after the caps
  stamp,       \* rate_ts
  flipped,     \* the entry in progress closed a position itself
  sends        \* history: entries this process sent within the last Window

vars == <<now, price, booked, pos, gone, unresolved, recent, stage, intent, size,
          stamp, flipped, sends>>

Days == 0..(LastTick \div DayTicks)
NoDay == -1
Today == now \div DayTicks
Flat == [qty |-> 0, coll |-> 0]
NoIntent == [slot |-> NoSlot, ts |-> 0, due |-> 0, lev |-> 1]
Stages == {"idle", "exit", "sizing", "cash", "flip", "inventory", "send"}

TypeOK ==
  /\ now \in 0..LastTick
  /\ price \in Prices
  /\ booked \in [Days -> -MaxBooked..MaxBooked]
  /\ pos \in [Slots -> [qty : 0..MaxPosition, coll : Nat]]
  /\ gone \in [Slots -> Days \cup {NoDay}]
  /\ unresolved \in Nat
  /\ recent \in Seq(0..LastTick)
  /\ stage \in Stages
  /\ intent \in [slot : Slots \cup {NoSlot}, ts : Nat, due : Nat, lev : Nat]
  /\ size \in 0..MaxPosition
  /\ stamp \in 0..LastTick
  /\ flipped \in BOOLEAN
  /\ sends \in Seq(0..LastTick)
  /\ \A s \in Slots : pos[s].qty = 0 => gone[s] = NoDay

-----------------------------------------------------------------------------
(* Money.  A contract is one dollar.  Collateral is kept in units that are *)
(* worth price / Sats dollars, so that it rises and falls with the mark.   *)

Sats == 4
Collateral(q, lev) == (q * Sats) \div (price * lev)
Others(s) == Slots \ {s}
Quantities == [s \in Slots |-> pos[s].qty]
OpenNotional(s) == SumFunctionOnSet(Quantities, Others(s))
OpenMargin(s) == SumFunction([o \in Others(s) |-> pos[o].coll * price])

Lesser(m, n) == IF m < n THEN m ELSE n

\* Contracts whose margin, with both fees reserved, fits in what is left.
MarginRoom(s, lev) ==
  ((MaxMargin * Sats - OpenMargin(s)) * 1000 * lev) \div ((1001 + lev) * Sats)

CappedLeverage(lev) == Lesser(lev, MaxLeverage)

\* Faulty: margin is counted at the leverage asked for.
CappedAtAskedLeverage(ask) ==
  Lesser(Lesser(Lesser(ask, MaxPosition), MaxTotal - OpenNotional(intent.slot)),
         MarginRoom(intent.slot, intent.lev))

(* The caps in the order of the code; nothing or less is a rejection.      *)
Capped(ask) ==
  LET s == intent.slot
      room == MarginRoom(s, CappedLeverage(intent.lev))
  IN  Lesser(Lesser(Lesser(ask, MaxPosition), MaxTotal - OpenNotional(s)), room)

\* The day's ledger at the current mark: re-read on every use.
Tally == booked[Today] * price
Tripped == Tally <= -MaxLoss

\* The stamps of q from the first that is not before t: old ones leave at the front.
Since(q, t) ==
  SubSeq(q, Max({k \in 1 .. Len(q) + 1 : \A j \in 1 .. k - 1 : q[j] < t}), Len(q))
InWindow(q) == Since(q, now - Window)

\* entry_admission_reason, for the reasons that concern the guard's limits
Fresh(i) == now - i.due <= MaxEntryAge /\ now - i.ts <= MaxQuoteAge

\* Faulty: an entry without an answer no longer closes admission.
AdmissibleIfFresh(i) == Fresh(i)

Admissible(i) == unresolved = 0 /\ Fresh(i)

Init ==
  /\ now = 0
  /\ price \in Prices
  /\ booked = [d \in Days |-> 0]
  /\ pos = [s \in Slots |-> Flat]
  /\ gone = [s \in Slots |-> NoDay]
  /\ unresolved = 0
  /\ recent = <<>> /\ sends = <<>>
  /\ stage = "idle" /\ intent = NoIntent /\ size = 0 /\ stamp = 0 /\ flipped = FALSE

Book(d, x) ==
  /\ booked[d] + x \in -MaxBooked..MaxBooked
  /\ booked' = [booked EXCEPT ![d] = @ + x]

\* Where submit returns: the intent is done with.
Returns == stage' = "idle" /\ intent' = NoIntent /\ size' = 0 /\ stamp' = 0 /\ flipped' = FALSE

\* An entry the executor was given is counted, whatever became of it.
Counted == recent' = Append(recent, stamp)

-----------------------------------------------------------------------------
(* The world: time, bars, the venue, and what the loop books between       *)
(* intents.                                                                *)

handVars == <<stage, intent, size, stamp, flipped>>

Tick ==
  /\ now < LastTick
  /\ now' = now + 1
  /\ sends' = Since(sends, now' - Window + 1)
  /\ UNCHANGED <<price, booked, pos, gone, unresolved, recent, handVars>>

NextBar(p) ==
  /\ stage = "idle"
  /\ price' = p
  /\ UNCHANGED <<now, booked, pos, gone, unresolved, recent, handVars, sends>>

\* Liquidation, a stop or a manual close; also a close whose answer is lost.
VenueCloses(s) ==
  /\ pos[s].qty > 0 /\ gone[s] = NoDay
  /\ gone' = [gone EXCEPT ![s] = Today]
  /\ UNCHANGED <<now, price, booked, pos, unresolved, recent, handVars, sends>>

\* reconcile_external_closures: booked on the day the venue closed it.
ClosureBooked(s, x) ==
  /\ stage = "idle"
  /\ gone[s] # NoDay
  /\ Book(gone[s], x)
  /\ pos' = [pos EXCEPT ![s] = Flat]
  /\ gone' = [gone EXCEPT ![s] = NoDay]
  /\ UNCHANGED <<now, price, unresolved, recent, handVars, sends>>

FundingBooked(x) ==
  /\ stage = "idle"
  /\ Book(Today, x)
  /\ UNCHANGED <<now, price, pos, gone, unresolved, recent, handVars, sends>>

(* A kill and a restart.  Positions come back from the ledger, a command   *)
(* that was sent stays unresolved, the order window is forgotten.          *)
Crash ==
  /\ Returns
  /\ recent' = <<>> /\ sends' = <<>>
  /\ UNCHANGED <<now, price, booked, pos, gone, unresolved>>

-----------------------------------------------------------------------------
(* Exits pass every check.                                                 *)

SubmitExit(s) ==
  /\ stage = "idle"
  /\ pos[s].qty > 0
  /\ stage' = "exit"
  /\ intent' = [NoIntent EXCEPT !.slot = s]
  /\ UNCHANGED <<now, price, booked, pos, gone, unresolved, recent, size, stamp,
                 flipped, sends>>

Closed(s, x) ==
  /\ gone[s] = NoDay
  /\ Book(Today, x)
  /\ pos' = [pos EXCEPT ![s] = Flat]

ExitAccepted(x) ==
  /\ stage = "exit"
  /\ Closed(intent.slot, x)
  /\ Returns
  /\ UNCHANGED <<now, price, gone, unresolved, recent, sends>>

ExitFails ==
  /\ stage = "exit"
  /\ Returns
  /\ UNCHANGED <<now, price, booked, pos, gone, unresolved, recent, sends>>

-----------------------------------------------------------------------------
(* Entries: the guard's checks, then its awaits.                           *)

(* An entry that is not admissible, or comes on a tripped day, changes     *)
(* nothing and is left out; one above the order limit trims the window.    *)
EntryRateLimited(i) ==
  /\ stage = "idle"
  /\ Admissible(i) /\ ~Tripped
  /\ Len(InWindow(recent)) >= MaxOrders
  /\ recent' = InWindow(recent)
  /\ UNCHANGED <<now, price, booked, pos, gone, unresolved, handVars, sends>>

\* Faulty: the breaker reads the ledger of the bar's day, not of the clock's.
EntryAdmittedByBarDay(i) ==
  /\ stage = "idle"
  /\ Admissible(i) /\ booked[i.ts \div DayTicks] * price > -MaxLoss
  /\ Len(InWindow(recent)) < MaxOrders
  /\ recent' = InWindow(recent)
  /\ stamp' = now
  /\ intent' = i
  /\ stage' = "sizing"
  /\ UNCHANGED <<now, price, booked, pos, gone, unresolved, size, flipped, sends>>

EntryAdmitted(i) ==
  /\ stage = "idle"
  /\ Admissible(i) /\ ~Tripped
  /\ Len(InWindow(recent)) < MaxOrders
  /\ recent' = InWindow(recent)
  /\ stamp' = now
  /\ intent' = i
  /\ stage' = "sizing"
  /\ UNCHANGED <<now, price, booked, pos, gone, unresolved, size, flipped, sends>>

\* No sizing data, no size or no room left, no cash or no cash data.
EntryRejected ==
  /\ stage \in {"sizing", "cash"}
  /\ Returns
  /\ UNCHANGED <<now, price, booked, pos, gone, unresolved, recent, sends>>

\* With a fixed notional there is no await here and no time passes.
EntrySized(ask) ==
  /\ stage = "sizing"
  /\ Capped(ask) > 0
  /\ size' = Capped(ask)
  /\ intent' = [intent EXCEPT !.lev = CappedLeverage(@)]
  /\ stage' = "cash"
  /\ UNCHANGED <<now, price, booked, pos, gone, unresolved, recent, stamp, flipped,
                 sends>>

-----------------------------------------------------------------------------
(* Entries: the executor.                                                  *)

(* Refused by admission or for the venue's inventory, same side as held,   *)
(* or a flip whose close failed.                                           *)
ExecutorDeclines ==
  /\ stage \in {"cash", "flip", "inventory"}
  /\ Counted
  /\ Returns
  /\ UNCHANGED <<now, price, booked, pos, gone, unresolved, sends>>

\* The held position is of the other side: it is closed first.
FlipBegins ==
  /\ stage = "cash"
  /\ Admissible(intent)
  /\ pos[intent.slot].qty > 0
  /\ stage' = "flip"
  /\ UNCHANGED <<now, price, booked, pos, gone, unresolved, recent, intent, size,
                 stamp, flipped, sends>>

FlipAccepted(x) ==
  /\ stage = "flip"
  /\ Closed(intent.slot, x)
  /\ flipped' = TRUE
  /\ stage' = "inventory"
  /\ UNCHANGED <<now, price, gone, unresolved, recent, intent, size, stamp, sends>>

EntryBegins ==
  /\ stage = "cash"
  /\ Admissible(intent)
  /\ pos[intent.slot].qty = 0
  /\ stage' = "inventory"
  /\ UNCHANGED <<now, price, booked, pos, gone, unresolved, recent, intent, size,
                 stamp, flipped, sends>>

\* begin_command commits, then new_trade is sent.
EntrySent ==
  /\ stage = "inventory"
  /\ Admissible(intent)
  /\ unresolved' = unresolved + size
  /\ sends' = Append(sends, now)
  /\ stage' = "send"
  /\ UNCHANGED <<now, price, booked, pos, gone, recent, intent, size, stamp, flipped>>

EntryFilled(fee) ==
  /\ stage = "send"
  /\ Book(Today, -fee)
  /\ unresolved' = unresolved - size
  /\ pos' = [pos EXCEPT ![intent.slot] =
               [qty |-> size, coll |-> Collateral(size, intent.lev)]]
  /\ Counted
  /\ Returns
  /\ UNCHANGED <<now, price, gone, sends>>

EntryRefused ==
  /\ stage = "send"
  /\ unresolved' = unresolved - size
  /\ Counted
  /\ Returns
  /\ UNCHANGED <<now, price, booked, pos, gone, sends>>

\* The answer is lost: the trade may exist, or may come to exist.
EntryUnanswered ==
  /\ stage = "send"
  /\ Counted
  /\ Returns
  /\ UNCHANGED <<now, price, booked, pos, gone, unresolved, sends>>

Entries == [slot : Slots, ts : 0..now, due : 0..now, lev : Leverages]

Next ==
  \/ Tick \/ Crash
  \/ \E p \in Prices : NextBar(p)
  \/ \E s \in Slots : VenueCloses(s) \/ SubmitExit(s)
  \/ \E s \in Slots, x \in Results : ClosureBooked(s, x)
  \/ \E x \in Results : FundingBooked(x) \/ ExitAccepted(x) \/ FlipAccepted(x)
  \/ ExitFails
  \/ \E i \in Entries : i.due <= i.ts /\ (EntryRateLimited(i) \/ EntryAdmitted(i))
  \/ EntryRejected \/ ExecutorDeclines
  \/ \E ask \in Asks : EntrySized(ask)
  \/ FlipBegins \/ EntryBegins \/ EntrySent
  \/ \E fee \in Fees : EntryFilled(fee)
  \/ EntryRefused \/ EntryUnanswered

Spec == Init /\ [][Next]_vars

-----------------------------------------------------------------------------
(* What the guard promises.                                                *)

Sending == stage' = "send" /\ stage # "send"

\* What is open at the venue, or may open there, never exceeds the aggregate
\* cap, whatever an unresolved entry comes to (guard.py:314, live_executor.py:905).
ExposureBounded ==
  unresolved + SumFunction([s \in Slots |-> IF gone[s] = NoDay THEN pos[s].qty ELSE 0])
    <= MaxTotal

\* When an entry is sent, three awaits after the margin cap was applied, the
\* other positions at the mark and its own margin and fees still fit
\* (guard.py:324).
MarginBounded ==
  [][Sending => OpenMargin(intent.slot) * 1000 * intent.lev + size * (1001 + intent.lev) * Sats
                  <= MaxMargin * Sats * 1000 * intent.lev]_vars

\* However long balance, cash, close and inventory take to answer, no entry is
\* sent later after its decision than the executor allows (live_executor.py:395).
NeverSentLate == [][Sending => now - intent.due <= MaxEntryAge]_vars

\* What was checked before the awaits still stands at the send: the margin and
\* the age of the decision.
SendsStandAfterAwaits == MarginBounded /\ NeverSentLate

\* An entry that closed nothing itself is never sent on a day whose ledger
\* stands at the loss limit, across midnight, restarts and awaits (guard.py:235).
BreakerHolds == [][Sending /\ ~flipped => ~Tripped]_vars

\* At most one entry more than the limit is sent within any window: the stamp
\* precedes the awaits, but only one entry is in flight (guard.py:251).
SubmissionsBounded == Len(sends) <= MaxOrders + 1

\* Every variable keeps its type, in particular each position its own cap, and
\* neither exposure nor submissions leave their limits by more than that.
WithinLimits == TypeOK /\ ExposureBounded /\ SubmissionsBounded

\* DEPLOYMENT.md:95 says that the entry circuit breaker acts on recorded P&L: no
\* entry is sent while the recorded P&L is at the limit (guard.py:235).
\* The code breaks this one (README.md, Disagreements).
FlipRespectsBreaker == [][Sending => ~Tripped]_vars

\* DEPLOYMENT.md:96 says that the limit is the maximum of order submissions
\* per minute across the process (guard.py:257).
\* The code breaks this one (README.md, Disagreements).
OrdersPerMinute == Len(sends) <= MaxOrders

=============================================================================
