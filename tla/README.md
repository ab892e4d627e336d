# A specification of lnmbot

lnmbot trades Bitcoin perpetuals at LN Markets with *isolated* trades (one
margin account per trade). One `asyncio` process reads market bars, runs three
strategies, and sends orders through a risk guard to a live executor whose
durable state is a SQLite database. This directory holds TLA+ modules of the
parts whose errors would cost money and that tests hardly reach: what happens
to orders and positions when answers are lost, the venue acts on its own, or
the process stops between two writes; what the strategies believe after a
restart; and whether the evidence they decide on (candles, settlements, the
shadow book, simulated runs) is what it claims to be.

Contents: [parts](#1-the-parts-of-the-system) -
[module map](#2-modules) - [live execution](#3-the-core-model-live-execution) -
[impulse range](#4-the-impulse-range) - [risk guard](#5-the-risk-guard) -
[MA cross](#6-the-ma-cross) - [close range](#7-the-close-range-ladder) -
[funding wait](#8-the-funding-wait) - [live feed](#9-the-live-feed) -
[shadow book](#10-the-shadow-book) - [simulated runs](#11-simulated-runs) -
[runs](#12-what-the-runs-show) - [disagreements](#13-disagreements) -
[proofs](#14-what-is-proved) - [not modelled](#15-not-modelled) -
[plan](#16-plan).

## 1. The parts of the system

Paths are below `src/src/lnmarkets_bot/` unless they start with `scripts/`,
which is `src/scripts/`.

| part | state it keeps | operations | hard behaviour | what makes it correct |
|---|---|---|---|---|
| **Command ledger** `persistence/recorder.py`, `models.py` | `execution_commands` (status submitted, received, applied, rejected; result; notified), `orders` and `fills` rows, daily P&L, funding fees, strategy snapshots | `begin_command`, `command_result`, `reject_command`, `apply_command`, `acknowledge_commands`, `latest_locally_open_lnm_trades`, `save_strategy_state` | a stop between any two commits; replay of results at startup | rows and command status move together, each trade is opened once and closed once |
| **Live executor** `engine/live_executor.py` | `_positions`, `_pending_exits`, `_missing_remote`, `_unknown_remote`, `_inventory_unavailable` in memory; the ledger on disk | `submit` (entry, exit, flip), `retry_pending_exits`, `reconcile` (startup), `reconcile_external_closures` (every minute bar), `sync_funding` | lost and late answers, venue-side closes, stale inventory across an await, crash | memory = open rows; at most one trade per decision and per slot; no accepted close resent; every begun close finished |
| **Live loop** `engine/portfolio_live.py` | queue of bars, evidence health, watermarks, historical funding wait | startup, bar, external-close delivery, intents, snapshot, shutdown | order of reconcile, retry, strategy, submit; snapshot against acknowledgement; bars held for funding | an external close reaches its strategy once; held bars are applied in order, each after the settlements it needs |
| **Risk guard** `risk/guard.py`, `risk/limits.py` | recent order times, today's realised P&L | `submit`, day rollover, sizing, clamps | exits bypass every limit, a day rollover between two decisions, sliding window, awaits between check and send | exits are never refused; limits hold at the send |
| **MA cross** `strategy/ma_cross.py` | position per timeframe, cooldown counters, warm-up state | `on_bar`, transitions, cooldowns, restart catch-up, reconciliation with the executor, external closes | restarts between a decision and its fill, cooldown consumed by the restart, verdict against a held position | memory agrees with the executor; a cooldown is consumed once |
| **Impulse range** `strategy/impulse_range.py`, `impulse_range_live.py`, `impulse_range_replay.py` | detector windows, the range machine (entries, target, pending exits), the live wrapper's pending order and close ids | daily, 4h and minute handlers, order results, rejections, external closes, persist and restore | two clocks in one stream, a result for an order that a restart forgot, model against venue | machine, slot and obligations agree; a held position can leave |
| **Close range** `strategy/close_range.py`, `close_range_live.py` | campaign with a parent and add-on units, pending exit and candidate, slots on their way out, a deferred reversal | close and open events, fills, rejections, historical prices and funding, external closes, reversal, startup | partial fills of a ladder, a child liquidated while the parent holds, decisions taken in warm-up | every owned trade is a unit or leaving; one campaign at a time; a lifetime slot is used once |
| **Other strategies** `strategy/donchian_breakout.py`, `momentum_burst.py`, `do_nothing.py`, `historical.py` | side per timeframe, bars held; the hydrated campaign | `on_bar`, `hydrate_historical` | the strategy believes its intents before they are filled | belief = fills at the next bar |
| **Strategy base** `strategy/base.py`, `intents.py`, `state.py` | none (interfaces, intent records, decision keys) | `decision_key` | - | equal decisions have equal keys |
| **Data sources** `data/live.py`, `multitimeframe.py`, `historical.py`, `binance*.py`, `mock.py`, `source.py` | last yielded bar, buckets per timeframe, the daily candle cache | stream, backfill, aggregation, refresh of the cache | late, missing and overlapping candles, a clock that goes on while a page is read | bars strictly increasing; a longer bar once, complete exactly when it is; holes evidenced |
| **Venue client** `api/*.py` | token bucket and back-off of the rate limiter, websocket subscriptions | `request`, paged lists, isolated trade calls, ticker stream | 429 answers, retries of reads, stream reconnects | writes are never retried by the client; the limiter never exceeds its rate |
| **Portfolio store** `portfolio/store.py`, `shadow/` | observations, shadow machines with versions, their decisions; reservations and cash events | register, import observation, initialise and advance a machine; reserve, release | compare-and-set of machine versions by overlapping runs, revised candles | the stored history is one source; every decision was made on it |
| **Backtest engines** `engine/backtest.py`, `fills.py`, `inmemory.py` | simulated fills and equity, the buffer of an in-memory run | bar loop, fills, flush | several runs on one database; a flush under reserved numbers; a run that dies | each run keeps its own linked record, done means whole |
| **Old live engine** `engine/live.py` | paper or live loop of a single strategy | bar loop | as the backtest engine; superseded for live trading by the portfolio loop | as the backtest engine |
| **Live account** `engine/live_account.py` | last balances | balance and cash in USD | a balance read before a fill | - |
| **Control** `control/kill.py`, `control/lifecycle.py` | cached halt flag, stop flag, run row | halt test, signal handlers, run session | a signal between two awaits, an exception beside a signal | a halt stops new bars, the run row tells how the run ended |
| **Readiness** `operations/readiness.py` | none (reads the database and venue evidence) | `inspect_readiness` | snapshot of a database another process writes | ready only if ledger, venue and snapshots agree |
| **Database** `persistence/db.py` | engine, WAL settings | open, migrate | - | - |
| **Configuration, logs, metrics, time, command line** `config.py`, `logging.py`, `metrics.py`, `time.py`, `cli.py` | - | - | - | - |
| **Dashboard** `dashboard/`, `scripts/run_dashboard.py` | read-only views | HTTP handlers, charts | - | - |
| **Operator scripts** `scripts/*` | ledger rows while the trader is stopped; the shadow job beside it | manual close, reclassification, rebuilds, deployment, smoke tests, `run_breakout_shadow_job.py`, `run_breakout_forward_shadow.py` | run under the process lock, but for the shadow's, which have a lock of their own or none | - |

How the parts interact. The loop (`run_portfolio_live`) owns the task: it takes
a bar from the source, on a live minute bar calls
`reconcile_external_closures`, delivers the resulting external closes to the
strategies in one transaction with their snapshots, retries owed exits, lets
the strategy of the bar's binding produce intents, and passes each intent to
the risk guard, which calls `executor.submit`. The executor writes the command
ledger through the recorder before and after each venue call. Beside the task
the process runs the source's reader and, for a seeded campaign, a read of the
settlements in the background. The dashboard, the simulated runs and the shadow
job are processes of their own. `flock` in `scripts/run_live.py` keeps a second
trader out; systemd (`scripts/lnmbot.service`) restarts the first, and a timer
(`scripts/lnmbot-breakout-shadow.timer`) runs the shadow job.

## 2. Modules

| module | models | kind |
|---|---|---|
| `CommandLedger` | the recorder's command and order tables, one operator per transaction | component |
| `LiveExecutor` (EXTENDS `CommandLedger`) | executor, loop, venue, network, crash; the properties | composition |
| `TradeBook` | what execution promises: a book of decisions and trades | abstract specification |
| `LiveExecutorInv` | the inductive invariant `IInv` | proof support |
| `RangeMachine` | `strategy/impulse_range.py`: the pure machine, one operator per method | component |
| `ImpulseRange` (EXTENDS `RangeMachine`) | the funded adapter, the loop around it, one executor slot, replay and restart; the properties | composition |
| `RiskGuard` | `risk/guard.py`, with the executor reduced to what decides exposure; the properties | component |
| `CrossMemory` | `strategy/ma_cross.py`: what a timeframe remembers, one operator per method | component |
| `MaCross` (EXTENDS `CrossMemory`) | the loop around it, one executor slot, replay, restart, reclassification; the properties | composition |
| `BreakoutMachine` | `strategy/close_range.py`: the pure campaign machine, one operator per method | component |
| `CloseRange` (EXTENDS `BreakoutMachine`) | `close_range_live.py`, the loop around it, a slot per unit, replay and restart; the properties | composition |
| `FundingWait` | the loop's wait for published settlements, with the seeded campaign it holds back | composition |
| `BarFeed` | what a process may rely on when it reads the feed | abstract specification |
| `LiveFeed` | `data/live.py` under `data/multitimeframe.py`, venue and clock; implements `BarFeed` | composition |
| `ShadowBook` | the shadow's job and command, candle cache, lock and store, as processes | composition |
| `RunRecord` | what the database promises of every run | abstract specification |
| `PaperRuns` | backtest, paper session and in-memory run on one database, with strategy, guard, fills, flush, signals; implements `RunRecord` | composition |
| `MC_*` | the instances TLC checks | model checking |
| `LiveExecutor_proofs` | types; every action preserves `IInv`, part by part; the safety theorems; `LiveExecutor` implements `TradeBook` | proofs |
| `ImpulseRange_proofs` | the machine's lemmas; ownership, exits and blocks of the impulse range across restarts | proofs |
| `RiskGuard_proofs` | the loss breaker across awaits, midnight and restarts; exposure, margin and order window | proofs |
| `MaCross_proofs` | types, cooldowns, pending targets and external closes of the MA cross; single entries, cooldowns against the feed, exposure against the verdict | proofs |
| `FundingWait_proofs` | the campaign model and funded entries through waits, replays, holes and restarts | proofs |
| `LiveFeed_proofs` | `LiveFeed` implements `BarFeed` | proofs |
| `CloseRange_proofs` | folds over units, what every method of the ladder makes of a sound machine; ownership, single campaign, single opening, and that nothing raises, across restarts | proofs |
| `Stores_proofs` | the two stores that several processes write: rows and numbers of runs that share a database, fills against positions, `PaperRuns` implements `RunRecord`; the shadow's history, decisions and set-up under overlapping runs | proofs |

A definition whose comment starts with "Faulty:" is a plausible mistake in the
definition that follows it. No specification uses it; it exists to show that
the properties notice the mistake (section 12).

## 3. The core model: live execution

### Why this part first

Every other part can be wrong and be repaired by hand the next morning. A
position the bot has forgotten, or has opened twice, loses money while nobody
looks. The code answers with a write-ahead ledger: `begin_command` commits
before the venue call, `command_result` commits the answer, `apply_command`
turns it into order rows. The questions are whether these three commits, the
in-memory positions and the venue can get out of step.

### State

| model | code |
|---|---|
| `entryCmd[d]`, `entryTrade[d]` | `execution_commands` row keyed by the digest of decision `d`, and the trade id in its `result_json` |
| `closeCmd[t]`, `external`, `notified` | the row `close:t`, whether its result holds an `external_event`, its `notified` column |
| `rows[t]`, `holder[t]` | `isolated_action` of the `orders` rows of trade `t`, oldest first, and the execution key of the opening row |
| `pos`, `owed` | `_positions`, `_pending_exits` |
| `missing`, `unknown`, `invDown` | `_missing_remote`, `_unknown_remote`, `_inventory_unavailable` |
| `heard`, `saved` | external closes a strategy has applied in memory, and in its durable snapshot |
| `venue`, `origin`, `entryWire`, `closeWire`, `reply` | the venue's trades, whose request opened each, requests in transit, the answer to the awaited call |
| `pc`, `cur`, `ct`, `want`, `back`, `todo`, `seen` | where the task is, and its local variables |
| `acked` (history) | trades whose close was accepted in an answer the process received |

`Slots` are execution keys (`owner:slot`), `Trades` venue trade ids,
`Decisions` the digests that key entry commands. Prices, sizes and fees are not
in the model: no property of this module depends on them.

### Steps

The process is one task, so a step ends exactly at an `await` and at a commit;
everything between is one action, and the venue or a crash may come in between
any two. `pc` names the stages of a bar in the order of `run_portfolio_live`:
`idle`, `inventory`, `history`, `closing` (the loop of
`reconcile_external_closures`), `deliver`, `retry`, `strategy`, then the exit
path (`exit_wait`, `exit_result`, `exit_apply`) and the entry path
(`entry_inventory`, `entry_decide`, `entry_wait`, `entry_result`,
`entry_apply`).

* `_do_exit` is `ExitStart` (skip test, `begin_command`, request),
  `ExitFails` / `ExitAnswerLost` / `ExitAccepted`, `ExitResult`, `ExitApply`;
  `back` says whether the retry loop, an exit intent or a flip called it.
* `_do_entry` is `SubmitFlip` or `SubmitEntry`, `EntryInventoryRead` (or
  `Fails`), the admission test with `begin_command` (`EntryAdmitted`,
  `EntryNotSent`, `EntrySent`), `EntryRefused` / `EntryUnresolved` /
  `EntryAccepted`, and the two commits. `seen` carries the inventory across the
  await on pending orders: it is stale when it is used, as in the code.
* `reconcile` at startup is `BootApplyEntry`, `BootApplyClose` (replay of
  received results) and `BootRestore`, which stops (no step but `Crash`) when a
  slot has two open trades, as the code raises.
* `_deliver_external` is `DeliverTo(o)`: hook, snapshot and acknowledgement are
  one transaction per binding.
* `Crash` is a kill, a machine restart, or an exception the loop lets through;
  it clears memory and the answer, keeps the ledger, the snapshots, the venue
  and the requests in transit.

### Assumptions about what is outside

* `get_running_trades` answers with the state at the time of the call, or
  fails. The *closed* history may lag by any amount (`HistoryRead(listed)` with
  `listed` any part of what has closed).
* A request may be lost, executed late (also after a crash of the caller) or
  refused; its answer may be lost. `new_trade` opens at most one trade per
  request.
* The venue may close any trade at any time; a person may open trades by hand.
* One process at a time (`scripts/run_live.py`, the `flock`).
* SQLite commits are atomic and survive a crash.

### Abstractions to be aware of

* The POST and the `begin_command` commit before it are one step. A crash
  between the two is the behaviour in which the request is lost.
* The admission gates for data health, quote age, decision expiry and pending
  resting orders appear as the choice of `EntryNotSent`; resting orders count
  as remote exposure like unknown trades. Whatever the gates do, they can only
  refuse.
* Every slot with an open row has its binding (`unbound_owners` empty).
* `UnsafeLiveStateError` ends the process, so it is `Crash`.
* The snapshots saved around `submit` add nothing to `saved`, since `heard` and
  `saved` are equal there (part of the invariant `CloseInv`), and are left out.
* `sync_funding`, awaited after an accepted close, is merged into that step.

## 4. The impulse range

Three kinds of state have to agree about one position: the machine's
`position` (what the strategy believes it holds), the executor's slot (what it
owns at the venue) and the adapter's own obligations (`_closing`,
`_urgent_exit`, `_close_trade_id`). Each survives a stop in another way: the
machine and the adapter in a snapshot written before and after the intents of
some bars, the slot in the command ledger. After a restart the bars of the
downtime are replayed with `warmup` set, starting before the snapshot.

### State

| model | code |
|---|---|
| `model` | `ImpulseRangeMachine`: `state`, `setup.pulled`, the channel's `confirmed_ts`, `expanding`, `pending_stop`, `er_checked`, `tradeable`, `bar_ts`, `pending_impulse`, `position`, `last_exit_minute` |
| `live` | `_closing`, `_urgent_exit`, `_close_trade_id`, `model_complete`, `_carried`, `_entry_blocked_bar`, `last_minute_ts` |
| `mirror`, `gap` | the loop's copy of the slot, `engine_data_health` |
| `saved` | `strategy_state_snapshots` |
| `slot`, `begun`, `told` | the open trade, its submitted close command, the acknowledged external closes (all durable) |
| `gone`, `owed`, `doubt` | the venue closed the trade; `_pending_exits`; `_inventory_unavailable` or `_missing_remote` |
| `pc`, `intents`, `due`, `fresh` | the stage of the bar, intents left, `snapshot_due`, no snapshot saved by this run yet |
| `bar`, `tick`, `sinceBar`, `sinceTick` | the item of the feed, and the first one that is live |
| `warnedBar`, `hurt` (history) | the last 4h bar in which an external close was delivered by the loop; a live bar lacked evidence |

Prices are reduced to what they decide. A completed 4h bar takes the machine
*onward* (pullback, confirmation, redraw), *voids* what it waits for or holds
(beyond the impulse, wider than the cap, beyond the stop band) or does neither;
a bar opens inside the channel or not; a minute closes at an edge, through the
midpoint, or neither. All of these are chosen freely. Sides are left out.

### Steps

The feed is a sequence of 4h bars: bar `b` is `MinutesPerBar` minutes and then
the completed 4h bar, together with the daily bar that precedes it at
midnight. What lies before the first live item is replayed in one step per
item (`ReplayMinute`, `ReplayBoundary`). A live item goes through the stages
of `run_portfolio_live`: inventory and external closes (minutes only),
delivery, the owed exit, the strategy with the snapshot that precedes
submission (`DecideMinute`, `DecideBoundary`), each intent, the end of the bar.
`Stop` (a kill, or `UnsafeLiveStateError`) may come between any two steps.

The slot behaves as `LiveExecutor` proves of its slots: one trade at most, a
close that is begun durably, retried, and not repeated while its outcome is
unresolved; a close that is executed without an answer is later booked as an
external one.

Assumptions: bars replayed twice need not be equal (the model chooses again,
which only adds behaviours); a clock and a feed that never go back; funded mode
with entries enabled; the policy does not change between runs. The slot is a
single binding's, so flips do not occur.

## 5. The risk guard

`RiskGuard` follows one intent at a time through `RiskGuard.submit` and, for an
entry, on through the executor up to the answer of the venue. Unlike
`LiveExecutor` it has quantities, a clock and a ledger of daily results, and in
exchange no commands: what the executor may refuse for reasons of its own is
`ExecutorDeclines`, enabled at any of its awaits.

| model | code |
|---|---|
| `now`, `price` | `_clock()`; `current_price_usd` of the guard and `_last_close` of the executor, which a bar sets together |
| `booked[d]` | the `daily_pnl` rows of a UTC day, over all runs, in sats; the tally is `booked[Today] * price`, re-read on every use as `_rollover_day` does for an executor with `authoritative_accounting` |
| `pos[s]` | `qty_sats` (contracts of one dollar) and `collateral_sats` of a slot's position |
| `gone[s]` | the day the venue closed the trade without the process knowing yet |
| `unresolved` | notional of entry commands sent and neither applied nor rejected |
| `recent`, `stamp` | `_recent_orders` and `rate_ts` |
| `stage`, `intent`, `size` | the await the task is at, and what it carries across it |
| `flipped`, `sends` (history) | the entry in progress closed a position itself; times of the entries sent within the last window |

The steps of an entry: `EntryAdmitted` (admission, breaker, order window, all
before the first await), `EntrySized` (the caps in their order, after the await
on the balance), the cash await, then `FlipBegins` / `FlipAccepted` or
`EntryBegins`, the await on the inventory, `EntrySent` (admission again, the
command, the request), `EntryFilled` / `EntryRefused` / `EntryUnanswered`. Time
passes and the venue closes positions in every await; bars, funding and booked
closures come only between intents, since the loop is one task. A side is not
modelled: an entry that meets a position is either of the same side
(`ExecutorDeclines`) or a flip. A strategy's notional and the result of equity
sizing are both an arbitrary member of `Asks`. `Crash` keeps positions, ledger
and unresolved entries and forgets the order window. Entries that admission or
the breaker refuse change nothing in the state and are left out. A fill has the
quantity asked for, and collateral is the margin without maintenance, as in
the code's fallback when the venue reports no margin.

## 6. The MA cross

One timeframe of the strategy that trades crossings of price and two moving
averages. A completed bar gives a *verdict* (UP, DOWN or FLAT); a change of
verdict closes exposure against it and opens exposure with it, unless a
*cooldown* runs, which an exit with a large profit or a large loss begins and
which the following changes of verdict use up. The difficulty is that the same
information is kept in four places that fail differently: the verdict and the
counters in memory and in a snapshot, the position in the executor's ledger,
the position at the venue, and what is still to be sent (`pending`) between
them.

### State

| model | code |
|---|---|
| `mem.at`, `mem.verdict` | `_TfState.last_bar_ts` (as the number of bars) and `verdict` |
| `mem.win`, `mem.loss` | `_suppressed_signals`, `_loss_suppressed_signals` |
| `mem.pending`, `mem.hold`, `mem.reset` | `_pending_position_reconciliation`, `_manual_flat_hold`, `_external_reset_pending` |
| `mem.restart`, `mem.startup` | `_restart_pending`, `_startup_reconciliation_pending`, which no snapshot keeps |
| `mirror`, `gap`, `saved` | the side in `StrategyState`, an entry of `engine_data_health`, the snapshot of both |
| `slot`, `begun`, `told`, `gone`, `owed`, `doubt` | as in section 4; `gone` and `told` also say why the trade was closed |
| `unclear` | the last close has an unknown cause, so an operator may classify it |
| `feed` | the verdicts of the completed bars: a replayed bar has the verdict it had live |
| `winFrom`, `lossFrom`, `enteredAt`, `eligible` (history) | bar of the last start of each cooldown and of the last entry; a live bar came after the last external close |

Indicators are reduced to the verdict, profit to what it starts (`Results`),
amounts and CHOP sizing are left out. `CrossMemory` holds the methods as
functions from a memory to an *outcome* (memory, side in the strategy's state,
orders), so that `on_bar`'s order of early returns (reset, hold, opposed
exposure in a cooldown, unconfirmed exit, cooldown slot, restart, transition,
retry) can be read off one definition each.

### Steps

`Restart` restores the snapshot, settles what the ledger confirms and delivers
external closes that no run was told of. The bars of the downtime come as warmup
(`ReplayBar`), which may find a hole (`ReplayBroken`). Then minutes and
bars alternate; the first item of a run is a minute. Each passes the
stages of `run_portfolio_live`: the venue's inventory and delivery (minutes
only), the owed exit, the decision with its snapshot, the orders one by one, the
end of the bar with the second snapshot. An order may be filled, refused
or lost; a same-bar flip is an exit and an entry, either of which may fail, and
the entry closes a position it still meets. `Crash` may come between any two.
`VenueCloses` is a liquidation or a close by hand at any time, heard of with its
cause, or with none. `Classify` is `scripts/classify_ma_external_close.py`. A hold
reaches the portfolio only at its first start, from a legacy snapshot
(`scripts/reconcile_manual_close.py` writes that name), so it is in `Init`.

Assumptions: an operator settles an entry in doubt before the venue agrees
again; the policy does not change between runs. `on_intent_rejected` is called
for every entry that is not filled, failures of the executor included
(`risk/guard.py:391`), so an entry is sent again only after a stop between the
snapshot and the order. The branches `cool_off_pending_position_reconciliation`
are in the model and are never taken: a pending entry is never there in a
cooldown, which is part of what `NoEntryDuringCooldown` rests on.

## 7. The close-range ladder

One campaign of the breakout strategy is a parent unit and up to `MAX_UNITS - 1`
add-ons, each a trade of its own in a slot of its own, all closed together when the
campaign ends. The campaign is decided on completed daily candles; the machine
may also follow one that no money is in (`historical`, seeded; `paper`, decided and
not filled). What can go wrong is the relation of units and slots: a unit without
a trade, a trade without a unit, two campaigns at once.

`BreakoutMachine` has the pure machine as a record, with prices reduced to what they
decide: a close falls back over the boundary, recovers its peak, breaks the range
with a sound or unsound structure; an add-on fits between boundary and distance
limit; a bar reaches a unit's liquidation level. Sides stay, since a reversal
and `direction_mode` depend on them. `Restorable` says which states
`restore` accepts.

| model | code |
|---|---|
| `live.urgent`, `closing`, `aborting`, `reversal` | `_urgent_intents`, `_closing_slots`, `_aborting_slots`, `_pending_reversal` |
| `slots`, `begun`, `untold`, `gone`, `owed`, `doubt` | per unit: the executor's trade, its close command, an external close not yet acknowledged; the venue closed it; `_pending_exits`; an inventory or entry in doubt |
| `mirror`, `gap`, `saved`, `fresh`, `due` | the loop's copy of the positions, `engine_data_health`, the snapshot and when it is taken |
| `day`, `tick`, `sinceDay`, `sinceTick` | the item of the feed, and the first one that is live |
| `traded`, `kept`, `torn`, `raised` (history) | the lifetime slots opened; how many were in the last snapshot; a stop separated a fill from its snapshot; what has raised |

The adapter's methods are functions from a machine and its fields to a *verdict*
(both afterwards, the intents, and whether the method raised), so that the loop's
stages read as in sections 4 and 6. A handler that raises ends the process
(`Unless`); a startup whose checks fail leaves it down (`RestartRefused`), which
is why this run does not check for deadlock. A replay starts a day before the
snapshot, and what lies before the first live item is seen with `warmup` set:
exits stay actionable, entries are abandoned. Funding is one flag here
(`funded`); how it comes about is section 8.

Assumptions: an operator settles an entry in doubt; candles replayed twice need
not be equal; one run of policy. The executor's slot is as in section 4.

## 8. The funding wait

A seeded historical campaign may be advanced only with the settlements that the
venue has published, since its liquidation level depends on funding. The venue
publishes late; `run_portfolio_live` then holds the strategy's bars
(`historical_waits`), reads the settlements in the background, and replays the
held bars in order (`_replay_historical_bars`), each after the settlements due
by its time. A decision found in the replay may be acted on when it is younger
than the late window.

The feed is counted in positions: `2t+1` is the minute candle of `t`, `2t` the
daily bar that completes at `t`. `Models` has what the code keeps of the
campaign (`last_historical_funding_ts`, `last_historical_price_ts`,
`historical_model_complete`, `historical_funding_available`) and two histories:
`inTurn`, every price was judged with exactly the settlements due, and `unbroken`,
no minute was passed over. `wait` has the held bars, the boundary asked for and
the state of the task. A bar in `Feed` is exactly one of: seen at once
(`BarSeen`), seen after an immediate read (`FundingRead`), the first to be held
(`FundingLate`, or `WaitResumed` after a restart that finds the model paused),
held behind others (`BarHeld`, which also gives up when the wait is full), the one
that sets off the replay (`BarsReplayed`), or shown to nobody because the model
needs a rebuild (`BarUnmodelled`). `CandleLost` is a hole in the feed;
`RestartRebuilding` is the hydrator of `scripts/run_live.py`.

## 9. The live feed

`BarFeed` says what a reader of the feed may rely on: minutes in increasing
order, each at most once; after the minute that ends it (or, if that one is
missing, the next) every longer bar of which the process saw the beginning or an
earlier bucket, once, marked complete exactly when all its minutes were seen;
warmup only before the first live minute; and after a restart all anew.

`LiveFeed` is the code: `LnmLiveStream` reads the history, then polls from the
last candle on, asks again for the holes in the page (`Backfill`, a bounded
number), and yields candle by candle; `_stream_incremental` puts each into the
bucket of every span. Each request takes time: `Tick` and `Publish` (a candle
may be answered as soon as it has closed, later, or never) come between any two
steps. A candle carries `final`, whether its minute had ended when it was read.

## 10. The shadow book

The breakout strategy has a second, order-incapable life: a timer's job refreshes
a cache of daily candles and advances a machine in the database, day by day,
through `PortfolioStore`. The job holds a lock file; the plain command that does
the same on the cache as it is holds none. So two runs may overlap, each with its
own reading of the candles, and the exchange may revise a candle between
them. A machine is represented by the candles it has taken in, which is what the
digest in the code chains; a decision by its day and the candles it was made
on. Each transaction of the store is one step (`Import`, `Initialize`, `Advance`); a
run ends at any step (`Dies`) and loses its lock with the process.

The store has no set-up of its own: every run makes the tables if they are missing,
reads the rows of the schema's version (`Open`), inserts the row when there is none
(`Create`) and refuses the store when there is any other number of rows than one.
`PortfolioStore.__init__` begins no transaction before it reads, so these are two
steps. `BookInit` is the empty database. What this means for the properties: with
all runs under the lock the set-up happens once (`SetUpOnce`, proved); with the plain
command beside the job it may happen twice (section 13), after which no
run gets past `Open`. `CatchesUp` therefore assumes `SetUpOnce`; the safety properties
do not.

## 11. Simulated runs

Backtests, paper sessions and in-memory backtests write into one database. The
first two insert each row in a transaction of its own; the third keeps its rows in a
buffer with numbers of its own and inserts them at the end, moved up by the
largest numbers it found. `RunRecord` is what a reader of the database relies on:
each run has its own record, linked within itself, that grows a row at a time or
arrives as a whole, and never changes; its status is final once. `PaperRuns`
implements it: the loop over bars, the two simple strategies, the guard's
refusals and reductions, the paper executor's orders and fills, the mirror of the
positions into the strategy, the flush, `run_session` with signals and
exceptions, and crashes. The buffer `own` of a direct run is a history: what it
has done, to be compared with what is stored. A row's number is its place in its
table. The run of a fill is not a column (its order tells it) and is history
too.

## 12. What the runs show

| run | instance | distinct states | what it shows |
|---|---|---|---|
| `executor_safety` | 2 slots, 3 trades (symmetric), 3 decisions: open, flip, and one for the other slot | 465 752 | memory and ledger agree, nothing is booked or opened twice, a booked close is real, an external close is told once, an accepted close is never resent, and every step is a step of `TradeBook` or none |
| `executor_liveness` | 1 slot, 2 trades, 2 decisions | 25 660 | a begun close is finished, a venue-side close reaches the strategy |
| `range_safety` | 3 bars of 2 minutes, age limit 2 bars, 2 trades | 314 800 | an owned trade is modelled or leaving, and the id a close names is its own; a held one can still be left; gaps and external closes block entries durably; a close obligation in the snapshot ends with the trade closed |
| `guard_safety` | 2 slots (symmetric), 2 marks, asks of 1 and 3, one order per window of 2 ticks, quotes up to 3 ticks old, 5 ticks with midnight at the third | 1 812 177 | exposure and margin caps hold at the send; at most one entry above the limit in any window; none sent expired; no plain entry passes a tripped breaker |
| `cross_safety` | 4 bars, 2 trades, winner cooldown 2, loss cooldown 1, flips, mode `verdict_transition` | 304 272 | cooldowns count the feed; entries are single, current and held back; exposure against the verdict is in somebody's charge, and is closed or the verdict turns |
| `ladder_safety` | 3 units, 3 trades, 4 days of 1 minute, at most 3 days held, recovery from the second | 544 213 | no handler raises; owned trades are units or leaving; one campaign at a time; no lifetime slot twice unless a stop tears a fill from its snapshot |
| `ladder_restart` | the same, days of 2 minutes | violated | section 13 |
| `funding_safety` | a settlement every 2 minutes, 2 a day, late window 1, 6 held bars, 13 minutes | 459 797 | a funded entry rests on a campaign judged minute by minute with just the settlements due, within its window; a model reported complete has missed nothing; a wait keeps its bound |
| `feed_safety` | spans 2 and 4, 6 minutes, 1 hole a page, look-back 2 | 146 658 | `LiveFeed` implements `BarFeed`; a hole is evidenced on the next minute; published candles arrive or are passed by |
| `feed_forming` | the same | violated | section 13 |
| `store_safety` | a job and an unlocked command, 3 days, 2 versions of a candle, overlap 1 | 1 003 376 | the stored history is one source extended by days, decisions were made on it, and the book catches up with the calendar while nothing is revised, unless the store was set up twice |
| `paper_safety` | a direct run (backtest or paper, breakout or burst) of 2 bars and an in-memory one of 1 bar | 344 102 | `PaperRuns` implements `RunRecord`; done means whole; the strategy goes on from the position its stored fills make |

Some properties are conjunctions, with the parts named in the module:
`HeldCanLeave`, `OwnedIsManaged` (range), `WithinLimits`, `SendsStandAfterAwaits`,
`MemoryIsRight`, `EntriesFollowVerdicts`, `LadderIsWhole`, `ModelIsSound` and
`StreamIsConsistent`. The one type invariant of a module is a part of one of them
or a theorem (`LiveExecutor`, `MaCross`, `ShadowBook` as `BookTypeOK`), or part of a proved
invariant (`PaperRuns`).

Every property has a mutant: a "Faulty" form of one definition under which TLC
finds that property violated in the same instance. They are listed in
`PROJECT.json`.

Bounds. *Executor*: three trades are a held trade, its successor after a flip
and a manual or other-slot trade; the flip decision makes the exit-then-entry path
happen while the other slot has an entry in doubt. A counterexample to any
property involves at most two trades of one slot and one more decision.
`entryWire` counts requests per decision and never exceeds one (`EntryInv`).
Nothing else in the state grows. Trades are interchangeable, so symmetry over
them is sound for the safety run; the liveness run uses none. Liveness has one
slot because slots only share the admission gate.

*Impulse range*: two minutes make the last minute of a bar (whose signal is
carried over the bar change) different from the first; three bars let a range
be confirmed, held, broken, expire and be missed; two trades are the one an
obligation was meant for and the next. The last minute of the last bar is
delivered again and again, so neither deadlock nor liveness depends on the end
of the feed.

*Risk guard*: `LastTick` stops the clock, `MaxBooked` caps a day's result. With
two slots, a total of 3 and a slot cap of 2 a second entry must be clamped, and
with an unresolved one beside it would exceed the total. The loss limit is two
dollars: the one lost sat trips it at price 2 and not at price 1, so a change of
mark and midnight both turn the breaker. A quote may be older (3 ticks, 90 s)
than the window is long (2 ticks, 60 s), as in the code, so that an order can
outwait its own stamp. With losses of two sats a day the same run has 4 113 355
states and the same result.

*MA cross*: three changes of verdict (four bars) open a position, close it or
turn it, and use up cooldowns: one of one slot, begun by an external close at
the second bar, is used up at the third and an entry follows at the fourth; one
of two slots goes from two to one. That a cooldown of two is used up too takes a
fifth bar (2 235 000 states without the liveness property, the same result) and
is left out of the run. Two trades are the position a cross leaves and the one it
opens. Minutes go on after the last bar. Only the mode `verdict_transition` is
run; the theorems of section 14 hold in all three (one of them in two, see there).

*Close range*: three units are a parent, an add-on and an add-on that follows
a closed one; with fewer, the slot to be filled again and the latest unit
coincide. Three trades are two units of one campaign and the parent of
the next. Four days hold a campaign's opening, two add-ons, its end and a
reversal. A day is one minute and its daily bar, and the window of a deferred
reversal ends with that minute. With two minutes a day and a window of one the
same run has 1 068 055 states and the same result.

*Funding wait*: two settlements a day let a held stretch span more than one, and
let a daily bar fall on a settlement, which is where its decision waits. Six
held bars are a day (four minutes and its daily bar) and one more, so that the
bound is reached by waiting, not at once. Thirteen minutes are three days and
a minute: the seeded day, a held one, one after the recovery.

*Feed*: spans 2 and 4 nest and end together; six minutes hold a bucket that is
seen from its middle, a whole one and an unfinished one. One hole per page lets
the second go unasked, which is the case beyond `gaps[:10]`. A process starts at
minute 0 (no history) or 3.

*Shadow book*: three days from a seed of one, two versions: a day stored by one
run, revised, and met by another, with one more to follow. Two runs suffice for a
second set-up, and with more than one row it does not matter how many. With two jobs
instead (159 076 states) `SetUpOnce` is an invariant of the same run.

*Simulated runs*: two bars let a direct run open and reverse while the other
flushes; one bar of the in-memory run, a minute or a longer one, reaches each of the
tables. A quantity of 1 and
rejections cover what a clamp changes in the rows; places -2, -1 and 2
are an entry each way and an exit without one.

Deadlock is checked in every run but those of `CloseRange` (a startup that refuses
leaves the process down for good) and `PaperRuns` (runs end).

Fairness, and why the code justifies it. All liveness is stated with
`<>[][~Crash]` (`Dies` in `ShadowBook`): systemd has `Restart=always`, the timer is `Persistent`, and in the
end the process stays up. Without it nothing can be promised.

* `LiveExecutor`: `WF(Progress)`, the task goes on whenever it waits neither for
  the venue nor for a new bar; `SF(MinuteBar)`, `SF(BarEnds)`, bars keep coming
  and a strategy returns finitely many intents; `SF` of an inventory, a history
  of what is closed, a retry, and of the awaited close: a call the code repeats
  on every bar is answered now and then. Nothing is assumed of entries: one whose
  answer was lost stays `submitted` for ever and keeps admission closed. The code
  wants this (`entries_blocked_reason`) and an operator resolves it.
* `ImpulseRange`: the process is restarted and the loop goes on (`WF` of `Restart
  \/ LiveBar`, of leaving a replayed bar behind and of taking a decision,
  whatever the verdict), and an inventory, and a close, succeed now and then
  (`SF`). `UnsafeLiveStateError` is not excluded.
* `MaCross`: the same.
* `LiveFeed`: `WF(Stream)`, the reader goes on, and `SF(PollRead)`, a poll is
  answered now and then. Nothing is assumed of `Publish`.
* `ShadowBook`: `WF(BookStep(r))` of the timer's job, which
  `lnmbot-breakout-shadow.timer` starts three times a day. Nothing is assumed of the
  plain command, nor that it ends.

## 13. Disagreements

Where the code does something else than its own text says. The two runs that
expect a violation show the first two. The others are stated in their modules
as definitions that the code breaks ("The code breaks this one"): added to the
cfg named here, as an invariant or a property, TLC prints the trace.

**A closed slot that keeps the process down** (`ladder_restart`,
`ClosedSlotIsBookkept`). The comment at `strategy/close_range_live.py:384` says
of a unit queued for closure that the venue closed first: "only durable close
bookkeeping remains". At startup `reconcile_execution_state` runs before the
undelivered closes are told, and forgets every slot on its way out that is flat
by then; `on_external_position_closed` no longer takes the branch of that comment and
raises. The acknowledgement is never committed, so every later start raises
too. `NeverRaises` excludes this finding and nothing else.

**A forming candle that passes as closed** (`feed_forming`, `OnlyClosedCandles`).
`data/live.py:159`: "Skip the currently-forming candle". A poll asks up to the time
before the request, so the answer may hold the candle that is forming; it is judged
with the clock at the time of the look, after the backfill and after the reader has
dealt with the earlier bars. When the minute has ended by then, it passes with
the values of the read, and is never read again.

**An external close that is our own** (`LiveExecutor_live.cfg`,
`ExternalCloseIsNotOurs`). The docstring of `ExternalClose`
(`engine/live_executor.py:77`): a trade "the venue closed without our close
call". The process sends the close, the venue accepts, the process stops before
`command_result`; at the next start the trade is found in the history and booked
with an `external_event`. No position is lost (`MemoryMatchesLedger` holds), but the
strategy hears of an external close of its own exit; for the MA cross this
clears the winner cooldown that the exit began and starts a loss cooldown, or
none if the venue reports no liquidation.

**An exit for a trade that is gone** (`ImpulseRange.cfg`,
`ExitNamesHeldTrade`). README.md:131: "Funded range recovery retains an owned
close obligation until venue flatness". When the venue closes a trade whose exit is
still owed, `on_external_position_closed` (`strategy/impulse_range_live.py:451`) clears
`_closing` only; `_urgent_exit` and `_close_trade_id` wait for the next trade of
the slot, whose first minute emits the old exit with the old id, and `_do_exit`
raises `UnsafeLiveStateError`: the process stops, restarts, and stops again on
every minute until a stop or an expiry names the trade anew.

**A flip behind the breaker** (`RiskGuard.cfg`, `FlipRespectsBreaker`).
DEPLOYMENT.md:95: an "entry circuit breaker based on recorded realised P&L and
funding". `submit` compares before its awaits. When a cross is answered with an
exit and an entry in one bar and the exit fails, the entry finds the old
position, closes it, books the loss and is sent, although the recorded P&L is
now at the limit. Entries that close nothing are covered by `BreakerHolds`.

**One order too many in a minute** (`RiskGuard.cfg`, `OrdersPerMinute`).
DEPLOYMENT.md:96: "Maximum order submissions across the process". `rate_ts` is
read before the awaits and appended after them, so a slow order leaves the
window too early. One too many is the worst case (`SubmissionsBounded`).

**A hold that outlives its verdict** (`MaCross.cfg`, `HoldEndsWithItsVerdict`).
`strategy/ma_cross.py:160`, a hold "is released only when the verdict changes away
from this value", and the name of the test at `tests/test_cooldown_modes.py:274`.
`on_bar` returns for a warmup bar before it looks at the hold: a verdict that
changes during a downtime and turns back at a live bar meets the old hold, which
suppresses the fresh transition.

**A retried close that is no longer wanted** (`MaCross.cfg`,
`RetriedCloseIsCurrent`). `strategy/ma_cross.py:459`: "A pending action for an older
verdict is no longer a valid retry." The executor keeps the exit it owes. When
the verdict turns back before a retry succeeds, the position that the verdict
asks for again is closed, and not re-entered, since the verdict does not change.

**A lifetime slot used twice** (`CloseRange.cfg`, `OpenedOnce`). A closed add-on is
removed "without replenishing its lifetime slot" (`strategy/close_range.py`). An
add-on that fills beyond the distance limit is closed in the same bar. When the
process stops between that and the snapshot, the next start finds a unit that was
decided and no trade, and takes it back as never filled, with its lifetime slot; the
next day decides it again. `OpenedOnceIfKept` says that nothing but such a stop
does this.

**A rebuild that does not last** (`FundingWait.cfg`, `RestartRebuilds`).
DEPLOYMENT.md:149: with the evidence verified, "restart only the trader to rebuild
from its saved" state. A daily bar that lacks a candle sets the data health, which
the snapshot keeps and which clears `historical_model_complete`. The next start
hydrates the machine and sets the flag (`engine/portfolio_live.py:344`), but the
health that was restored beside it clears the flag again on the first bar
(`:522`), before the replay gets to the daily bar that repairs the health. It takes
a later restart, from a snapshot taken after that repair.

**A store set up twice** (`ShadowBook.cfg`, `StateStaysUsable`).
`scripts/run_breakout_shadow_job.py:34`: "A failure in either stage leaves the preceding
strategy state usable on the next run", and `tests/test_breakout_shadow_job.py:73`:
"Exact retry leaves the state and source usable." When the first job and a first
plain command overlap (or two commands; `seed_breakout_portfolio.py` opens the store in
the same way), both find no version at `portfolio/store.py:104` and both insert one at
`:106`. Both go on and store the machine; every later run, and the dashboard, finds
`[1, 1]` and raises "unsupported portfolio schema", until somebody deletes a row by
hand. The stored history is intact (`DecisionsAreOfBook` and `OneSourceAppends`
hold). The installed service has only locked jobs, and the other commands refuse its
paths, so it is safe (`LockedRunsSetUpOnce`).

**Reserved numbers that are taken** (`PaperRuns.cfg`, `BlockIsReserved`).
`engine/inmemory.py:298`: "Reserves a contiguous block of IDs ... to avoid collisions
with rows that may already exist in the DB". The largest numbers are read before
the transaction has written, so another run may insert between the read and the
first insert; the flush then fails on a duplicate key and the whole run is lost (with
status "error"). `KeepsRecords` and `DoneIsWhole` hold all the same: a failed
flush stores nothing.

Worth knowing, without a text that says otherwise. The 4h bar that an external
close blocks is the machine's `bar_ts` at delivery; a close booked in the first live
minute after a restart whose delivery is left to the next restart blocks the bar
of the snapshot instead, which may be older. A signal overrules an exception: a
run that failed after it was told to stop is "halted", not "error". The bulk replay
of a file (`data/multitimeframe.py:182`) passes over a longer bar whose
boundary minute is missing, while the live stream reports it with the next
minute.

## 14. What is proved

For every value of the constants that satisfies the named `ASSUME`s of the
modules (types of the constants, the "no" values are not members, lengths are
positive), so for all numbers of slots, trades, decisions, bars and minutes, all
caps, windows and cooldowns; without symmetry and without fairness. The two
theorems with a hypothesis of their own are marked.

| module | theorem | statement |
|---|---|---|
| `LiveExecutor` | `TypeCorrect` | `Spec => []TypeOK` |
| | `Invariance` | `Spec => []IInv` |
| | `MemoryCorrect` | `Spec => []MemoryMatchesLedger` |
| | `BookedOnceCorrect` | `Spec => []BookedOnce` |
| | `OneTradeCorrect` | `Spec => []OneTradePerDecision` |
| | `UnbookedCorrect` | `Spec => []AtMostOneUnbookedEntry` |
| | `RunningCorrect` | `Spec => []OneRunningTradePerSlot` |
| | `BookedCloseCorrect` | `Spec => []BookedCloseIsReal` |
| | `FoldedOnceCorrect` | `Spec => []ExternalCloseFoldedOnce` |
| | `OwedCorrect` | `Spec => []OwedExitIsForHeldTrade` |
| | `AcceptedCloseCorrect` | `Spec => AcceptedCloseNeverResent` |
| | `BookImplemented` | `Spec => BookIsKept` (refines `TradeBook`) |
| `ImpulseRange` | `Invariance` | `Spec => []IInv` |
| | `HeldCanAlwaysLeave` | `Spec => []HeldCanLeave` |
| | `OwnedIsAlwaysManaged` | `Spec => []OwnedIsManaged` |
| | `BlocksAreRespected` | `Spec => EntriesRespectBlocks` |
| `RiskGuard` | `BreakerInvariant` | `Spec => []BInv` |
| | `BreakerTheorem` | `Spec => BreakerHolds` |
| | `LimitsInvariance` | `Spec => []LInv` |
| | `WithinLimitsAlways` | `Spec => []WithinLimits` |
| | `SendsAlwaysStand` | `Spec => SendsStandAfterAwaits` |
| `MaCross` | `TypeCorrect` | `Spec => []TypeOK` |
| | `TargetIsAlwaysCurrent` | `Spec => []TargetIsCurrent` |
| | `NoEntryDuringCooldown` | `Spec => NoEntryWhileCooling` |
| | `ReplacementWaits` | `Spec => ReplacementAwaitsBoundary` |
| | `EntriesAlwaysFollow` | `Spec => EntriesFollowVerdicts` |
| | `OpposedIsAlwaysObligated` | `Spec => []OpposedIsObligated` |
| | `MemoryIsAlwaysRight` | `Mode # "order_opportunity"`: `Spec => []MemoryIsRight` |
| `FundingWait` | `Invariance` | `Spec => []IInv` |
| | `EntriesFundedOnEvidence` | `Spec => []FundedOnEvidence` |
| | `ModelAlwaysSound` | `Spec => []ModelIsSound` |
| `LiveFeed` | `Invariance` | `Spec => []IInv` |
| | `StreamStaysConsistent` | `Spec => []StreamIsConsistent` |
| | `FeedImplemented` | `Spec => FeedIsKept` (refines `BarFeed`) |
| `CloseRange` | `Invariance` | `Spec => []IInv` |
| | `NeverRaisesInAnyOrder` | `Spec => []NeverRaises` |
| | `EveryOwnedTradeIsManaged` | `Spec => []OwnedIsManaged` |
| | `TheLadderStaysWhole` | `Spec => []LadderIsWhole` |
| | `OpenedOnceUnlessTorn` | `Spec => []OpenedOnceIfKept` |
| `ShadowBook` | `ShadowTypesCorrect` | `BookSpec => []BookTypeOK` |
| | `BookIsConsistent` | `BookSpec => []DecisionsAreOfBook` |
| | `BookOnlyGrows` | `BookSpec => OneSourceAppends` |
| | `LockedRunsSetUpOnce` | `Processes = Jobs`: `BookSpec => []SetUpOnce` |
| `PaperRuns` | `Invariance` | `Spec => []IInv` |
| | `DoneIsAlwaysWhole` | `Spec => []DoneIsWhole` |
| | `FillsAreAlwaysBelieved` | `Spec => []FillsAreBelieved` |
| | `RecordsAreKept` | `Spec => KeepsRecords` (refines `RunRecord`) |

`LiveExecutor_proofs`. None of the properties is inductive: `MemoryMatchesLedger`, for
instance, is preserved by `ExitApply` only if the trade being booked is the one
its command names. `IInv` adds what the code relies on without saying it:

* `EntryInv`: a request is in transit only under its own submitted command, at
  most once, and while it is unresolved no trade of its slot is open in the
  rows. This is the use of the durable key and of the admission gate.
* `RowInv`: order rows and command statuses say the same thing.
* `ReceivedInv`: a result not yet applied is either in the hands of the step
  that will apply it or awaits startup. It makes startup's replay complete.
* `MemoryInv`, `OwedInv`: memory against rows, slot by slot, with the one
  exception of an accepted close that is being booked.
* `ExitInv`, `EntryStageInv`: what each stage of `pc` knows.
* `CloseInv`: what is booked closed is closed at the venue, and snapshots agree
  with acknowledgements. `AckedInv`: a close known to be accepted is booked,
  being booked, or held as missing with its command begun, which is what stops
  `CloseUnresolved` from letting it be sent again.

`IInv` can be added to `LiveExecutor.cfg` as an invariant; TLC agrees with it there.
Preservation is proved action by action and part by part;
the safety theorems follow from `IInv`. The refinement maps a decision to the
status of its command, a trade to its rows and `told` to the snapshots, and
needs `IInv` for the guards of the book's `Commit` and `Tell`.

`RiskGuard_proofs`. `BreakerHolds` speaks of one step, the send, and needs what
was true at the check to have stayed true: `Watched` says so, and holds because
between the two only a flip writes the ledger, the mark moves only between
intents, and at midnight the new day's rows are still empty (`Books`: no row and
no unnoticed close is dated after today). That last part needs integer division
to be monotone, which is a lemma. It rests on `BoundsType`: the length of a day
and the loss limit are positive.

The limits have an invariant of their own, `LInv`. Exposure and margin are sums
over the slots, computed before an await and used after it. The argument is that between the check and the send only the slot of the
entry in hand changes (a flip closes it), every other position can only be
closed by the venue, and lemmas on the sums say what one slot's change does to
them. So `NotionalFits` and `MarginFits`, the room an entry was given beside the other
positions, survive each await, and `SentAlone` (an entry being sent is all that
is unresolved) carries the notional to the fill and to `ExposureBounded`. The
window bound needs `Rated`: every send of the window but the last two has left a
stamp that the guard still counts. `Interleaved` pairs sends and stamps from the
end, since a send comes later than its stamp and may outlive it. Besides `BoundsType` this uses
`CapsType` (caps are naturals, the leverage cap and the window positive; the
code's window is 60 s) and `SlotsType` (slots are finite).

`ImpulseRange_proofs`. Lemmas on `RangeMachine` show that every method keeps
`Sound`, the consistency of channel, state and position within the machine. `IInv`
then joins the parts of the process: `MemoryInv` (memory and snapshot alike: a
close in progress names the trade held, what blocks entries is remembered, and a
position has not outlived its expiry on the clock), `FeedInv` (where replay and
stream are), `ModelInv` (the model is never ahead of the live feed, and never
behind it unless it lacks evidence), `SlotInv` (the trade held is the loop's, and
modelled or leaving) and `IntentInv` (the intents in hand are exits, or one entry
that every block lets pass). `IntentInv` carries the blocks from the decision over
the awaits to the fill, which is where `EntriesRespectBlocks` speaks.
Assumptions: the types of the constants, bars and age limit positive.

`MaCross_proofs`. First, lemmas on `CrossMemory` say of each method what its
outcome is, for every memory: well typed, its pending entry that of the verdict
(`Current`), and without a running cooldown if it opens anything (`Cautious`). The
one that matters is `UnspentPlacesNothing`: a change of verdict that spends no
slot in a cooldown places no order, in each mode for a reason of its own. Then
`IInv` joins them over time. `MemoryInv` has `Current` for memory and snapshot,
and that a pending reset excludes a cooldown, without which the reset branch of
`on_bar`, which does not look at cooldowns, could open in one. `OrderInv` carries
"no cooldown" from the decision to the last of its orders. `AwaitInv` says that
between an external close and the next live bar slot, mirror, orders and pending
targets are all empty, in memory and on disk; so neither replay, startup nor
minute has anything to act upon. `ToldInv` keeps a close and its delivery
together. The assumptions are the types of the constants.

The second part goes on from there with what needs the feed itself.
`Standing` says at which bar of the feed memory and snapshot are, what verdict they
have read there, which side the slot is on since which bar, and whose the orders
in hand are. `FreshInv`: a target that is to be sent, in memory or in the
snapshot, belongs to a verdict not entered yet, or is what the executor has just
been given; this gives `EntriesFollowVerdicts`. `ChargeInv`: who is in charge of a
position against the verdict. `CoolInv` compares each cooldown with what the
changes of verdict since its trigger have left of it, for memory and for the
snapshot, so that the replay of the bars after the snapshot charges them once;
lemmas say what one more bar adds to a count. `MemoryIsAlwaysRight` assumes
`Mode # "order_opportunity"`: in that mode a change of verdict spends a slot only
where an order would follow, so what a bar costs depends on the position held at
that time. `Spending` in `CooldownMatchesFeed` is about the two modes in which the
feed alone decides, and states nothing true of the third. The other two theorems
hold in all three modes.

`FundingWait_proofs`. A price may be judged only once all settlements due by its
time have been, so `Sound` says of a model, in memory and in the snapshot, that
what it claims is true: `Claim` (a model that calls itself complete is `inTurn`, and
`unbroken` unless a candle of the running day is missing), `InTime` (no settlement
is paid before the bar it belongs to), `Abreast` (days do not run ahead of
minutes), `Paused` (a campaign that waits has taken in all that is due before the
settlement it lacks) and `OnTheGrid` (settlements and days are multiples of the
period, from which follows that a bar the wait does not append had been
judged already). `InOrder` has the held bars in the feed's order, with no minute
missing before a day; `Follows` and `Ahead` say that the next bar of the feed joins
on to the last one judged or held, `Resumes` that a process that is down is where
its snapshot is, `InHand` that the entry in hand rests on evidence. The replay is
a fold over the held bars, proved bar by bar: `ReplayStep` carries a statement
about a prefix to the next prefix, and if some prefix violated it there would be a
least one. Assumptions: `ClockType` (period and day positive) and `BoundsType`.

`LiveFeed_proofs`. `CursorInv`: the cursor is the last minute given. `BucketInv`:
the open bucket of a span is that of the cursor and holds the given minutes of its
time, and a span is in its first bucket exactly as long as that is all that was
given. `ReportInv`: what was reported is what `BarFeed` says has ended. `WarmInv`:
before streaming only history has been given. With them one minute of `LiveFeed`,
for all spans it ends or passes, is one step of `BarFeed`, and every other action is
a stutter. The assumption is `FeedType`.

`CloseRange_proofs`. What a method of the ladder requires of its arguments is
scattered over the code as `raise`; `IInv` says once what they all rest on.
`Sound(m, l, s, u, b)` relates a machine and the fields of the adapter to the trades
held, the closes still to be told and the closes begun: units are numbered below the
lifetime count, of a live campaign only the last unit may be undecided and every other
one is held, yet to be told or being aborted; a trade matches its campaign, or there is
no campaign and the trade is queued for closure; a close has been begun only for a
trade that is leaving; a pending reversal has no campaign but its own. `IInv` asks it of
two pairs at once, the one in memory and the one in the snapshot, against the *same*
durable slots: a restart continues from the second. `Placed` says what else holds at
each stage of the loop: between bars nothing is undecided and the mirror shows the
units (`Between`, from which `OwnedIsManaged` follows); while a bar is submitted the
intents left are exits of what is leaving, and at most one entry, the last, which is the
entry of the one undecided unit (`Acting`). `Counted` compares the history of openings
with what memory and snapshot may still open (`Fresh`): unless a stop came between a fill
and its snapshot, no slot below the lifetime count that could be opened has been, which
gives `OpenedOnceIfKept`. `Shrinks` says of a method that it offers no new slot.

The proof goes method by method and then action by action. `Told`, `AddonsResumed`
and `OnDaily` are folds over sets of units or lists of decisions. A fold is a
`CHOOSE` of a recursive function, so for each its existence is shown first
(`FoldExists`), then its value by least counterexample. A completed day makes at most
two decisions, and `OpenedCases` lists which: none, an exit, a parent, an
add-on, an exit and a parent. Each then has its lemma for a live day (`DayParent`,
`DayTurns`, `DayAdds` ...) and for a replayed one (`WarmExitDecides` ...). Last
comes a lemma for each action (`RestartKeeps`, `DeliverKeeps`, `FillReportedKeeps`
...), and `NextKeeps` joins them. Assumptions: the types of the constants,
`HoldType` and `ModeType` as the policy has them, and `MinutesType`: the window in
which a reversal may still enter ends within the day that gave it (five minutes,
`REVERSAL_ENTRY_WINDOW`, `strategy/close_range_live.py:33`). That last
assumption is used: were it not so, a reversal could still wait when the next
day begins a campaign. `IInv` was checked by TLC on three instances before it was
proved.

`Stores_proofs`, the shadow book. Two runs may hold different readings of the candles, and one
of them may be without the lock, so the argument cannot rest on who runs. It
rests on the comparison: `ProcessInv` says of every run that its machine is a prefix of
its own source and, once it advances, of the book too, which another run's
write cannot spoil, since the book only grows. `BookInv` is
`DecisionsAreOfBook`, with the book at least as long as the seed and no decision
before it. An advance at the stored length then extends the book by a day of one
source and one decision; an advance behind it stores nothing. Neither the lock, nor the number
of runs, nor what the exchange revises, nor who set the store up is used. The set-up
is the opposite case: there only the lock helps, so `LockedRunsSetUpOnce` assumes that
all runs are jobs. `SetUpInv` says that the run inside holds the lock and that a run about
to insert the version still sees none. The assumptions are `JobsType`, `NoRunType`
and `DaysType`.

`Stores_proofs`, simulated runs. A row of a run has two numbers: its place in the shared table,
which depends on what other processes insert, and its place among the run's own.
`Rank` counts from the one to the other, and the first lemmas say how it moves when
a table grows: not at all for rows already there (`ExtendedRanks`), and for another
run not at all. `Kept` says that each stored row of a run, with its link read
through `Rank`, is the run's own row; `Absent` that an in-memory run before its flush
has stored nothing. Every step of a run only appends rows of its own (`Extends`), so
it keeps both for every other run (`OthersKept`). For the run itself, `PutKept` does
it for one row and `InsertKept` for a flush: if no table in which the run has rows has
grown since the offsets were read, its block of numbers is its own, and a link moved up
by the offset names the row it named. They need `HandInv`, that the numbers of the signal and
order in hand denote the last ones, and `Sound`, that links within a record lie within it.
`PosInv` says that the position is the sum of the fills; a sum over a sequence is a fold that
takes any element first, so the sum lemmas show that the order does not matter.
`SideInv` says when the strategy has been shown the position. The record that
`RunRecord` speaks of is `own` for a run that has stored, and empty before. Assumption:
`PaperAssumption` (sizes are naturals, `Hold` positive, the setups are those of the code).

Every safety property that a passing run checks has a theorem, with one reservation,
the mode `order_opportunity` in `MemoryIsRight`. Only model-checked are the liveness
properties (`BegunCloseIsFinished`, `VenueCloseReachesStrategy`, `ClosingFinishes`,
`OpposedIsClosed`, `CandlesArrive`, `CatchesUp`). Liveness under fairness and
`ENABLED` are outside what the proof system handles. So are its library's
induction theorems that take an operator as a parameter. Sums and folds are not: where
one is needed (slots of `RiskGuard`, held bars of `FundingWait`, bars of `MaCross`, fills of `PaperRuns`, units of `CloseRange`) the
induction is a least counterexample, in first-order steps.

## 15. Not modelled

* **Money.** Fees, funding payments, equity and P&L figures of the executor and
  of the simulated runs, `sync_funding` beyond "a row of today changes", the
  account snapshot row, liquidation prices. The properties are about who holds
  what and who was told; sums of products over histories are left to the tests.
* **Indicators** and detectors (moving averages, CHOP, bursts, channels, breakout
  ranges), charts and audits: pure arithmetic; their results are arbitrary choices.
* **Impulse range**: shadow mode and its paper book, policy changes between runs,
  the arithmetic of the daily detector, the research replay.
* **MA cross**: the bars before the averages are seeded, CHOP sizing, several
  timeframes at once (they share nothing but the admission gate).
* **Risk guard**: the arithmetic of equity sizing, and the tally in memory that
  simulated executors use instead of the ledger.
* **Close range**: indicators, the arithmetic of fills and liquidation, the research
  replay; `entries_enabled` and the liquidation of units in the seeded history.
* **Simulated runs**: the offsets of a flush are read in one step (`ReadOffsets`), the
  reasons of a rejected order are one; an order too small to fill needs a second size and is
  left to the theorem `FillsAreAlwaysBelieved`.
* **Live execution**: the entry in doubt is never resolved by the process; there
  is no liveness property for it because there is none in the code.
* **Portfolio store**: reservations, cash events and capacity have no caller but
  their tests; `read_overview` only reads.
* **Venue client**: the websocket client, which nothing imports; the token
  bucket, retry delays, paging and signing. Reads that fail and late answers are
  in the modules that make the calls.
* **`run_paper` in live mode**: the deployment runs the portfolio loop.
* **Data sources**: parsing and paging, and the mock source, a file at wall-clock
  speed.
* **Readiness**, **dashboard**: they only read. **Configuration, logs, metrics, time,
  command line**, **database** set-up: no protocol.
* **Operator scripts** but those named above change the ledger while the trader is
  stopped; their effects are outside the specification, except that the proofs
  hold from any state satisfying `IInv`, which is what a script has to leave
  behind. `deploy_range_remediation.py` is a sequence of shell and service
  calls with a roll-back.

## 16. Plan

Done: live execution with ledger, book and proofs; risk guard, impulse range, MA
cross, close range, funding wait, live feed, shadow book and simulated runs, each
with the proofs of its safety properties.

Left, in this order:

1. What a cooldown counts in the mode `order_opportunity`, which needs the positions
   of the past as a history; then a run in that mode.
2. `Funding`: `sync_funding` and the daily rows against repeated and partial
   histories, down to their sums.
3. Rate limiter, and the deployment script with its roll-back.
