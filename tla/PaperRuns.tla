------------------------------ MODULE PaperRuns ------------------------------
(***************************************************************************)
(* Simulated runs that share one database: the backtest (engine/           *)
(* backtest.py) and the paper session (engine/live.py run_paper) store     *)
(* each row in a transaction of its own, the in-memory backtest (engine/   *)
(* inmemory.py) keeps its rows and inserts them at the end, under numbers  *)
(* it reserves by reading the largest ones.  Each run is a process with    *)
(* its strategy, guard, PaperFillExecutor, kill switch and signal handler. *)
(*                                                                         *)
(* Prices, money and times of day are left out: a bar tells its timeframe, *)
(* its minute and where its close lies, a position is a signed quantity,   *)
(* the guard accepts, clamps or refuses (RiskGuard says when).             *)
(* A row's number is its place in its table: the tables only grow.         *)
(***************************************************************************)
EXTENDS Integers, SequencesExt

CONSTANTS
  Runs,      \* processes
  Tfs,       \* subscribed timeframes
  Sizes,     \* quantities that a sized entry comes to, 0 if less than a sat
  Handled,   \* runs with install_signal_handlers
  Places,    \* where the close of a bar may lie
  Hold,      \* hold_bars
  Setups,    \* per process: the pairs of engine and strategy it may run
  MaxBars    \* bound, per process: bars of its feed

ASSUME PaperAssumption ==
  /\ Sizes \subseteq Nat /\ Hold \in Nat \ {0} /\ MaxBars \in [Runs -> Nat]
  /\ Handled \subseteq Runs /\ Places \subseteq -2 .. 2
  /\ Tfs \cap {"1m"} = {}
  /\ Setups \in [Runs -> SUBSET ({"backtest", "paper", "inmemory"} \X {"breakout", "burst"})]

VARIABLES
  db,        \* the tables: rows with the run, the content and the row it belongs to
  status,    \* of each run's row
  own,       \* the rows a run has made, by its own numbers (the _Buffer, a history otherwise)
  proc,      \* a run's process
  side,      \* its strategy's belief, per timeframe: 1 long, -1 short
  held,      \* its _BurstState.bars_held
  position   \* its executor's signed quantity

vars == <<db, status, own, proc, side, held, position>>

Tables == {"bars", "signals", "orders", "fills", "snapshots", "events"}
NoRows == [t \in Tables |-> <<>>]
NoOffsets == [t \in Tables |-> 0]
NoBar == [tf |-> "1m", ts |-> 0]

NewProc(setup) ==
  [pc |-> "bar", engine |-> setup[1], strategy |-> setup[2], stop |-> FALSE,
   bars |-> 0, minute |-> 0, bar |-> NoBar, todo |-> <<>>, signal |-> 0, order |-> 0,
   offset |-> NoOffsets, failed |-> FALSE]

Buffers(r) == proc[r].engine = "inmemory"
In(r, pc) == proc[r].pc = pc
Alive(r) == proc[r].pc \notin {"new", "over", "dead"}
Goes(r, pc) == proc' = [proc EXCEPT ![r].pc = pc]
Sign(q) == IF q > 0 THEN 1 ELSE IF q < 0 THEN -1 ELSE 0
Abs(q) == q * Sign(q)

Init ==
  /\ db = NoRows
  /\ status = [r \in Runs |-> "new"]
  /\ own = [r \in Runs |-> NoRows]
  /\ proc = [r \in Runs |-> [NewProc(<<"none", "none">>) EXCEPT !.pc = "new"]]
  /\ side = [r \in Runs |-> [tf \in Tfs |-> 0]]
  /\ held = [r \in Runs |-> [tf \in Tfs |-> 0]]
  /\ position = [r \in Runs |-> [tf \in Tfs |-> 0]]

-----------------------------------------------------------------------------
(* The recorders.                                                          *)

\* The run of a fill is history: its order tells it.
Row(item, link) == [item |-> item, link |-> link]
RowOf(r, item, link) == [run |-> r, item |-> item, link |-> link]
Parent(t) == IF t = "fills" THEN "orders" ELSE "signals"

\* A row is stored at once, or kept until the end.
Put(r, t, item, link) ==
  /\ own' = [own EXCEPT ![r][t] = Append(@, Row(item,
       IF Buffers(r) \/ link = 0 THEN link ELSE Len(own[r][Parent(t)])))]
  /\ db' = IF Buffers(r) THEN db ELSE [db EXCEPT ![t] = Append(@, RowOf(r, item, link))]

NextId(r, t) == 1 + IF Buffers(r) THEN Len(own[r][t]) ELSE Len(db[t])

\* The recorder replaces the bar of a minute that comes twice, the buffer keeps both.
PutBar(r, ts) ==
  IF ~Buffers(r) /\ \E i \in DOMAIN own[r].bars : own[r].bars[i].item = ts
  THEN UNCHANGED <<db, own>>
  ELSE Put(r, "bars", ts, 0)

-----------------------------------------------------------------------------
(* The strategies, on a bar of their timeframe.  The close of the bar lies *)
(* beyond the entry channel (2, -2), beyond the exit channel only (1, -1)  *)
(* or within; beyond the entry channel also stands for a qualified burst.  *)

Enter(tf, d) == [tf |-> tf, kind |-> "entry", side |-> d]
Exit(tf) == [tf |-> tf, kind |-> "exit", side |-> 0]

Breakout(tf, s, place) ==
  IF s = 0 THEN IF Abs(place) = 2 THEN <<Enter(tf, Sign(place))>> ELSE <<>>
  ELSE IF Sign(place) # -s THEN <<>>
  ELSE IF place = -2 * s THEN <<Exit(tf), Enter(tf, -s)>>
  ELSE <<Exit(tf)>>

HeldOut(r, tf) == held[r][tf] + 1 >= Hold
Burst(r, tf, s, place) ==
  IF s # 0 THEN IF HeldOut(r, tf) THEN <<Exit(tf)>> ELSE <<>>
  ELSE IF Abs(place) = 2 THEN <<Enter(tf, Sign(place))>> ELSE <<>>

Intents(r, tf, place) ==
  IF proc[r].strategy = "breakout" THEN Breakout(tf, side[r][tf], place)
  ELSE Burst(r, tf, side[r][tf], place)

\* What the strategy then believes, and how long the burst has been held.
OnBar(r, tf, intents) ==
  /\ side' = IF intents = <<>> THEN side ELSE [side EXCEPT ![r][tf] = Last(intents).side]
  /\ held' = [held EXCEPT ![r][tf] =
       IF proc[r].strategy = "breakout" THEN 0
       ELSE IF intents # <<>> THEN 0
       ELSE IF side[r][tf] # 0 THEN @ + 1 ELSE @]

-----------------------------------------------------------------------------
(* A run.                                                                  *)

Start(r) ==
  /\ In(r, "new")
  /\ \E setup \in Setups[r] : proc' = [proc EXCEPT ![r] = NewProc(setup)]
  /\ status' = [status EXCEPT ![r] = "running"]
  /\ UNCHANGED <<db, own, side, held, position>>

AfterBar(r) == IF Buffers(r) THEN "flush" ELSE "end"

\* The bar of a timeframe carries the time of the minute that completes it,
\* and comes before it.
Boundary(r) == proc[r].minute + 1

\* A minute may be twice in the file.
Minutes(r) == {proc[r].minute, proc[r].minute + 1} \ {0}

TakeTf(r) ==
  /\ In(r, "bar") /\ proc[r].bars < MaxBars[r] /\ ~proc[r].stop
  /\ \E tf \in Tfs, place \in Places :
       LET intents == Intents(r, tf, place)
           ts == Boundary(r) IN
       /\ OnBar(r, tf, intents)
       /\ proc' = [proc EXCEPT ![r].pc = IF intents = <<>> THEN "mirror" ELSE "intent",
                               ![r].bars = @ + 1,
                               ![r].bar = [tf |-> tf, ts |-> ts], ![r].todo = intents]
       /\ IF proc[r].engine = "paper" THEN PutBar(r, ts) ELSE UNCHANGED <<db, own>>
  /\ UNCHANGED <<status, position>>

TakeMinute(r) ==
  /\ In(r, "bar") /\ proc[r].bars < MaxBars[r] /\ ~proc[r].stop
  /\ \E ts \in Minutes(r) :
       /\ proc' = [proc EXCEPT ![r].pc = "mirror", ![r].bars = @ + 1,
                               ![r].minute = ts, ![r].bar = [tf |-> "1m", ts |-> ts]]
       /\ PutBar(r, ts)
  /\ UNCHANGED <<status, side, held, position>>

\* The feed ends, the process is told to stop, or the paper session's time is over.
Break(r) ==
  /\ In(r, "bar")
  /\ Goes(r, AfterBar(r))
  /\ UNCHANGED <<db, status, own, side, held, position>>

\* The halt file or variable is set when the kill switch last looked.
Killed(r) ==
  /\ In(r, "bar") /\ proc[r].bars < MaxBars[r] /\ ~proc[r].stop
  /\ Goes(r, AfterBar(r))
  /\ IF proc[r].engine = "paper" THEN UNCHANGED <<db, own>> ELSE Put(r, "events", "kill", 0)
  /\ UNCHANGED <<status, side, held, position>>

Intent(r) == Head(proc[r].todo)

Signal(r) ==
  /\ In(r, "intent")
  /\ Put(r, "signals", Intent(r), 0)
  /\ proc' = [proc EXCEPT ![r].pc = "judge", ![r].signal = NextId(r, "signals")]
  /\ UNCHANGED <<status, side, held, position>>

Processed(r) ==
  proc' = [proc EXCEPT ![r].pc = IF Len(proc[r].todo) > 1 THEN "intent" ELSE "mirror",
                       ![r].todo = Tail(@), ![r].signal = 0, ![r].order = 0]

\* RiskGuard.submit: only entries are refused or made smaller.
Reject(r) ==
  /\ In(r, "judge") /\ Intent(r).kind = "entry"
  /\ Put(r, "events", "reject", proc[r].signal)
  /\ Processed(r)
  /\ UNCHANGED <<status, side, held, position>>

Clamp(r) ==
  /\ In(r, "judge") /\ Intent(r).kind = "entry"
  /\ Put(r, "events", "clamp", proc[r].signal)
  /\ Goes(r, "order")
  /\ UNCHANGED <<status, side, held, position>>

\* The signed quantities that PaperFillExecutor.submit makes of an intent.
Quantities(r, intent) ==
  IF intent.kind = "exit" THEN {- position[r][intent.tf]}
  ELSE {intent.side * q : q \in Sizes}

Order(r) ==
  /\ proc[r].pc \in {"judge", "order"}
  /\ \E qty \in Quantities(r, Intent(r)) :
       IF qty = 0 THEN Processed(r) /\ UNCHANGED <<db, own>>
       ELSE /\ Put(r, "orders", [tf |-> Intent(r).tf, qty |-> qty], proc[r].signal)
            /\ proc' = [proc EXCEPT ![r].pc = "fill", ![r].order = NextId(r, "orders")]
  /\ UNCHANGED <<status, side, held, position>>

LastOrder(r) == Last(own[r].orders).item

\* The fill is stored before it counts.
Fill(r) ==
  /\ In(r, "fill")
  /\ Put(r, "fills", Abs(LastOrder(r).qty), proc[r].order)
  /\ position' = [position EXCEPT ![r][LastOrder(r).tf] = @ + LastOrder(r).qty]
  /\ Processed(r)
  /\ UNCHANGED <<status, side, held>>

\* Faulty: what the strategy believes is taken for what was done.
MirrorUnread(r) ==
  /\ In(r, "mirror")
  /\ proc' = [proc EXCEPT ![r].pc = "bar", ![r].bar = NoBar]
  /\ IF proc[r].bar.tf = "1m" /\ proc[r].engine # "paper"
     THEN Put(r, "snapshots", proc[r].bar.ts, 0) ELSE UNCHANGED <<db, own>>
  /\ UNCHANGED <<status, side, held, position>>

\* The strategy is shown the executor's positions.
Mirror(r) ==
  /\ In(r, "mirror")
  /\ side' = [side EXCEPT ![r] = [tf \in Tfs |-> Sign(position[r][tf])]]
  /\ proc' = [proc EXCEPT ![r].pc = "bar", ![r].bar = NoBar]
  /\ IF proc[r].bar.tf = "1m" /\ proc[r].engine # "paper"
     THEN Put(r, "snapshots", proc[r].bar.ts, 0) ELSE UNCHANGED <<db, own>>
  /\ UNCHANGED <<status, held, position>>

-----------------------------------------------------------------------------
(* The flush of the in-memory run.                                         *)

\* The largest numbers are read before the transaction holds the database.
ReadOffsets(r) ==
  /\ In(r, "flush")
  /\ proc' = IF own[r] = NoRows THEN [proc EXCEPT ![r].pc = "end"]
             ELSE [proc EXCEPT ![r].pc = "insert",
                               ![r].offset = [t \in Tables |-> Len(db[t])]]
  /\ UNCHANGED <<db, status, own, side, held, position>>

Numbered == {"signals", "orders", "fills", "events"}
Taken(r, t) == t \in Numbered /\ own[r][t] # <<>> /\ Len(db[t]) > proc[r].offset[t]
Twice(r) == \E i, j \in DOMAIN own[r].bars : i # j /\ own[r].bars[i].item = own[r].bars[j].item
Refused(r) == Twice(r) \/ \E t \in Tables : Taken(r, t)

\* Faulty: the links are taken as the buffer numbered them.
InsertedUnlinked(r, t) ==
  [i \in DOMAIN own[r][t] |-> RowOf(r, own[r][t][i].item, own[r][t][i].link)]

\* Numbers and links move up by what was there.
Inserted(r, t) ==
  [i \in DOMAIN own[r][t] |->
     RowOf(r, own[r][t][i].item,
           IF own[r][t][i].link = 0 THEN 0 ELSE own[r][t][i].link + proc[r].offset[Parent(t)])]

\* Faulty: a transaction for each table.
InsertPiecemeal(r) ==
  /\ In(r, "insert")
  /\ db' = [t \in Tables |-> IF Taken(r, t) THEN db[t] ELSE db[t] \o Inserted(r, t)]
  /\ proc' = [proc EXCEPT ![r].pc = "end", ![r].failed = Refused(r), ![r].offset = NoOffsets]
  /\ UNCHANGED <<status, own, side, held, position>>

\* All tables in one transaction, or none.
Insert(r) ==
  /\ In(r, "insert")
  /\ IF Refused(r)
     THEN /\ proc' = [proc EXCEPT ![r].pc = "end", ![r].failed = TRUE, ![r].offset = NoOffsets]
          /\ own' = [own EXCEPT ![r] = NoRows]
          /\ UNCHANGED db
     ELSE /\ db' = [t \in Tables |-> db[t] \o Inserted(r, t)]
          /\ proc' = [proc EXCEPT ![r].pc = "end", ![r].offset = NoOffsets]
          /\ UNCHANGED own
  /\ UNCHANGED <<status, side, held, position>>

\* What a process that ends loses with its memory.
Forgets(r) ==
  /\ side' = [side EXCEPT ![r] = [tf \in Tfs |-> 0]]
  /\ held' = [held EXCEPT ![r] = [tf \in Tfs |-> 0]]
  /\ position' = [position EXCEPT ![r] = [tf \in Tfs |-> 0]]

\* Any step may raise: the feed, the strategy, a database that stays locked.
Fails(r) ==
  /\ Alive(r) /\ ~In(r, "end")
  /\ proc' = [proc EXCEPT ![r] = [NewProc(<<@.engine, @.strategy>>) EXCEPT !.pc = "end", !.stop = proc[r].stop, !.failed = TRUE]]
  /\ Forgets(r)
  /\ own' = IF Buffers(r) THEN [own EXCEPT ![r] = NoRows] ELSE own
  /\ UNCHANGED <<db, status>>

\* run_session: a signal that came overrules everything.
End(r) ==
  /\ In(r, "end")
  /\ status' = [status EXCEPT ![r] =
       IF proc[r].stop THEN "halted" ELSE IF proc[r].failed THEN "error" ELSE "done"]
  /\ proc' = [proc EXCEPT ![r] = [NewProc(<<@.engine, @.strategy>>) EXCEPT !.pc = "over"]]
  /\ Forgets(r)
  /\ UNCHANGED <<db, own>>

Step(r) ==
  \/ Start(r) \/ TakeTf(r) \/ TakeMinute(r) \/ Break(r) \/ Killed(r) \/ Signal(r) \/ Reject(r)
  \/ Clamp(r) \/ Order(r) \/ Fill(r) \/ Mirror(r) \/ ReadOffsets(r) \/ Insert(r) \/ Fails(r) \/ End(r)

-----------------------------------------------------------------------------
(* The world.                                                              *)

\* The flag is read at the next bar and at the end: let the signal come there.
\* Without the handler it ends the process: see Crash.
Signalled(r) ==
  /\ r \in Handled /\ proc[r].pc \in {"bar", "flush", "insert", "end"} /\ ~proc[r].stop
  /\ proc' = [proc EXCEPT ![r].stop = TRUE]
  /\ UNCHANGED <<db, status, own, side, held, position>>

Crash(r) ==
  /\ Alive(r)
  /\ proc' = [proc EXCEPT ![r] = [NewProc(<<@.engine, @.strategy>>) EXCEPT !.pc = "dead"]]
  /\ Forgets(r)
  /\ own' = IF Buffers(r) /\ ~In(r, "end") THEN [own EXCEPT ![r] = NoRows] ELSE own
  /\ UNCHANGED <<db, status>>

Next == \E r \in Runs : Step(r) \/ Signalled(r) \/ Crash(r)

Spec == Init /\ [][Next]_vars

-----------------------------------------------------------------------------
(* Properties.                                                             *)

\* A run's rows as if it had the database for itself: the last of the first i
\* rows has this number among the run's own.
Rank(rows, r, i) == Cardinality({j \in 1 .. i : rows[j].run = r})

\* 0 belongs to nothing, -1 to a row of another run.
Number(rows, r, id) ==
  IF id = 0 THEN 0 ELSE IF id \in DOMAIN rows /\ rows[id].run = r THEN Rank(rows, r, id) ELSE -1

\* The run's row of a number.
Nth(rows, r, k) == rows[CHOOSE i \in DOMAIN rows : rows[i].run = r /\ Rank(rows, r, i) = k]

Stored(r) ==
  [t \in Tables |->
     [k \in 1 .. Rank(db[t], r, Len(db[t])) |->
        LET row == Nth(db[t], r, k) IN
        Row(row.item, Number(db[Parent(t)], r, row.link))]]

\* The database keeps every run's record as RunRecord promises: complete
\* links, nothing of one run among another's, rows only added, one final
\* status - with direct inserts and flushes of several processes interleaved.
Records == INSTANCE RunRecord WITH record <- [r \in Runs |-> Stored(r)]
KeepsRecords == Records!Spec

\* A run that is "done" has everything it did in the database; the rows of a
\* direct run are those it made at any time, an in-memory run has all or none.
DoneIsWhole ==
  \A r \in Runs :
    LET stored == Stored(r) IN
    /\ stored = own[r] \/ (Buffers(r) /\ stored = NoRows)
    /\ status[r] = "done" => stored = own[r]

Net(rec, tf) ==
  SumFunction([i \in DOMAIN rec.fills |->
    LET f == rec.fills[i]
        o == rec.orders[f.link].item
    IN IF o.tf = tf THEN Sign(o.qty) * f.item ELSE 0])

\* The stored fills are the position that the strategy goes on from: for a
\* direct run at every bar, for any run that ends well - with entries
\* refused after the exit of a reversal, made smaller, or too small to fill.
FillsAreBelieved ==
  \A r \in Runs, tf \in Tfs :
    (In(r, "bar") /\ ~Buffers(r)) \/ (In(r, "end") /\ ~proc[r].failed)
      => LET net == Net(Stored(r), tf) IN side[r][tf] = Sign(net) /\ position[r][tf] = net

\* inmemory.py:298: "Reserves a contiguous block of IDs ... to avoid collisions
\* with rows that may already exist in the DB": no flush finds its numbers taken.
\* The code breaks this one (README.md, Disagreements).
BlockIsReserved == \A r \in Runs : In(r, "insert") => \A t \in Tables : ~Taken(r, t)
=============================================================================
