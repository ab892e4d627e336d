------------------------------ MODULE ShadowBook ------------------------------
(***************************************************************************)
(* The order-incapable book of the breakout strategy.  Runs of the timer's *)
(* job (scripts/run_breakout_shadow_job.py: lock, refresh of the candle    *)
(* cache, advance) and of the plain command                                *)
(* (scripts/run_breakout_forward_shadow.py: no lock, cache as it is) bring *)
(* one machine day by day through the versioned rows of                    *)
(* portfolio/store.py.  Each run is a process; the transactions of the     *)
(* store are single steps, everything between them interleaves.  The store *)
(* itself is set up by whichever run is the first, in two steps that no    *)
(* transaction joins: it looks for the row of the schema's version, and    *)
(* when there is none it inserts one.                                      *)
(*                                                                         *)
(* Candles are the sequence, from the first day on, of the versions that   *)
(* the exchange gave them (every reader refuses gaps).  A machine is the   *)
(* candles it has taken in: its digest chains all of them, and what it     *)
(* decides on a day is a function of them.                                 *)
(***************************************************************************)
EXTENDS Integers, Sequences

CONSTANTS
  Processes,  \* runs of the job or the command
  Jobs,       \* those of the timer, which take the lock
  Versions,   \* of a candle, as the exchange may revise it
  Seed,       \* as_of_close of the seed snapshot
  Overlap,    \* overlap_bars
  LastDay     \* bound: days

NoRun == "none"

ASSUME NoRunType == NoRun \notin Processes
ASSUME JobsType == Jobs \subseteq Processes
ASSUME DaysType ==
  /\ Seed \in Nat \ {0} /\ Overlap \in Nat \ {0} /\ LastDay \in Nat /\ Seed <= LastDay

VARIABLES
  today,      \* the last completed day
  exchange,   \* the version of each day's candle
  cache,      \* the parquet file of completed candles
  lock,       \* the run that holds the lock file
  versions,   \* how many rows portfolio_metadata has
  observed,   \* the seed's observation is imported
  book,       \* machine_state: the candles taken in, NoBook before
  decided,    \* strategy_decisions: the day, and the candles it was decided on
  pc, now, daily, machine   \* of each run

store == <<versions, observed, book, decided>>
local == <<pc, now, daily, machine>>
bookVars == <<today, exchange, cache, lock, store, local>>

Days == 1 .. LastDay
Candles == Seq(Versions)
NoBook == <<>>

Upto(candles, d) == SubSeq(candles, 1, IF Len(candles) <= d THEN Len(candles) ELSE d)
Answer(from, to) == [i \in 1 .. to - from + 1 |-> exchange[from + i - 1]]

BookTypeOK ==
  /\ today \in Days /\ exchange \in [Days -> Versions]
  /\ cache \in Candles /\ Len(cache) <= today
  /\ lock \in Processes \cup {NoRun}
  /\ versions \in Nat /\ observed \in BOOLEAN
  /\ book \in Candles /\ Len(book) <= today
  /\ decided \subseteq [day : Days, on : Candles]
  /\ pc \in [Processes -> {"idle", "down", "lock", "refresh", "read", "open", "create",
                      "import", "restore", "initialize", "advance"}]
  /\ now \in [Processes -> 1 .. today]
  /\ daily \in [Processes -> Candles] /\ machine \in [Processes -> Candles]

BookInit ==
  /\ today = Seed /\ \E v \in Versions : exchange = [d \in Days |-> v]
  /\ cache = <<>> /\ lock = NoRun
  /\ versions = 0 /\ observed = FALSE /\ book = NoBook /\ decided = {}
  /\ pc = [r \in Processes |-> "idle"] /\ now = [r \in Processes |-> 1]
  /\ daily = [r \in Processes |-> <<>>] /\ machine = [r \in Processes |-> <<>>]

-----------------------------------------------------------------------------
(* The world: days complete, and a candle may be revised.                  *)

DayEnds ==
  /\ today < LastDay
  /\ today' = today + 1
  /\ UNCHANGED <<exchange, cache, lock, store, local>>

Revise ==
  /\ \E d \in 1 .. today, v \in Versions : v # exchange[d] /\ exchange' = [exchange EXCEPT ![d] = v]
  /\ UNCHANGED <<today, cache, lock, store, local>>

-----------------------------------------------------------------------------
(* A run.                                                                  *)

\* The time of a run is taken before it waits for anything.
Begin(r) ==
  /\ pc[r] \in {"idle", "down"}
  /\ now' = [now EXCEPT ![r] = today]
  /\ pc' = [pc EXCEPT ![r] = IF r \in Jobs THEN "lock" ELSE "read"]
  /\ UNCHANGED <<today, exchange, cache, lock, store, daily, machine>>

\* Faulty: the lock is the file, and a file stays.
OverLocked(r, as) ==
  /\ pc' = [pc EXCEPT ![r] = as] /\ now' = [now EXCEPT ![r] = 1]
  /\ daily' = [daily EXCEPT ![r] = <<>>] /\ machine' = [machine EXCEPT ![r] = <<>>]
  /\ UNCHANGED <<today, exchange, lock>>

\* The process ends, by itself or not: its hold of the lock file ends with it.
Over(r, as) ==
  /\ pc' = [pc EXCEPT ![r] = as] /\ now' = [now EXCEPT ![r] = 1]
  /\ daily' = [daily EXCEPT ![r] = <<>>] /\ machine' = [machine EXCEPT ![r] = <<>>]
  /\ lock' = IF lock = r THEN NoRun ELSE lock
  /\ UNCHANGED <<today, exchange>>

Ended(r) == Over(r, "idle")

\* Also the exchange that does not answer or lacks the latest candle, and the
\* database that stays locked.
Dies(r) == pc[r] \notin {"idle", "down"} /\ Over(r, "down") /\ UNCHANGED <<cache, store>>

\* LOCK_NB: a job that finds the lock taken gives up.
Lock(r) ==
  /\ pc[r] = "lock"
  /\ IF lock = NoRun
     THEN /\ lock' = r /\ pc' = [pc EXCEPT ![r] = "refresh"]
          /\ UNCHANGED <<today, exchange, now, daily, machine>>
     ELSE Ended(r)
  /\ UNCHANGED <<cache, store>>

\* refresh_completed_cache: the tail is read again, and with it its revisions.
Refreshed(to) ==
  LET kept == Upto(cache, to)
      from == IF Len(kept) <= Overlap THEN 1 ELSE Len(kept) - Overlap
  IN  Upto(kept, from - 1) \o Answer(from, to)
Refresh(r) ==
  /\ pc[r] = "refresh"
  /\ cache' = Refreshed(now[r])
  /\ pc' = [pc EXCEPT ![r] = "read"]
  /\ UNCHANGED <<today, exchange, lock, store, now, daily, machine>>

\* pd.read_parquet and completed; what comes later only stamps rows with the time.
Read(r) ==
  /\ pc[r] = "read"
  /\ IF cache = <<>> THEN Ended(r)
     ELSE /\ daily' = [daily EXCEPT ![r] = Upto(cache, now[r])]
          /\ pc' = [pc EXCEPT ![r] = "open"] /\ now' = [now EXCEPT ![r] = 1]
          /\ UNCHANGED <<today, exchange, lock, machine>>
  /\ UNCHANGED <<cache, store>>

\* PortfolioStore: the tables are made if they are missing, and the rows of the
\* version are read.
Open(r) ==
  /\ pc[r] = "open"
  /\ \/ /\ versions <= 1
        /\ pc' = [pc EXCEPT ![r] = IF versions = 0 THEN "create" ELSE "import"]
        /\ UNCHANGED <<today, exchange, lock, now, daily, machine>>
     \/ versions > 1 /\ Ended(r)  \* unsupported portfolio schema
  /\ UNCHANGED <<cache, store>>

\* It read that there was none: no transaction began before it read, and the
\* table has no key.
Create(r) ==
  /\ pc[r] = "create"
  /\ versions' = versions + 1
  /\ pc' = [pc EXCEPT ![r] = "import"]
  /\ UNCHANGED <<today, exchange, cache, lock, observed, book, decided, now, daily, machine>>

\* register and import_shadow_observation: the same seed every time
Import(r) ==
  /\ pc[r] = "import"
  /\ observed' = TRUE
  /\ pc' = [pc EXCEPT ![r] = "restore"]
  /\ UNCHANGED <<today, exchange, cache, lock, versions, book, decided, now, daily, machine>>

\* Faulty: only the dates are compared.
VerifiedByDate(candles, source) == Len(candles) <= Len(source)

\* verify_processed_source
Verified(candles, source) ==
  Len(candles) <= Len(source) /\ candles = Upto(source, Len(candles))

Restore(r) ==
  /\ pc[r] = "restore"
  /\ \/ /\ book = NoBook /\ Len(daily[r]) >= Seed
        /\ machine' = [machine EXCEPT ![r] = Upto(daily[r], Seed)]
        /\ pc' = [pc EXCEPT ![r] = "initialize"]
        /\ UNCHANGED <<today, exchange, lock, now, daily>>
     \/ /\ book # NoBook /\ Verified(book, daily[r])
        /\ machine' = [machine EXCEPT ![r] = book]
        /\ pc' = [pc EXCEPT ![r] = "advance"]
        /\ UNCHANGED <<today, exchange, lock, now, daily>>
     \/ /\ IF book = NoBook THEN Len(daily[r]) < Seed ELSE ~Verified(book, daily[r])
        /\ Ended(r)
  /\ UNCHANGED <<cache, store>>

\* initialize_machine: another run may have been first.
Initialize(r) ==
  /\ pc[r] = "initialize"
  /\ IF book \in {NoBook, machine[r]}
     THEN /\ book' = machine[r]
          /\ pc' = [pc EXCEPT ![r] = "advance"]
          /\ UNCHANGED <<today, exchange, lock, now, daily, machine>>
     ELSE Ended(r) /\ book' = book
  /\ UNCHANGED <<cache, versions, observed, decided>>

\* The machine after the next candle of the run's source.
Advanced(r) == Append(machine[r], daily[r][Len(machine[r]) + 1])
HasNext(r) == Len(machine[r]) < Len(daily[r])

DayStored(r) ==
  /\ machine' = [machine EXCEPT ![r] = Advanced(r)]
  /\ UNCHANGED <<today, exchange, lock, now, daily, pc>>

\* Faulty: the day that is there is not compared.
AdvanceUncompared(r) ==
  LET d == Len(machine[r]) + 1
  IN  /\ pc[r] = "advance" /\ HasNext(r)
      /\ IF Len(book) = d - 1
         THEN /\ DayStored(r)
              /\ book' = Advanced(r)
              /\ decided' = decided \cup {[day |-> d, on |-> Advanced(r)]}
         ELSE /\ UNCHANGED <<book, decided>>
              /\ IF Len(book) = d THEN DayStored(r) ELSE Ended(r)
      /\ UNCHANGED <<cache, versions, observed>>

\* advance_machine: the day is new, or is there exactly as it would be.
Advance(r) ==
  LET d == Len(machine[r]) + 1
  IN  /\ pc[r] = "advance" /\ HasNext(r)
      /\ IF Len(book) = d - 1
         THEN /\ DayStored(r)
              /\ book' = Advanced(r)
              /\ decided' = decided \cup {[day |-> d, on |-> Advanced(r)]}
         ELSE /\ UNCHANGED <<book, decided>>
              /\ IF Len(book) = d /\ book = Advanced(r) THEN DayStored(r) ELSE Ended(r)
      /\ UNCHANGED <<cache, versions, observed>>

Finish(r) ==
  /\ pc[r] = "advance" /\ ~HasNext(r)
  /\ Ended(r)
  /\ UNCHANGED <<cache, store>>

BookStep(r) ==
  \/ Begin(r) \/ Lock(r) \/ Refresh(r) \/ Read(r) \/ Open(r) \/ Create(r)
  \/ Import(r) \/ Restore(r) \/ Initialize(r) \/ Advance(r) \/ Finish(r)
BookNext ==
  \/ DayEnds \/ Revise
  \/ \E r \in Processes : BookStep(r) \/ Dies(r)

BookSpec == BookInit /\ [][BookNext]_bookVars

\* The timer comes again, and from some time on its jobs do not crash.
FairBookSpec ==
  /\ BookSpec
  /\ \A r \in Jobs : WF_bookVars(BookStep(r)) /\ <>[][~Dies(r)]_bookVars

-----------------------------------------------------------------------------
(* Properties.                                                             *)

\* strategy_decisions holds one decision set for every day after the seed up to
\* the machine's, each made on exactly the candles that the machine holds up to
\* that day: no run's decision stays behind that another history has replaced.
DecisionsAreOfBook ==
  book # NoBook =>
    decided = {[day |-> d, on |-> Upto(book, d)] : d \in Seed + 1 .. Len(book)}

\* The book only grows, a day at a time, and each state stored is computed from
\* one source: the daily candles that the run that stores it has read.
OneSourceAppends ==
  [][/\ Upto(book', Len(book)) = book
     /\ book = NoBook \/ Len(book') = Len(book) + 1
     /\ \E r \in Processes : book' = Upto(daily[r], Len(book'))]_book

\* The first runs set the store up once.  The job's lock gives this when every run
\* takes it (LockedRunsSetUpOnce), and nothing does when one run does not: two first
\* runs may both find no version.
SetUpOnce == versions <= 1

\* While the exchange revises nothing, and if the store was not set up twice, every
\* completed day is taken in.
CatchesUp ==
  [](SetUpOnce /\ \A d \in Days : exchange[d] = exchange[1]) =>
     \A d \in Days : today >= d ~> Len(book) >= d

\* What run_job and its test say of the state in the store: "usable on the next
\* run", and "exact retry leaves the state and source usable".  A run that finds
\* any other number of versions than one refuses the store, and with it the state.
\* The code breaks this one (README.md, Disagreements).
StateStaysUsable == book # NoBook => versions = 1

=============================================================================
