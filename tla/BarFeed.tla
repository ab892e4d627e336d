-------------------------------- MODULE BarFeed --------------------------------
(***************************************************************************)
(* What a process may rely on when it reads the live feed                  *)
(* (data/multitimeframe.py over data/live.py): minutes in order, each at   *)
(* most once, and after them every bar of a longer timeframe that ends,    *)
(* once, marked complete exactly when all its minutes were seen.           *)
(*                                                                         *)
(* Minutes are numbered; a bar of span s and end e is made of e-s .. e-1.  *)
(***************************************************************************)
EXTENDS Integers, FiniteSets

CONSTANT Spans      \* the longer timeframes, in minutes: a set of positive numbers

VARIABLES
  minutes,  \* those seen by this process
  live,     \* those of them that were not warmup
  bars      \* the longer bars seen

feed == <<minutes, live, bars>>

BarOf(s, e, seen, alive) ==
  LET part == (e - s) .. (e - 1)
  IN  [span |-> s, end |-> e, complete |-> part \subseteq seen, warmup |-> part \cap alive = {}]

\* The buckets that have ended when minute m was seen, of which the process saw
\* a minute and which began after it did.
Ended(m, seen) ==
  {x \in Spans \X (1 .. m + 1) :
     LET s == x[1]
         e == x[2]
     IN  /\ e % s = 0
         /\ ((e - s) .. (e - 1)) \cap seen # {}
         /\ \E k \in seen : k <= e - s}
Reported == {<<b.span, b.end>> : b \in bars}

Init == minutes = {} /\ live = {} /\ bars = {}

See(m, isLive) ==
  /\ \A k \in minutes : k < m
  /\ minutes' = minutes \cup {m}
  /\ live' = IF isLive THEN live \cup {m} ELSE live
  /\ bars' = bars \cup {BarOf(x[1], x[2], minutes', live') : x \in Ended(m, minutes') \ Reported}

Restart == minutes' = {} /\ live' = {} /\ bars' = {}

\* Warmup ends with the first live minute.
Next ==
  \/ Restart
  \/ \E m \in minutes', isLive \in BOOLEAN : (isLive \/ live = {}) /\ See(m, isLive)

Spec == Init /\ [][Next]_feed

=============================================================================
