------------------------------- MODULE LiveFeed -------------------------------
(***************************************************************************)
(* LnmLiveStream of data/live.py (warmup history, then polls of the last   *)
(* minute candles, with a bounded backfill of the holes) under the         *)
(* incremental aggregation of data/multitimeframe.py.  The process is      *)
(* sequential, but every request, sleep and yield takes time: the clock    *)
(* and the venue go on between any two steps.                              *)
(*                                                                         *)
(* Minute m is forming while now = m, and closed when m < now.             *)
(***************************************************************************)
EXTENDS Integers, FiniteSets, FiniteSetsExt

CONSTANTS
  Spans,       \* higher_timeframes, in minutes
  MaxGaps,     \* holes that one backfill asks for
  Lookback,    \* minutes of the first poll when there was no history
  LastMinute   \* bound: the clock stops there

ASSUME FeedType ==
  /\ Spans \subseteq Nat \ {0} /\ IsFiniteSet(Spans)
  /\ MaxGaps \in Nat /\ Lookback \in Nat /\ LastMinute \in Nat

VARIABLES
  now,        \* the forming minute
  published,  \* the closed candles that the venue answers with
  pc,         \* where the stream is
  end,        \* end_dt
  warm,       \* the candles in hand are warmup
  page,       \* the candles read and not yet looked at
  last,       \* _last_yielded_ts, None before the first
  base,       \* last_base_ts of the aggregation
  start,      \* bucket_start of each span
  bucket,     \* the minutes in bucket_bars of each span
  first,      \* first_bucket: the spans that have not ended a bucket yet
  given,      \* history: the minutes yielded by this process
  made        \* history: the longer bars yielded by this process

streamVars == <<pc, end, warm, page, last>>
bucketVars == <<base, start, bucket, first>>
history == <<given, made>>
vars == <<now, published, streamVars, bucketVars, history>>

None == -1
Minutes == 0 .. LastMinute

\* A candle as it was read: its values are final when it had closed by then.
Candles == [ts : Minutes, final : BOOLEAN]
Bars == [ts : Minutes, final : BOOLEAN, warmup : BOOLEAN, gap : BOOLEAN]
LongBars == [span : Spans, end : Nat, complete : BOOLEAN, warmup : BOOLEAN]

TypeOK ==
  /\ now \in Minutes /\ published \subseteq 0 .. now - 1
  /\ pc \in {"down", "history", "poll", "backfill", "yield", "sleep"}
  /\ end \in Minutes /\ end <= now /\ warm \in BOOLEAN
  /\ page \subseteq Candles
  /\ last \in Minutes \cup {None} /\ base = last
  /\ start \in [Spans -> Minutes \cup {None}]
  /\ bucket \in [Spans -> SUBSET Minutes]
  /\ first \subseteq Spans
  /\ given \subseteq Bars /\ made \subseteq LongBars

-----------------------------------------------------------------------------
(* The aggregation: _stream_incremental on one minute bar.                 *)

BucketStart(ts, s) == ts - (ts % s)
BucketIsComplete(mins, s, from) == mins = from .. from + s - 1

\* An aggregate is marked complete when every minute of the bucket is there.
AggregateBucket(s, mins, from, bars) ==
  [span |-> s, end |-> from + s,
   complete |-> BucketIsComplete(mins, s, from),
   warmup |-> \A b \in bars : b.ts \in mins => b.warmup]

\* A bucket of which the process saw only the end is not reported.
Reportable(s, mins, from) == s \notin first \/ Min(mins) = from

Left(s, ts) == start[s] # None /\ start[s] # BucketStart(ts, s) /\ bucket[s] # {}
\* The minutes of the current bucket with ts, which leaves the last one behind.
Filled(s, ts) == {ts} \cup IF Left(s, ts) THEN {} ELSE bucket[s]
Closes(s, ts) == ts + 1 = BucketStart(ts, s) + s
FirstAfter(s, ts) == s \in first /\ ~Left(s, ts)

\* Faulty: an unfinished bucket is dropped when a minute of the next one comes.
CompletedOnTime(ts, bars) ==
  {AggregateBucket(s, Filled(s, ts), BucketStart(ts, s), bars) :
     s \in {x \in Spans : /\ Closes(x, ts)
                          /\ ~FirstAfter(x, ts) \/ Min(Filled(x, ts)) = BucketStart(ts, x)}}

\* The bars completed by minute ts: buckets left behind with a hole at their
\* end, then those whose last minute it is.
Completed(ts, bars) ==
  {AggregateBucket(s, bucket[s], start[s], bars) :
     s \in {x \in Spans : Left(x, ts) /\ Reportable(x, bucket[x], start[x])}}
  \cup
  {AggregateBucket(s, Filled(s, ts), BucketStart(ts, s), bars) :
     s \in {x \in Spans : /\ Closes(x, ts)
                          /\ ~FirstAfter(x, ts) \/ Min(Filled(x, ts)) = BucketStart(ts, x)}}

\* Faulty: a single missing minute is let pass.
EvidenceOfTwo(ts) == base # None /\ ts > base + 2

Evidence(ts) == base # None /\ ts # base + 1

Aggregate(c) ==
  LET bar == [ts |-> c.ts, final |-> c.final, warmup |-> warm, gap |-> Evidence(c.ts)]
  IN  /\ base' = c.ts
      /\ start' = [s \in Spans |-> BucketStart(c.ts, s)]
      /\ bucket' = [s \in Spans |-> IF Closes(s, c.ts) THEN {} ELSE Filled(s, c.ts)]
      /\ first' = {s \in first : ~Left(s, c.ts) /\ ~Closes(s, c.ts)}
      /\ given' = given \cup {bar}
      /\ made' = made \cup Completed(c.ts, given')

-----------------------------------------------------------------------------
(* The venue and the clock.                                                *)

Tick ==
  /\ now < LastMinute
  /\ now' = now + 1
  /\ UNCHANGED <<published, streamVars, bucketVars, history>>

\* A candle may be answered as soon as it has closed, later, or never.
Publish ==
  /\ \E m \in 0 .. now - 1 : m \notin published /\ published' = published \cup {m}
  /\ UNCHANGED <<now, streamVars, bucketVars, history>>

\* The answer to iter_candles(from_ts, to_ts); the candle that is forming may
\* be on it.
Answer(from, to, forming) ==
  {[ts |-> m, final |-> TRUE] : m \in published \cap (from .. to)}
  \cup (IF forming /\ now \in from .. to THEN {[ts |-> now, final |-> FALSE]} ELSE {})

-----------------------------------------------------------------------------
(* The stream.                                                             *)

Init ==
  /\ now \in Minutes /\ published = {}
  /\ pc = "down" /\ end = 0 /\ warm = TRUE /\ page = {}
  /\ last = None /\ base = None
  /\ start = [s \in Spans |-> None] /\ bucket = [s \in Spans |-> {}] /\ first = Spans
  /\ given = {} /\ made = {}

Start ==
  /\ pc = "down"
  /\ pc' = "history" /\ end' = now
  /\ UNCHANGED <<now, published, warm, page, last, bucketVars, history>>

\* A new process begins with nothing.
Crash ==
  /\ pc # "down"
  /\ pc' = "down" /\ end' = 0 /\ warm' = TRUE /\ page' = {}
  /\ last' = None /\ base' = None
  /\ start' = [s \in Spans |-> None] /\ bucket' = [s \in Spans |-> {}] /\ first' = Spans
  /\ given' = {} /\ made' = {}
  /\ UNCHANGED <<now, published>>

Received(from, forming) ==
  /\ page' = Answer(from, end, forming)
  /\ pc' = "backfill"
  /\ UNCHANGED <<now, published, end, warm, last, bucketVars, history>>

HistoryRead == pc = "history" /\ \E forming \in BOOLEAN : Received(0, forming)

\* The poll reads the last minute again, so that a hole shows.
PollFrom == IF last = None THEN end - Lookback ELSE last - 1
PollRead == pc = "poll" /\ \E forming \in BOOLEAN : Received(PollFrom, forming)
PollFails ==
  /\ pc = "poll"
  /\ pc' = "sleep"
  /\ UNCHANGED <<now, published, end, warm, page, last, bucketVars, history>>

\* The holes before the candles of a page: from the first missing minute to
\* the candle after them.
Gaps ==
  LET read == {c.ts : c \in page}
      before(m) == {k \in read \cup {last} : k # None /\ k < m}
  IN  {<<Max(before(m)) + 1, m>> : m \in {k \in read : before(k) # {} /\ Max(before(k)) + 1 < k}}
\* gaps[:10]
Asked == {g \in Gaps : Cardinality({h \in Gaps : h[1] < g[1]}) < MaxGaps}

\* _backfill: each request is answered or not.
Backfill ==
  /\ pc = "backfill"
  /\ \E answered \in SUBSET Asked :
       page' = page \cup
         {c \in UNION {Answer(g[1], IF g[2] < end THEN g[2] ELSE end, FALSE) : g \in answered} :
            \A d \in page : d.ts # c.ts}
  /\ pc' = "yield"
  /\ UNCHANGED <<now, published, end, warm, last, bucketVars, history>>

NextCandle == CHOOSE c \in page : \A d \in page : c.ts <= d.ts
Forming(c) == IF warm THEN c.ts >= end ELSE c.ts >= now

Yield ==
  /\ pc = "yield" /\ page # {}
  /\ page' = page \ {NextCandle}
  /\ IF NextCandle.ts <= last \/ Forming(NextCandle) THEN UNCHANGED <<last, bucketVars, history>>
     ELSE last' = NextCandle.ts /\ Aggregate(NextCandle)
  /\ UNCHANGED <<now, published, pc, end, warm>>

\* The first poll after the history still asks up to the time it was read.
PageDone ==
  /\ pc = "yield" /\ page = {}
  /\ pc' = IF warm THEN "poll" ELSE "sleep"
  /\ warm' = FALSE
  /\ UNCHANGED <<now, published, end, page, last, bucketVars, history>>

\* Faulty: the first poll's end_dt is kept.
WakeStale ==
  /\ pc = "sleep"
  /\ pc' = "poll"
  /\ UNCHANGED <<now, published, end, warm, page, last, bucketVars, history>>

Wake ==
  /\ pc = "sleep"
  /\ pc' = "poll" /\ end' = now
  /\ UNCHANGED <<now, published, warm, page, last, bucketVars, history>>

Stream ==
  \/ Start \/ HistoryRead \/ PollRead \/ PollFails \/ Backfill \/ Yield \/ PageDone \/ Wake
Next == Tick \/ Publish \/ Crash \/ Stream

Spec == Init /\ [][Next]_vars

\* The process runs on and is restarted; a poll is answered again and again;
\* restarts end.
FairSpec ==
  /\ Spec
  /\ WF_vars(Stream) /\ SF_vars(PollRead)
  /\ <>[][~Crash]_vars

-----------------------------------------------------------------------------
(* Properties.                                                             *)

Feed == INSTANCE BarFeed WITH
  minutes <- {b.ts : b \in given},
  live <- {b.ts : b \in {x \in given : ~x.warmup}},
  bars <- made

\* Whatever is missing, late, overlapping or out of order at the venue, the
\* bars of the process are those of BarFeed: minutes in order and once, longer
\* bars once, as soon as they end, complete exactly when no minute is missing.
FeedIsKept == Feed!Spec

\* A minute that the process skipped for ever is evidenced on the next minute
\* that it saw (evidence_gap), on which the loop stops daily decisions.
HolesAreEvidenced ==
  \A a, b \in given :
    a.ts < b.ts /\ (\A c \in given : c.ts <= a.ts \/ c.ts >= b.ts)
      => (b.gap <=> b.ts # a.ts + 1)

\* The cursor is the last minute yielded, no candle is of the future, and holes
\* are evidenced.
StreamIsConsistent == TypeOK /\ HolesAreEvidenced

\* live.py: the currently forming candle is skipped, since its close changes.
\* Every minute that was yielded had closed when it was read.
OnlyClosedCandles == \A b \in given : b.final

\* Once a process has yielded a candle, every candle that the venue publishes is
\* yielded or passed by, as long as the process runs and polls are answered now
\* and then.  (Before, a poll looks back Lookback minutes and no further.)
CandlesArrive ==
  \A m \in Minutes : m \in published /\ last # None ~> last >= m \/ pc = "down"

=============================================================================
