------------------------ MODULE ImpulseRange_proofs ------------------------
(***************************************************************************)
(* The funded impulse-range strategy keeps every owned trade manageable    *)
(* and every block on entries, for every age limit, length of a bar,       *)
(* number of trades and length of the feed.                                *)
(***************************************************************************)
EXTENDS ImpulseRange, SequenceTheorems, TLAPS

USE MaxAgeType, MinutesPerBarType, ChopFilterType, MaxTradesType, LastBarType

-----------------------------------------------------------------------------
(* The machine.                                                            *)

\* A channel that is there has begun and is younger than the age limit, and a
\* position lives on an intact channel.
Sound(m) ==
  /\ m \in Machines
  /\ m.state = "active" => m.confirmed <= m.bar /\ m.bar < m.confirmed + MaxAge
  /\ m.holding => m.state = "active" /\ ~m.expanding

LEMMA FlatSound ==
  ASSUME NEW m, Sound(m)
  PROVE  Sound(Flat(m)) /\ ~Flat(m).holding /\ Flat(m).bar = m.bar
BY DEF Sound, Flat, Machines, Time, Never

LEMMA ExitSound ==
  ASSUME NEW m, Sound(m), NEW t \in Time
  PROVE  /\ Sound(RecordTargetExit(m, t))
         /\ ~RecordTargetExit(m, t).holding /\ RecordTargetExit(m, t).bar = m.bar
BY DEF Sound, RecordTargetExit, Flat, Machines, Time, Never

LEMMA EntrySound ==
  ASSUME NEW m, Sound(m), Admissible(m), NEW t \in Time
  PROVE  /\ Sound(RecordEntry(m, t))
         /\ RecordEntry(m, t).bar = m.bar /\ RecordEntry(m, t).holding
         /\ RecordEntry(m, t).confirmed = m.confirmed
BY DEF Sound, RecordEntry, Admissible, Trading, Machines, Time, Never

LEMMA DailySound ==
  ASSUME NEW m, Sound(m), NEW b \in Nat
  PROVE  /\ Sound(ObserveDaily(m, b)) /\ ObserveDaily(m, b).bar = m.bar
         /\ ObserveDaily(m, b).holding = m.holding
         /\ ObserveDaily(m, b).confirmed = m.confirmed
BY DEF Sound, ObserveDaily, Machines, Time

\* close_bar moves a channel on, or confirms one from the next bar on; it
\* leaves a position and its channel's age alone.
LEMMA IdleFacts ==
  ASSUME NEW m \in Machines
  PROVE  /\ Idle(m) \in Machines
         /\ Idle(m).state = "idle" /\ Idle(m).bar = m.bar
         /\ Idle(m).holding = m.holding
BY DEF Idle, Machines, Time, Never

LEMMA FlatFacts ==
  ASSUME NEW m \in Machines
  PROVE  /\ Flat(m) \in Machines /\ ~Flat(m).holding
         /\ Flat(m).bar = m.bar /\ Flat(m).state = m.state
         /\ Flat(m).confirmed = m.confirmed
BY DEF Flat, Machines, Time, Never

LEMMA CloseBarFacts ==
  ASSUME NEW m, Sound(m), NEW move
  PROVE  LET c == CloseBar(m, move)
         IN  /\ c \in Machines /\ c.bar = m.bar /\ c.holding = m.holding
             /\ c.state = "active" => c.confirmed <= c.bar + 1
             /\ c.holding => /\ c.state = "active" /\ ~c.expanding
                             /\ c.confirmed = m.confirmed
<1> DEFINE c == CloseBar(m, move)
           Good(x) == /\ x \in Machines /\ x.bar = m.bar /\ x.holding = m.holding
                      /\ x.state = "active" => x.confirmed <= x.bar + 1
                      /\ x.holding => /\ x.state = "active" /\ ~x.expanding
                                      /\ x.confirmed = m.confirmed
           confirms == [Idle(m) EXCEPT !.state = "active", !.confirmed = m.bar + 1]
<1>1. m \in Machines
  BY DEF Sound
<1>2. Good(m)
  BY DEF Sound, Machines, Time, Never
<1>3. \/ c = m
      \/ c = [m EXCEPT !.pulled = TRUE] \/ c = [m EXCEPT !.stop = TRUE]
      \/ c = [m EXCEPT !.expanding = FALSE] /\ m.state = "active"
      \/ c = Idle(m) /\ ~m.holding
      \/ c = confirms /\ ~m.holding
  BY DEF CloseBar, Sound
<1>4. ASSUME c = Idle(m), ~m.holding PROVE Good(c)
  <2> HIDE DEF c
  <2> QED
    BY <1>1, <1>4, IdleFacts DEF Machines
<1>5. ASSUME c = confirms, ~m.holding PROVE Good(c)
  <2> DEFINE i == Idle(m)
  <2>1. i \in Machines /\ i.bar = m.bar /\ i.holding = m.holding
    BY <1>1, IdleFacts
  <2> HIDE DEF i, c
  <2>2. c = [i EXCEPT !.state = "active", !.confirmed = m.bar + 1]
    BY <1>5 DEF i
  <2>3. m.holding = FALSE /\ m.bar \in Nat
    BY <1>1, <1>5 DEF Machines
  <2>4. c \in Machines
    <3>1. m.bar + 1 \in Time
      BY <2>3 DEF Time
    <3> QED
      BY <2>1, <2>2, <3>1 DEF Machines
  <2>5. c.confirmed = m.bar + 1 /\ c.bar = i.bar /\ c.holding = i.holding
    BY <2>1, <2>2 DEF Machines
  <2> QED
    BY <2>1, <2>3, <2>4, <2>5
<1>6. ASSUME \/ c = [m EXCEPT !.pulled = TRUE] \/ c = [m EXCEPT !.stop = TRUE]
             \/ c = [m EXCEPT !.expanding = FALSE] /\ m.state = "active"
      PROVE  Good(c)
  <2> HIDE DEF c
  <2> QED
    BY <1>2, <1>6 DEF Machines, Time, Never
<1> HIDE DEF c
<1>7. Good(c)
  BY <1>2, <1>3, <1>4, <1>5, <1>6
<1> QED
  BY <1>7 DEF c

\* open_bar: a position outlives it only on a channel that is intact and young.
LEMMA OpenBarSound ==
  ASSUME NEW m \in Machines, NEW b \in Nat, NEW inside \in BOOLEAN, NEW vouched \in BOOLEAN,
         m.state = "active" => m.confirmed <= b,
         m.holding => m.state = "active" /\ ~m.expanding
  PROVE  LET o == OpenBar(m, b, inside, vouched)
         IN  /\ Sound(o) /\ o.bar = b
             /\ o.holding => m.holding /\ o.confirmed = m.confirmed
<1> DEFINE s == TakeSignal(m, b, inside)
           k == Break(s)
           x == Expire(k)
           o == ChopCheck(x, vouched)
<1> DEFINE Kept(y) ==
             /\ y \in Machines /\ y.bar = b
             /\ y.state = "active" => y.confirmed <= b
             /\ y.holding => /\ m.holding /\ y.confirmed = m.confirmed
                             /\ y.state = "active" /\ ~y.expanding
<1>1. Kept(s)
  <2> DEFINE seen == [m EXCEPT !.bar = b,
                               !.signal = IF m.signal <= b THEN Never ELSE m.signal]
  <2>1. Kept(seen)
    BY DEF Machines, Time, Never
  <2>2. CASE s = seen
    BY <2>1, <2>2
  <2>3. CASE s = [Idle(Flat(seen)) EXCEPT !.state = "seek"]
    <3> DEFINE i == Idle(Flat(seen))
    <3> HIDE DEF seen
    <3>1. i \in Machines /\ i.bar = b /\ ~i.holding
      BY <2>1, FlatFacts, IdleFacts
    <3> HIDE DEF i, s
    <3>2. s = [i EXCEPT !.state = "seek"]
      BY <2>3 DEF i
    <3>3. s \in Machines
      BY <3>1, <3>2 DEF Machines
    <3>4. s.state = "seek" /\ s.bar = i.bar /\ s.holding = i.holding
      BY <3>1, <3>2 DEF Machines
    <3> QED
      BY <3>1, <3>3, <3>4
  <2> QED
    BY <2>2, <2>3 DEF TakeSignal
<1>2. Kept(k)
  <2> HIDE DEF s
  <2>1. CASE k = s
    BY <1>1, <2>1
  <2>2. CASE k = [Flat(s) EXCEPT !.stop = FALSE, !.expanding = TRUE]
    <3> DEFINE f == Flat(s)
    <3>1. /\ f \in Machines /\ f.bar = b /\ ~f.holding
          /\ f.state = "active" => f.confirmed <= b
      BY <1>1, FlatFacts
    <3> HIDE DEF f, k
    <3>2. k = [f EXCEPT !.stop = FALSE, !.expanding = TRUE]
      BY <2>2 DEF f
    <3> QED
      BY <3>1, <3>2 DEF Machines
  <2> QED
    BY <2>1, <2>2 DEF Break
<1>3. /\ Sound(x) /\ x.bar = b
      /\ x.holding => m.holding /\ x.confirmed = m.confirmed
  <2> HIDE DEF k
  <2>1. CASE k.state = "active" /\ k.bar - k.confirmed >= MaxAge
    <3>1. x = Idle(Flat(k))
      BY <2>1 DEF Expire
    <3> QED
      BY <1>2, <3>1, FlatFacts, IdleFacts DEF Sound
  <2>2. CASE ~(k.state = "active" /\ k.bar - k.confirmed >= MaxAge)
    <3>1. x = k
      BY <2>2 DEF Expire
    <3>2. k.bar \in Int /\ k.confirmed \in Int
      BY <1>2 DEF Machines, Time, Never
    <3> QED
      BY <1>2, <2>2, <3>1, <3>2 DEF Sound
  <2> QED
    BY <2>1, <2>2
<1>4. /\ Sound(o) /\ o.bar = b
      /\ o.holding => m.holding /\ o.confirmed = m.confirmed
  <2> HIDE DEF x
  <2>1. x \in Machines
    BY <1>3 DEF Sound
  <2>2. \/ o = x
        \/ o = [x EXCEPT !.checked = TRUE, !.tradeable = ~ChopFilter \/ vouched]
    BY DEF ChopCheck
  <2>3. /\ o \in Machines
        /\ \A g \in {"state", "confirmed", "bar", "holding", "expanding"} : o[g] = x[g]
    <3> HIDE DEF o
    <3> QED
      BY <2>1, <2>2 DEF Machines
  <2> HIDE DEF o
  <2> QED
    BY <1>3, <2>3 DEF Sound
<1> QED
  BY <1>4 DEF OpenBar

LEMMA NextBarSound ==
  ASSUME NEW m, Sound(m), NEW move, NEW inside \in BOOLEAN, NEW vouched \in BOOLEAN
  PROVE  LET o == OpenBar(CloseBar(m, move), m.bar + 1, inside, vouched)
         IN  /\ Sound(o) /\ o.bar = m.bar + 1
             /\ o.holding => m.holding /\ o.confirmed = m.confirmed
<1> DEFINE c == CloseBar(m, move)
<1>1. /\ c \in Machines /\ c.holding = m.holding
      /\ c.state = "active" => c.confirmed <= m.bar + 1
      /\ c.holding => /\ c.state = "active" /\ ~c.expanding
                      /\ c.confirmed = m.confirmed
  BY CloseBarFacts
<1>2. m.bar + 1 \in Nat
  BY DEF Sound, Machines
<1> HIDE DEF c
<1>3. LET o == OpenBar(c, m.bar + 1, inside, vouched)
      IN  /\ Sound(o) /\ o.bar = m.bar + 1
          /\ o.holding => c.holding /\ o.confirmed = c.confirmed
  BY <1>1, <1>2, OpenBarSound
<1> QED
  BY <1>1, <1>3 DEF c

-----------------------------------------------------------------------------
(* Minutes.                                                                *)

LEMMA MinuteType ==
  ASSUME NEW b \in Nat, NEW k \in Nat
  PROVE  Minute(b, k) \in Nat
BY DEF Minute

LEMMA MinuteBefore ==
  ASSUME NEW b \in Nat, NEW k \in 0 .. MinutesPerBar - 1, NEW c \in Nat, b < c
  PROVE  Minute(b, k) < Minute(c, 0)
<1>1. PICK d \in Nat : c = b + 1 + d
  <2>1. c - b - 1 \in Nat /\ c = b + 1 + (c - b - 1)
    OBVIOUS
  <2> QED
    BY <2>1
<1>2. c * MinutesPerBar = b * MinutesPerBar + MinutesPerBar + d * MinutesPerBar
  BY <1>1
<1>3. d * MinutesPerBar \in Nat /\ b * MinutesPerBar \in Nat
  BY <1>1
<1> QED
  BY <1>2, <1>3 DEF Minute

-----------------------------------------------------------------------------
(* Verdicts.                                                               *)

Exits == {ExitOf(id) : id \in TradeIds}

\* When an entry may be on its way.
EntryReady(m, l) == Admissible(m) /\ l.complete /\ ~l.closing /\ l.blocked # m.bar

OutFits(v) ==
  \/ v.out \in Seq(Exits)
  \/ /\ \E t \in Time : v.out = <<EntryAt(t)>>
     /\ EntryReady(v.model, v.live)
     /\ mirror = 0

\* Nothing owned is let go of: a position that goes leaves a close behind, and
\* a close is the one owed before or one of the trade that the loop holds.
Carries(m, l, v) ==
  /\ v.model.holding => m.holding /\ v.model.confirmed = m.confirmed
  /\ v.live.closing => \/ l.closing /\ v.live.urgent = l.urgent /\ v.live.closeId = l.closeId
                       \/ v.live.urgent /\ v.live.closeId = mirror
  /\ m.holding \/ l.closing => v.model.holding \/ v.live.closing
  /\ v.live.blocked = l.blocked
  /\ v.live.complete => l.complete

Follows(m, l, v) ==
  Sound(v.model) /\ v.live \in Adapters /\ OutFits(v) /\ Carries(m, l, v)

\* The clock is behind the expiry of a position, and behind the end of the
\* model's bar while the evidence is complete.
Timely(m, l) ==
  /\ m.holding => l.lastMin < Minute(m.confirmed + MaxAge, 0)
  /\ l.complete => l.lastMin < Minute(m.bar + 1, 0)

LEMMA VerdictFields ==
  ASSUME NEW m, NEW l, NEW out
  PROVE  /\ Verdict(m, l, out).model = m /\ Verdict(m, l, out).live = l
         /\ Verdict(m, l, out).out = out
BY DEF Verdict

LEMMA NoIntents == <<>> \in Seq(Exits)
OBVIOUS

LEMMA FundedExitFacts ==
  ASSUME NEW l \in Adapters, mirror \in TradeIds
  PROVE  LET f == FundedExit(l)
         IN  /\ f \in Adapters
             /\ f.closing /\ f.urgent /\ f.closeId = mirror
             /\ f.lastMin = l.lastMin /\ f.blocked = l.blocked /\ f.complete = l.complete
BY DEF FundedExit, Adapters

LEMMA ExitNowType ==
  ASSUME NEW warm, mirror \in TradeIds
  PROVE  ExitNow(warm) \in Seq(Exits)
<1>1. ExitOf(mirror) \in Exits
  BY DEF Exits
<1> QED
  BY <1>1 DEF ExitNow

LEMMA ActFollows ==
  ASSUME NEW m, Sound(m), NEW l \in Adapters, NEW signal, NEW t \in Time,
         NEW warm \in BOOLEAN, NEW sized \in BOOLEAN, mirror \in TradeIds
  PROVE  LET v == Act(m, l, signal, t, warm, sized)
         IN  /\ Follows(m, l, v)
             /\ v.model.bar = m.bar /\ v.live.lastMin = l.lastMin
             /\ warm \/ l.closing \/ mirror # 0 => v.out \in Seq(Exits)
<1> DEFINE v == Act(m, l, signal, t, warm, sized)
           x == Verdict(RecordTargetExit(m, t), FundedExit(l), ExitNow(warm))
           e == Verdict(m, l, <<EntryAt(t)>>)
           n == Verdict(m, l, <<>>)
           Good == /\ Follows(m, l, v)
                   /\ v.model.bar = m.bar /\ v.live.lastMin = l.lastMin
                   /\ warm \/ l.closing \/ mirror # 0 => v.out \in Seq(Exits)
<1>1. \/ v = x
      \/ /\ v = e /\ Admissible(m) /\ ~warm /\ l.complete /\ ~l.closing
         /\ l.blocked # m.bar /\ mirror = 0
      \/ v = n
  BY DEF Act
<1> HIDE DEF v
<1>2. ASSUME v = x PROVE Good
  BY <1>2, ExitSound, FundedExitFacts, ExitNowType, VerdictFields
     DEF Follows, OutFits, Carries
<1>3. ASSUME v = e, Admissible(m), ~warm, l.complete, ~l.closing,
             l.blocked # m.bar, mirror = 0
      PROVE  Good
  <2>1. v.model = m /\ v.live = l /\ v.out = <<EntryAt(t)>>
    BY <1>3, VerdictFields
  <2>2. OutFits(v) /\ Carries(m, l, v)
    BY <1>3, <2>1 DEF OutFits, Carries, EntryReady
  <2> QED
    BY <1>3, <2>1, <2>2 DEF Follows
<1>4. ASSUME v = n PROVE Good
  <2>1. v.model = m /\ v.live = l /\ v.out = <<>>
    BY <1>4, VerdictFields
  <2> QED
    BY <2>1, NoIntents DEF Follows, OutFits, Carries
<1>5. Good
  BY <1>1, <1>2, <1>3, <1>4
<1> QED
  BY <1>5 DEF v

\* A minute moves the clock, never past the expiry of a position it keeps:
\* on_bar for a minute, with _frozen_exit.
LEMMA OnMinuteFollows ==
  ASSUME NEW m, Sound(m), NEW l \in Adapters, Timely(m, l), NEW touch,
         NEW warm \in BOOLEAN, NEW sized \in BOOLEAN, mirror \in TradeIds,
         bar \in Nat, tick \in 0 .. MinutesPerBar - 1,
         l.complete => bar <= m.bar,
         m.holding => mirror # 0
  PROVE  LET v == OnMinute(m, l, touch, warm, sized)
         IN  /\ Follows(m, l, v) /\ Timely(v.model, v.live)
             /\ v.model.bar = m.bar
             /\ warm \/ l.closing \/ mirror # 0 => v.out \in Seq(Exits)
<1> DEFINE v == OnMinute(m, l, touch, warm, sized)
           t == Minute(bar, tick)
           n == [l EXCEPT !.lastMin = t]
           signal == IF bar = m.bar THEN MinuteSignal(m, t, touch) ELSE "none"
           k == IF signal = "none" THEN n ELSE [n EXCEPT !.carried = signal]
           Good == /\ Follows(m, l, v) /\ Timely(v.model, v.live)
                   /\ v.model.bar = m.bar
                   /\ warm \/ l.closing \/ mirror # 0 => v.out \in Seq(Exits)
<1>1. t \in Nat /\ t \in Time /\ t + 1 \in Time /\ m \in Machines
  <2>1. tick \in Nat
    OBVIOUS
  <2>2. t \in Nat
    BY <2>1, MinuteType
  <2> HIDE DEF t
  <2> QED
    BY <2>2 DEF Sound, Time
<1>2. /\ n \in Adapters /\ n.lastMin = t
      /\ \A f \in {"closing", "urgent", "closeId", "complete", "blocked"} : n[f] = l[f]
  BY <1>1 DEF Adapters
<1>3. /\ k \in Adapters /\ k.lastMin = t
      /\ \A f \in {"closing", "urgent", "closeId", "complete", "blocked"} : k[f] = l[f]
  <2>1. signal \in {"none", "entry", "exit"}
    BY DEF MinuteSignal
  <2> HIDE DEF n, signal
  <2> QED
    BY <1>2, <2>1 DEF Adapters
<1>4. m.holding => Trading(m)
  BY <1>1 DEF Sound, Trading, Machines, Time, Never
<1>5. m.confirmed + MaxAge \in Nat /\ m.bar \in Nat /\ m.confirmed \in Int
  BY <1>1 DEF Machines, Time, Never
<1>6. l.complete => t < Minute(m.bar + 1, 0)
  <2>1. m.bar + 1 \in Nat /\ (l.complete => bar < m.bar + 1)
    BY <1>5
  <2> QED
    BY <2>1, MinuteBefore
<1>7. ASSUME m.holding, bar < m.confirmed + MaxAge
      PROVE  t < Minute(m.confirmed + MaxAge, 0)
  BY <1>5, <1>7, MinuteBefore
<1>8. l.complete /\ m.holding => bar < m.confirmed + MaxAge
  BY <1>1, <1>5 DEF Sound, Machines
<1> HIDE DEF n, t, k, signal
<1>9. ASSUME t <= l.lastMin PROVE Good
  <2>1. v = Verdict(m, l, <<>>)
    BY <1>9 DEF OnMinute, t
  <2>2. v.model = m /\ v.live = l /\ v.out = <<>>
    BY <2>1, VerdictFields
  <2> HIDE DEF v
  <2> QED
    BY <2>2, NoIntents DEF Follows, OutFits, Carries
<1>10. ASSUME ~(t <= l.lastMin), FrozenExit(m, l, t, touch) PROVE Good
  <2>1. v = Verdict(RecordTargetExit(m, t + 1), FundedExit(n), ExitNow(warm))
    BY <1>10 DEF OnMinute, t, n
  <2>2. /\ v.model = RecordTargetExit(m, t + 1) /\ v.live = FundedExit(n)
        /\ v.out = ExitNow(warm)
    BY <2>1, VerdictFields
  <2> HIDE DEF v
  <2>3. Sound(v.model) /\ ~v.model.holding /\ v.model.bar = m.bar
    BY <1>1, <2>2, ExitSound
  <2>4. /\ v.live \in Adapters /\ v.live.closing /\ v.live.urgent /\ v.live.closeId = mirror
        /\ v.live.lastMin = t /\ v.live.blocked = l.blocked /\ v.live.complete = l.complete
    BY <1>2, <2>2, FundedExitFacts
  <2> QED
    BY <1>6, <2>2, <2>3, <2>4, ExitNowType DEF Follows, OutFits, Carries, Timely
<1>11. ASSUME ~(t <= l.lastMin), ~FrozenExit(m, l, t, touch) PROVE Good
  <2>1. m.holding => bar < m.confirmed + MaxAge
    BY <1>4, <1>5, <1>8, <1>11 DEF FrozenExit
  <2>2. Timely(m, n) /\ Timely(m, k)
    BY <1>2, <1>3, <1>6, <1>7, <2>1 DEF Timely
  <2>3. CASE tick = MinutesPerBar - 1
    <3>1. v = Verdict(m, k, <<>>)
      BY <1>11, <2>3 DEF OnMinute, t, n, signal, k
    <3>2. v.model = m /\ v.live = k /\ v.out = <<>>
      BY <3>1, VerdictFields
    <3> HIDE DEF v
    <3> QED
      BY <1>3, <2>2, <3>2, NoIntents DEF Follows, OutFits, Carries
  <2>4. CASE tick # MinutesPerBar - 1
    <3>1. v = Act(m, n, signal, t + 1, warm, sized)
      BY <1>11, <2>4 DEF OnMinute, t, n, signal
    <3> HIDE DEF v
    <3>2. /\ Follows(m, n, v)
          /\ v.model.bar = m.bar /\ v.live.lastMin = n.lastMin
          /\ warm \/ n.closing \/ mirror # 0 => v.out \in Seq(Exits)
      BY <1>1, <1>2, <3>1, ActFollows
    <3>3. Follows(m, l, v)
      BY <1>2, <3>2 DEF Follows, Carries
    <3>4. Timely(v.model, v.live)
      BY <1>2, <2>2, <3>2 DEF Follows, Carries, Timely
    <3> QED
      BY <1>2, <3>2, <3>3, <3>4
  <2> QED
    BY <2>3, <2>4
<1> HIDE DEF v
<1>12. Good
  BY <1>9, <1>10, <1>11
<1> QED
  BY <1>12 DEF v

LEMMA ActIsVerdict ==
  ASSUME NEW m, NEW l, NEW signal, NEW t, NEW warm, NEW sized \in BOOLEAN
  PROVE  LET v == Act(m, l, signal, t, warm, sized)
         IN  v = [model |-> v.model, live |-> v.live, out |-> v.out]
BY DEF Act, Verdict

\* A completed 4h bar: the position that a stop, an expiry or a new impulse ends
\* leaves an exit behind, and no entry is sent with it.
LEMMA On4hFollows ==
  ASSUME NEW m, Sound(m), NEW l \in Adapters, Timely(m, l), NEW move,
         NEW inside \in BOOLEAN, NEW vouched \in BOOLEAN, NEW warm \in BOOLEAN, NEW sized \in BOOLEAN,
         mirror \in TradeIds, bar = m.bar
  PROVE  LET v == On4h(m, l, move, inside, vouched, warm, sized)
         IN  /\ Follows(m, l, v) /\ Timely(v.model, v.live)
             /\ v.model.bar = bar + 1
<1> DEFINE opens == OpenBar(CloseBar(m, move), bar + 1, inside, vouched)
           stopped == m.holding /\ ~opens.holding
           f == IF stopped THEN FundedExit(l) ELSE l
           after == [f EXCEPT !.carried = "none"]
           t == Minute(bar + 1, 0)
           next == IF warm THEN Verdict(opens, after, <<>>)
                   ELSE Act(opens, after, l.carried, t, warm, sized)
           head == IF stopped THEN ExitNow(warm) ELSE <<>>
           v == [next EXCEPT !.out = head \o next.out]
<1>1. v = On4h(m, l, move, inside, vouched, warm, sized)
  BY DEF On4h
<1>2. /\ Sound(opens) /\ opens.bar = bar + 1
      /\ opens.holding => m.holding /\ opens.confirmed = m.confirmed
  BY NextBarSound
<1>3. m \in Machines /\ bar \in Nat /\ t \in Time
  <2>1. m \in Machines /\ bar \in Nat
    BY DEF Sound, Machines
  <2> QED
    BY <2>1, MinuteType DEF Time
<1> HIDE DEF opens, t
<1>4. /\ f \in Adapters
      /\ f.lastMin = l.lastMin /\ f.blocked = l.blocked /\ f.complete = l.complete
      /\ stopped => f.closing /\ f.urgent /\ f.closeId = mirror
      /\ ~stopped => f = l
  <2> HIDE DEF stopped
  <2> QED
    BY FundedExitFacts
<1> HIDE DEF f
<1>5. /\ after \in Adapters
      /\ \A g \in {"closing", "urgent", "closeId", "complete", "blocked", "lastMin"} :
           after[g] = f[g]
  BY <1>4 DEF Adapters
<1> HIDE DEF after
<1>6. /\ Follows(opens, after, next) /\ next.model.bar = bar + 1
      /\ next.live.lastMin = after.lastMin
      /\ after.closing => next.out \in Seq(Exits)
      /\ next = [model |-> next.model, live |-> next.live, out |-> next.out]
  <2>1. CASE warm
    <3>1. next = Verdict(opens, after, <<>>)
      BY <2>1
    <3>2. next.model = opens /\ next.live = after /\ next.out = <<>>
      BY <3>1, VerdictFields
    <3>3. next = [model |-> next.model, live |-> next.live, out |-> next.out]
      BY <3>1, <3>2 DEF Verdict
    <3> HIDE DEF next
    <3> QED
      BY <1>2, <1>5, <3>2, <3>3, NoIntents DEF Follows, OutFits, Carries
  <2>2. CASE ~warm
    <3>1. next = Act(opens, after, l.carried, t, warm, sized)
      BY <2>2
    <3> HIDE DEF next
    <3> QED
      BY <1>2, <1>3, <1>5, <3>1, ActFollows, ActIsVerdict
  <2> QED
    BY <2>1, <2>2
<1> HIDE DEF next
<1>7. v.model = next.model /\ v.live = next.live /\ v.out = head \o next.out
  BY <1>6
<1>8. OutFits(v)
  <2>1. CASE stopped
    <3>1. next.out \in Seq(Exits) /\ head \in Seq(Exits)
      BY <1>4, <1>5, <1>6, <2>1, ExitNowType
    <3>2. v.out \in Seq(Exits)
      BY <1>7, <3>1, ConcatProperties
    <3> QED
      BY <3>2 DEF OutFits
  <2>2. CASE ~stopped
    <3>1. ASSUME next.out \in Seq(Exits) PROVE v.out = next.out
      BY <1>7, <2>2, <3>1, ConcatEmptySeq
    <3>2. ASSUME NEW x \in Time, next.out = <<EntryAt(x)>> PROVE v.out = next.out
      <4>1. next.out \in Seq({EntryAt(x)})
        BY <3>2
      <4> QED
        BY <1>7, <2>2, <4>1, ConcatEmptySeq
    <3>3. v.out = next.out
      BY <1>6, <3>1, <3>2 DEF Follows, OutFits
    <3> QED
      BY <1>6, <1>7, <3>3 DEF Follows, OutFits
  <2> QED
    BY <2>1, <2>2
<1> HIDE DEF v
<1>9. Carries(m, l, v)
  BY <1>2, <1>4, <1>5, <1>6, <1>7 DEF Follows, Carries
<1>10. Timely(v.model, v.live)
  <2>1. v.model.holding => opens.holding /\ v.model.confirmed = m.confirmed
    BY <1>2, <1>6, <1>7 DEF Follows, Carries
  <2>2. v.live.lastMin = l.lastMin /\ (v.live.complete => l.complete)
    BY <1>4, <1>5, <1>6, <1>7 DEF Follows, Carries
  <2>3. Minute(bar + 1, 0) < Minute(bar + 2, 0)
    BY <1>3, MinuteBefore
  <2>4. /\ l.lastMin \in Int /\ Minute(bar + 1, 0) \in Int /\ Minute(bar + 2, 0) \in Int
        /\ bar + 1 + 1 = bar + 2
    <3>1. bar + 1 \in Nat /\ bar + 2 \in Nat /\ 0 \in Nat
      BY <1>3
    <3>2. Minute(bar + 1, 0) \in Nat /\ Minute(bar + 2, 0) \in Nat
      BY <3>1, MinuteType
    <3> QED
      BY <1>3, <3>2 DEF Adapters, Time, Never
  <2> QED
    BY <1>2, <1>6, <1>7, <2>1, <2>2, <2>3, <2>4 DEF Timely
<1> QED
  BY <1>1, <1>6, <1>7, <1>8, <1>9, <1>10 DEF Follows

LEMMA IncompleteFacts ==
  ASSUME NEW l \in Adapters
  PROVE  LET i == Incomplete(l)
         IN  /\ i \in Adapters /\ i.complete = FALSE
             /\ \A g \in {"closing", "urgent", "closeId", "carried", "blocked", "lastMin"} :
                  i[g] = l[g]
BY DEF Incomplete, Adapters

\* The completed bars of a boundary, whatever evidence there is of them: the
\* machine moves on by one bar or stands still, incomplete for good.
LEMMA BoundaryFollows ==
  ASSUME Sound(model), live \in Adapters, Timely(model, live),
         NEW evidence \in Evidence, NEW signalled \in BOOLEAN, NEW move,
         NEW inside \in BOOLEAN, NEW vouched \in BOOLEAN, NEW sized \in BOOLEAN,
         Warm \in BOOLEAN, mirror \in TradeIds, bar \in Nat,
         live.complete => bar <= model.bar
  PROVE  LET v == BoundaryVerdict(evidence, signalled, move, inside, vouched, sized)
         IN  /\ Follows(model, live, v) /\ Timely(v.model, v.live)
             /\ v.model.bar = model.bar \/ (v.model.bar = bar + 1 /\ bar = model.bar)
             /\ v.live.complete => bar < v.model.bar
             /\ evidence # "none" /\ bar >= model.bar => ~v.live.complete
<1> DEFINE m == IF signalled THEN ObserveDaily(model, bar + 1) ELSE model
           l == IF evidence = "none" THEN live ELSE Incomplete(live)
           v == BoundaryVerdict(evidence, signalled, move, inside, vouched, sized)
           Good == /\ Follows(model, live, v) /\ Timely(v.model, v.live)
                   /\ v.model.bar = model.bar \/ (v.model.bar = bar + 1 /\ bar = model.bar)
                   /\ v.live.complete => bar < v.model.bar
                   /\ evidence # "none" /\ bar >= model.bar => ~v.live.complete
<1>1. model.bar \in Nat
  BY DEF Sound, Machines
<1>2. /\ Sound(m) /\ m.bar = model.bar /\ m.holding = model.holding
      /\ m.confirmed = model.confirmed
  BY DailySound
<1>3. /\ l \in Adapters /\ (evidence # "none" => ~l.complete) /\ (l.complete => live.complete)
      /\ \A g \in {"closing", "urgent", "closeId", "carried", "blocked", "lastMin"} :
           l[g] = live[g]
  BY IncompleteFacts
<1>4. Timely(m, l)
  <2> HIDE DEF m, l
  <2> QED
    BY <1>2, <1>3 DEF Timely
<1>5. ASSUME bar < model.bar PROVE Good
  <2>1. v = Verdict(model, live, <<>>)
    BY <1>5 DEF BoundaryVerdict
  <2>2. v.model = model /\ v.live = live /\ v.out = <<>>
    BY <2>1, VerdictFields
  <2> HIDE DEF v
  <2> QED
    BY <1>1, <1>5, <2>2, NoIntents DEF Follows, OutFits, Carries
<1>6. ASSUME ~(bar < model.bar), Chained(evidence # "bar") PROVE Good
  <2>1. v = On4h(m, l, move, inside, vouched, Warm, sized)
    BY <1>6 DEF BoundaryVerdict
  <2>2. bar = m.bar
    BY <1>2, <1>6 DEF Chained
  <2> HIDE DEF v, m, l
  <2>3. Follows(m, l, v) /\ Timely(v.model, v.live) /\ v.model.bar = bar + 1
    BY <1>2, <1>3, <1>4, <2>1, <2>2, On4hFollows
  <2>4. Follows(model, live, v)
    BY <1>2, <1>3, <2>3 DEF Follows, Carries
  <2>5. v.live.complete => l.complete
    BY <2>3 DEF Follows, Carries
  <2> QED
    BY <1>1, <1>2, <1>3, <2>2, <2>3, <2>4, <2>5
<1>7. ASSUME ~(bar < model.bar), ~Chained(evidence # "bar") PROVE Good
  <2>1. v = Verdict(model, Incomplete(live), <<>>)
    BY <1>7 DEF BoundaryVerdict
  <2>2. v.model = model /\ v.live = Incomplete(live) /\ v.out = <<>>
    BY <2>1, VerdictFields
  <2> HIDE DEF v
  <2>3. /\ v.live \in Adapters /\ ~v.live.complete
        /\ \A g \in {"closing", "urgent", "closeId", "carried", "blocked", "lastMin"} :
             v.live[g] = live[g]
    BY <2>2, IncompleteFacts
  <2> QED
    BY <1>1, <2>2, <2>3, NoIntents DEF Follows, OutFits, Carries, Timely
<1> HIDE DEF v
<1>8. Good
  BY <1>5, <1>6, <1>7
<1> QED
  BY <1>8 DEF v

-----------------------------------------------------------------------------
(* The inductive invariant.                                                *)

InStep == pc \in {"submit", "booked"}

\* What the memory and the snapshot have in common: a close in progress names
\* the trade held, and what blocks entries is remembered.
MemoryInv(m, l) ==
  /\ Sound(m) /\ Timely(m, l)
  /\ l.closing /\ slot # 0 => l.urgent /\ l.closeId = slot
  /\ l.blocked <= m.bar
  /\ l.complete => warnedBar <= l.blocked
  /\ hurt => ~l.complete

\* A position of the feed lies before the first live one, and is it while a live
\* item is being processed.
FeedInv ==
  /\ tick <= MinutesPerBar /\ sinceTick <= MinutesPerBar
  /\ bar < sinceBar \/ (bar = sinceBar /\ tick <= sinceTick)
  /\ pc \notin {"down", "idle"} => bar = sinceBar /\ tick = sinceTick
  /\ pc \in {"venue", "deliver"} => ~AtBoundary
  /\ warnedBar <= sinceBar

\* The model is never ahead of the live feed, and a model that lacks nothing
\* never behind the feed.
ModelInv ==
  /\ saved.model.bar <= sinceBar \/ (InStep /\ AtBoundary /\ saved.model.bar = bar + 1)
  /\ model.bar <= sinceBar \/ (InStep /\ AtBoundary /\ model.bar = bar + 1)
  /\ live.complete => bar <= model.bar
  /\ live.complete /\ InStep /\ AtBoundary => bar < model.bar
  /\ pc = "down" => model = saved.model /\ live = saved.live

\* The trade held is the loop's, and is modelled or leaving.
SlotInv ==
  /\ ~told => slot = 0 /\ pc \in {"deliver", "down"}
  /\ pc \notin {"down", "submit", "booked"} =>
       /\ slot # 0 => mirror = slot
       /\ mirror = 0 => ~model.holding
  /\ pc \notin {"down", "booked"} => (slot # 0 => model.holding \/ live.closing)
  /\ pc = "idle" => mirror = slot
  /\ pc = "deliver" => slot = 0

\* Exits, or one entry that every block lets pass.
IntentInv ==
  /\ \/ intents \in Seq(Exits)
     \/ /\ \E t \in Time : intents = <<EntryAt(t)>>
        /\ EntryReady(model, live) /\ ~saved.live.closing
  /\ intents # <<>> => InStep
  /\ pc = "booked" => intents \notin Seq(Exits) /\ slot # 0

IInv ==
  /\ TypeOK
  /\ MemoryInv(model, live) /\ MemoryInv(saved.model, saved.live)
  /\ FeedInv /\ ModelInv /\ SlotInv /\ IntentInv

-----------------------------------------------------------------------------
(* Steps of the venue and the loop that leave the strategy alone.          *)

LEMMA BarArrivesInv == IInv /\ BarArrives => IInv'
<1> SUFFICES ASSUME IInv, BarArrives PROVE IInv'
  OBVIOUS
<1> USE DEF BarArrives, Goto, stratVars, execVars, feedVars, histVars, flowVars, IInv
<1>1. TypeOK'
  BY DEF TypeOK, Stages
<1>2. MemoryInv(model, live)' /\ MemoryInv(saved.model, saved.live)'
  BY DEF MemoryInv
<1>3. FeedInv'
  BY DEF FeedInv, TypeOK, AtBoundary, Warm
<1>4. ModelInv'
  BY DEF ModelInv, InStep, AtBoundary
<1>5. SlotInv'
  BY DEF SlotInv
<1>6. IntentInv'
  BY DEF IntentInv, InStep
<1> QED
  BY <1>1, <1>2, <1>3, <1>4, <1>5, <1>6

LEMMA NoTradeId == 0 \in TradeIds
BY DEF TradeIds

\* The trade stays or is closed, on the way from the venue to the decision.
LEMMA LoopInv ==
  ASSUME IInv, TypeOK', UNCHANGED <<stratVars, saved, intents, feedVars, histVars>>,
         slot' \in {slot, 0}, told' = told \/ (slot' = 0 /\ pc' = "deliver"),
         \/ pc' = pc /\ (pc \in {"idle", "booked"} => slot' = slot)
         \/ pc = "venue" /\ pc' = "retry"
         \/ pc = "venue" /\ pc' = "deliver" /\ slot' = 0
         \/ pc = "retry" /\ pc' = "decide"
  PROVE  IInv'
<1> USE DEF stratVars, feedVars, histVars, IInv
<1>2. MemoryInv(model, live)' /\ MemoryInv(saved.model, saved.live)'
  BY DEF MemoryInv
<1>3. FeedInv'
  BY DEF FeedInv, AtBoundary
<1>4. ModelInv'
  BY DEF ModelInv, InStep, AtBoundary
<1>5. SlotInv'
  BY DEF SlotInv
<1>6. IntentInv'
  BY DEF IntentInv, InStep, EntryReady
<1> QED
  BY <1>2, <1>3, <1>4, <1>5, <1>6

LEMMA VenueInv ==
  ASSUME IInv, VenueUnclear \/ VenueAgrees \/ ClosureBooked \/ VenueCloses \/ NothingOwed
  PROVE  IInv'
<1> USE DEF Goto, stratVars, execVars, feedVars, flowVars, histVars
<1>1. TypeOK
  BY DEF IInv
<1>2. CASE VenueUnclear
  BY <1>1, <1>2, LoopInv DEF VenueUnclear, TypeOK, Stages
<1>3. CASE VenueAgrees
  BY <1>1, <1>3, LoopInv DEF VenueAgrees, TypeOK, Stages
<1>4. CASE ClosureBooked
  <2>1. TypeOK'
    BY <1>1, <1>4, NoTradeId DEF ClosureBooked, TypeOK, Stages
  <2> QED
    BY <1>4, <2>1, LoopInv DEF ClosureBooked
<1>5. CASE VenueCloses
  BY <1>1, <1>5, LoopInv DEF VenueCloses, TypeOK
<1>6. CASE NothingOwed
  BY <1>1, <1>6, LoopInv DEF NothingOwed, TypeOK, Stages
<1> QED
  BY <1>2, <1>3, <1>4, <1>5, <1>6

\* Whatever a close does, it leaves the trade or no trade.
LEMMA CloseStep ==
  ASSUME TypeOK, NEW id,
         NoClose(id) \/ CloseAccepted(id) \/ (\E x \in BOOLEAN : CloseFails(id, x))
  PROVE  /\ slot' \in {slot, 0} /\ told' = told /\ opened' = opened
         /\ slot' \in TradeIds /\ begun' \in BOOLEAN /\ gone' \in BOOLEAN
         /\ owed' \in BOOLEAN /\ doubt' \in BOOLEAN
<1>1. CASE NoClose(id)
  BY <1>1 DEF NoClose, execVars, TypeOK
<1>2. CASE CloseAccepted(id)
  BY <1>2, NoTradeId DEF CloseAccepted, TypeOK
<1>3. CASE \E x \in BOOLEAN : CloseFails(id, x)
  BY <1>3 DEF CloseFails, TypeOK
<1> QED
  BY <1>1, <1>2, <1>3

LEMMA RetryInv ==
  ASSUME IInv, RetryIdle \/ RetryAccepted \/ (\E x \in BOOLEAN : RetryFails(x))
  PROVE  IInv'
<1> USE DEF Goto, stratVars, feedVars, flowVars, histVars
<1>1. TypeOK
  BY DEF IInv
<1>2. /\ Retried
      /\ NoClose(0) \/ CloseAccepted(0) \/ (\E x \in BOOLEAN : CloseFails(0, x))
  BY DEF RetryIdle, RetryAccepted, RetryFails
<1>3. /\ slot' \in {slot, 0} /\ told' = told /\ opened' = opened
      /\ slot' \in TradeIds /\ begun' \in BOOLEAN /\ gone' \in BOOLEAN
      /\ owed' \in BOOLEAN /\ doubt' \in BOOLEAN
  BY <1>1, <1>2, CloseStep
<1>4. TypeOK'
  BY <1>1, <1>2, <1>3 DEF Retried, TypeOK, Stages
<1> QED
  BY <1>2, <1>3, <1>4, LoopInv DEF Retried

-----------------------------------------------------------------------------
(* The intents.                                                            *)

\* An exit is not the entry.
LEMMA NextExit ==
  ASSUME IntentInv, NextIntent("exit")
  PROVE  intents \in Seq(Exits) /\ Tail(intents) \in Seq(Exits) /\ pc = "submit"
<1>1. ASSUME NEW t \in Time, intents = <<EntryAt(t)>> PROVE FALSE
  BY <1>1 DEF NextIntent, EntryAt
<1>2. intents \in Seq(Exits) /\ intents # <<>>
  BY <1>1 DEF IntentInv, NextIntent
<1> QED
  BY <1>2, HeadTailProperties DEF NextIntent

LEMMA NextEntry ==
  ASSUME IntentInv, NextIntent("entry")
  PROVE  /\ EntryReady(model, live) /\ ~saved.live.closing /\ pc = "submit"
         /\ Head(intents).fill \in Time /\ Tail(intents) = <<>>
         /\ intents \notin Seq(Exits)
<1>1. ASSUME intents \in Seq(Exits) PROVE FALSE
  <2>1. Head(intents) \in Exits
    BY <1>1, HeadTailProperties DEF NextIntent
  <2> QED
    <3>1. PICK id \in TradeIds : Head(intents) = ExitOf(id)
      BY <2>1 DEF Exits
    <3> QED
      BY <3>1 DEF NextIntent, ExitOf
<1>2. PICK t \in Time : intents = <<EntryAt(t)>>
  BY <1>1 DEF IntentInv
<1>3. Head(intents) = EntryAt(t) /\ Tail(intents) = <<>>
  BY <1>2
<1>4. EntryAt(t).fill = t
  BY DEF EntryAt
<1> QED
  BY <1>1, <1>3, <1>4 DEF IntentInv, NextIntent

LEMMA ExitsAreIntents == \A q \in Seq(Exits) : q \in Seq(Intents)
<1>1. Exits \subseteq Intents
  BY DEF Exits, Intents, ExitOf, Time, TradeIds
<1> QED
  BY <1>1

LEMMA ExitInv ==
  ASSUME IInv, ExitIdle \/ ExitAccepted \/ (\E x \in BOOLEAN : ExitFails(x))
  PROVE  IInv'
<1> USE DEF stratVars, feedVars, histVars
<1>1. TypeOK
  BY DEF IInv
<1>2. /\ ExitSubmitted
      /\ \/ NoClose(Head(intents).id) \/ CloseAccepted(Head(intents).id)
         \/ \E x \in BOOLEAN : CloseFails(Head(intents).id, x)
  BY DEF ExitIdle, ExitAccepted, ExitFails
<1>3. /\ slot' \in {slot, 0} /\ told' = told /\ opened' = opened
      /\ slot' \in TradeIds /\ begun' \in BOOLEAN /\ gone' \in BOOLEAN
      /\ owed' \in BOOLEAN /\ doubt' \in BOOLEAN
  BY <1>1, <1>2, CloseStep
<1>4. intents' \in Seq(Exits) /\ pc = "submit"
  BY <1>2, NextExit DEF IInv, ExitSubmitted
<1>5. TypeOK'
  BY <1>1, <1>2, <1>3, <1>4, ExitsAreIntents DEF ExitSubmitted, TypeOK
<1> USE <1>2, <1>3, <1>4 DEF ExitSubmitted, IInv
<1>6. MemoryInv(model, live)' /\ MemoryInv(saved.model, saved.live)'
  BY DEF MemoryInv
<1>7. FeedInv'
  BY DEF FeedInv, AtBoundary
<1>8. ModelInv'
  BY DEF ModelInv, InStep, AtBoundary
<1>9. SlotInv'
  BY DEF SlotInv
<1>10. IntentInv'
  BY DEF IntentInv, InStep
<1> QED
  BY <1>5, <1>6, <1>7, <1>8, <1>9, <1>10

LEMMA EntryFillsInv == IInv /\ EntryFills => IInv'
<1> SUFFICES ASSUME IInv, EntryFills PROVE IInv'
  OBVIOUS
<1> USE DEF EntryFills, stratVars, feedVars, histVars, IInv
<1>1. /\ EntryReady(model, live) /\ ~saved.live.closing /\ pc = "submit"
      /\ intents \notin Seq(Exits) /\ intents # <<>>
  BY NextEntry DEF NextIntent
<1>2. opened + 1 \in TradeIds /\ opened + 1 # 0
  BY DEF TypeOK, TradeIds
<1>3. TypeOK'
  BY <1>2 DEF TypeOK, Stages
<1>4. MemoryInv(model, live)' /\ MemoryInv(saved.model, saved.live)'
  BY <1>1 DEF MemoryInv, EntryReady
<1>5. FeedInv'
  BY <1>1 DEF FeedInv, AtBoundary
<1>6. ModelInv'
  BY <1>1 DEF ModelInv, InStep, AtBoundary
<1>7. SlotInv'
  <2>1. told
    BY <1>1 DEF SlotInv
  <2> QED
    BY <1>1, <1>2, <2>1 DEF SlotInv
<1>8. IntentInv'
  BY <1>1, <1>2 DEF IntentInv, InStep
<1> QED
  BY <1>3, <1>4, <1>5, <1>6, <1>7, <1>8

\* on_order_result: the machine takes the entry it asked for.
LEMMA EntryRecordedInv == IInv /\ EntryRecorded => IInv'
<1> SUFFICES ASSUME IInv, EntryRecorded PROVE IInv'
  OBVIOUS
<1> DEFINE t == Head(intents).fill
<1> USE DEF IInv
<1>1. PICK x \in Time : intents = <<EntryAt(x)>>
  BY DEF EntryRecorded, IntentInv
<1>2. t = x /\ Tail(intents) = <<>>
  BY <1>1 DEF EntryAt
<1>3. EntryReady(model, live) /\ ~saved.live.closing /\ slot # 0
  BY DEF EntryRecorded, IntentInv
<1>4. model' = RecordEntry(model, t) /\ live' = live
  BY <1>3, VerdictFields DEF EntryRecorded, Land, EntryReady
<1>5. /\ UNCHANGED <<mirror, gap, saved, execVars, due, fresh, feedVars, histVars>>
      /\ intents' = <<>> /\ pc' = "submit" /\ pc = "booked"
  BY <1>2 DEF EntryRecorded
<1>6. /\ Sound(model') /\ model'.bar = model.bar /\ model'.holding
      /\ model'.confirmed = model.confirmed
  BY <1>2, <1>3, <1>4, EntrySound DEF MemoryInv, EntryReady
<1> HIDE DEF t
<1>7. TypeOK'
  BY <1>4, <1>5, <1>6 DEF TypeOK, Stages, Sound, execVars, feedVars, histVars
<1>8. Timely(model', live')
  <2>1. live.complete /\ live.lastMin < Minute(model.bar + 1, 0) /\ live.lastMin \in Int
    BY <1>3 DEF EntryReady, MemoryInv, Timely, TypeOK, Adapters, Time, Never
  <2>2. model.state = "active" /\ model.bar < model.confirmed + MaxAge
    BY <1>3 DEF EntryReady, Admissible, Trading, MemoryInv, Sound
  <2>3. model.bar \in Nat /\ model.confirmed \in Int
    BY DEF TypeOK, Machines, Time, Never
  <2>4. model.bar + 1 \in Nat /\ model.confirmed + MaxAge \in Nat /\ 0 \in Nat
    BY <2>2, <2>3
  <2>5. Minute(model.bar + 1, 0) \in Nat /\ Minute(model.confirmed + MaxAge, 0) \in Nat
    BY <2>4, MinuteType
  <2>6. CASE model.bar + 1 = model.confirmed + MaxAge
    BY <1>4, <1>6, <2>1, <2>6 DEF Timely
  <2>7. CASE model.bar + 1 < model.confirmed + MaxAge
    <3>1. 0 \in 0 .. MinutesPerBar - 1
      OBVIOUS
    <3>2. Minute(model.bar + 1, 0) < Minute(model.confirmed + MaxAge, 0)
      BY <2>4, <2>7, <3>1, MinuteBefore
    <3> QED
      BY <1>4, <1>6, <2>1, <2>5, <3>2 DEF Timely
  <2> QED
    BY <2>2, <2>3, <2>6, <2>7
<1>9. MemoryInv(model, live)'
  BY <1>3, <1>4, <1>5, <1>6, <1>8 DEF MemoryInv, EntryReady, execVars, histVars
<1>10. MemoryInv(saved.model, saved.live)'
  BY <1>5 DEF MemoryInv, execVars, histVars
<1>11. FeedInv'
  BY <1>5 DEF FeedInv, AtBoundary, feedVars, histVars
<1>12. ModelInv'
  BY <1>4, <1>5, <1>6 DEF ModelInv, InStep, AtBoundary, feedVars
<1>13. SlotInv'
  BY <1>4, <1>5, <1>6 DEF SlotInv, execVars
<1>14. IntentInv'
  BY <1>5, NoIntents DEF IntentInv, InStep
<1> QED
  BY <1>7, <1>9, <1>10, <1>11, <1>12, <1>13, <1>14

LEMMA EntryNotFilledInv ==
  ASSUME IInv, NEW u \in BOOLEAN, EntryNotFilled(u)
  PROVE  IInv'
<1> USE DEF IInv
<1>1. /\ EntryReady(model, live) /\ pc = "submit" /\ Tail(intents) = <<>>
  BY NextEntry DEF EntryNotFilled
<1>2. /\ live' = [live EXCEPT !.blocked = model.bar] /\ intents' = <<>>
      /\ doubt' = (doubt \/ u)
      /\ UNCHANGED <<model, mirror, gap, saved, slot, begun, told, opened, gone, owed,
                     pc, due, fresh, feedVars, histVars>>
  BY <1>1 DEF EntryNotFilled
<1>3. model.bar \in Nat /\ model.bar \in Time /\ live \in Adapters
  BY DEF TypeOK, Machines, Time
<1>4. /\ live' \in Adapters /\ live'.blocked = model.bar
      /\ \A g \in {"closing", "urgent", "closeId", "complete", "lastMin"} :
           live'[g] = live[g]
  BY <1>2, <1>3 DEF Adapters
<1>5. TypeOK'
  BY <1>2, <1>4, NoIntents, ExitsAreIntents DEF TypeOK, feedVars, histVars
<1>6. MemoryInv(model, live)'
  <2>1. live.blocked \in Int /\ warnedBar \in Int
    BY DEF TypeOK, Adapters, Time, Never
  <2>2. live.complete => warnedBar <= model.bar
    BY <1>3, <2>1 DEF MemoryInv
  <2> QED
    BY <1>2, <1>3, <1>4, <2>2 DEF MemoryInv, Timely, histVars
<1>7. MemoryInv(saved.model, saved.live)'
  BY <1>2 DEF MemoryInv, histVars
<1>8. FeedInv'
  BY <1>2 DEF FeedInv, AtBoundary, feedVars, histVars
<1>9. ModelInv'
  BY <1>1, <1>2, <1>4 DEF ModelInv, InStep, AtBoundary, feedVars
<1>10. SlotInv'
  BY <1>1, <1>2, <1>4 DEF SlotInv
<1>11. IntentInv'
  BY <1>1, <1>2, NoIntents DEF IntentInv, InStep
<1> QED
  BY <1>5, <1>6, <1>7, <1>8, <1>9, <1>10, <1>11

-----------------------------------------------------------------------------
(* The feed moves.                                                         *)

LEMMA AfterFacts ==
  ASSUME NEW b \in Nat, NEW k \in 0 .. MinutesPerBar
  PROVE  /\ After(b, k)[1] \in Nat /\ After(b, k)[2] \in 0 .. MinutesPerBar
         /\ k = MinutesPerBar => After(b, k)[1] = b + 1 /\ After(b, k)[2] = 0
         /\ k # MinutesPerBar => After(b, k)[1] = b /\ After(b, k)[2] \in {k, k + 1}
BY DEF After

LEMMA NextMinuteFacts ==
  ASSUME NEW b \in Nat, NEW k \in 0 .. MinutesPerBar
  PROVE  LET p == NextMinute(b, k)
         IN  /\ p[1] \in Nat /\ p[2] \in 0 .. MinutesPerBar - 1
             /\ b <= p[1] /\ (p[1] = b => k <= p[2])
             /\ k = MinutesPerBar => p[1] = b + 1
<1> DEFINE q == After(b, k)
<1>1. /\ q[1] \in Nat /\ q[2] \in 0 .. MinutesPerBar
      /\ k = MinutesPerBar => q[1] = b + 1 /\ q[2] = 0
      /\ k # MinutesPerBar => q[1] = b /\ q[2] \in {k, k + 1}
  BY AfterFacts
<1>2. CASE q[2] = MinutesPerBar
  <2>1. NextMinute(b, k) = <<b + 1, 0>>
    BY <1>2 DEF NextMinute
  <2> QED
    BY <1>1, <1>2, <2>1
<1>3. CASE q[2] # MinutesPerBar
  <2>1. NextMinute(b, k) = q
    BY <1>3 DEF NextMinute
  <2> HIDE DEF q
  <2> QED
    BY <1>1, <1>3, <2>1
<1> QED
  BY <1>2, <1>3

LEMMA AdvanceFacts ==
  ASSUME TypeOK, FeedInv, Advance
  PROVE  /\ bar' \in Nat /\ tick' \in Nat /\ sinceBar' \in Nat /\ sinceTick' \in Nat
         /\ tick' <= MinutesPerBar /\ sinceTick' <= MinutesPerBar
         /\ bar' < sinceBar' \/ (bar' = sinceBar' /\ tick' <= sinceTick')
         /\ sinceBar <= sinceBar'
         /\ AtBoundary => bar' = bar + 1 /\ bar + 1 <= sinceBar'
         /\ ~AtBoundary => bar' = bar
<1> DEFINE p == After(bar, tick)
<1>1. /\ bar \in Nat /\ tick \in 0 .. MinutesPerBar
      /\ sinceBar \in Nat /\ sinceTick \in 0 .. MinutesPerBar
  BY DEF TypeOK, FeedInv
<1>2. /\ p[1] \in Nat /\ p[2] \in 0 .. MinutesPerBar
      /\ tick = MinutesPerBar => p[1] = bar + 1 /\ p[2] = 0
      /\ tick # MinutesPerBar => p[1] = bar /\ p[2] \in {tick, tick + 1}
  BY <1>1, AfterFacts
<1>3. bar' = p[1] /\ tick' = p[2]
  BY DEF Advance, MoveTo
<1> HIDE DEF p
<1>4. CASE Warm
  <2>1. sinceBar' = sinceBar /\ sinceTick' = sinceTick
    BY <1>4 DEF Advance
  <2> QED
    BY <1>1, <1>2, <1>3, <1>4, <2>1 DEF Warm, AtBoundary
<1>5. CASE ~Warm
  <2>1. sinceBar' = p[1] /\ sinceTick' = p[2]
    BY <1>5 DEF Advance, LiveFrom, p
  <2> QED
    BY <1>1, <1>2, <1>3, <1>5, <2>1 DEF Warm, AtBoundary, FeedInv
<1> QED
  BY <1>4, <1>5

-----------------------------------------------------------------------------
(* Settled, told, started, stopped.                                        *)

\* The adapter settles what the executor says: a position may go, none comes.
Eases(m, l, v) ==
  /\ Sound(v.model) /\ v.live \in Adapters
  /\ v.model.bar = m.bar
  /\ v.model.holding => m.holding /\ v.model.confirmed = m.confirmed
  /\ v.live.lastMin = l.lastMin /\ v.live.complete = l.complete

LEMMA EasesTimely ==
  ASSUME NEW m, NEW l, NEW v, Eases(m, l, v), Timely(m, l)
  PROVE  Timely(v.model, v.live)
BY DEF Eases, Timely

LEMMA SettledFacts ==
  ASSUME NEW m, Sound(m), NEW l \in Adapters, NEW p \in TradeIds
  PROVE  LET v == Settled(m, l, p)
         IN  /\ Eases(m, l, v)
             /\ v.live.blocked = l.blocked
             /\ v.model.holding => p # 0
             /\ v.live.closing => l.closing /\ p # 0
             /\ p # 0 => v.model = m /\ v.live = l
<1> DEFINE v == Settled(m, l, p)
           cleared == [l EXCEPT !.closing = FALSE, !.urgent = FALSE, !.closeId = 0]
<1>1. /\ cleared \in Adapters /\ ~cleared.closing
      /\ \A g \in {"complete", "blocked", "lastMin"} : cleared[g] = l[g]
  BY NoTradeId DEF Adapters
<1>2. Sound(Flat(m)) /\ ~Flat(m).holding /\ Flat(m).bar = m.bar
  BY FlatSound
<1>3. /\ v.model = IF p = 0 THEN Flat(m) ELSE m
      /\ v.live = IF p = 0 /\ l.closing THEN cleared ELSE l
  BY VerdictFields DEF Settled
<1> HIDE DEF v, cleared
<1>4. /\ Eases(m, l, v)
      /\ v.live.blocked = l.blocked
      /\ v.model.holding => p # 0
      /\ v.live.closing => l.closing /\ p # 0
      /\ p # 0 => v.model = m /\ v.live = l
  BY <1>1, <1>2, <1>3 DEF Eases
<1> QED
  BY <1>4 DEF v

LEMMA ToldFacts ==
  ASSUME NEW m, Sound(m), NEW l \in Adapters
  PROVE  LET v == Told(m, l)
         IN  /\ Eases(m, l, v)
             /\ ~v.model.holding /\ ~v.live.closing /\ v.live.blocked = m.bar
<1> DEFINE v == Told(m, l)
           blocked == [l EXCEPT !.closing = FALSE, !.blocked = m.bar]
<1>1. m.bar \in Time
  BY DEF Sound, Machines, Time
<1>2. /\ blocked \in Adapters /\ ~blocked.closing /\ blocked.blocked = m.bar
      /\ \A g \in {"complete", "lastMin"} : blocked[g] = l[g]
  BY <1>1 DEF Adapters
<1>3. Sound(Flat(m)) /\ ~Flat(m).holding /\ Flat(m).bar = m.bar
  BY FlatSound
<1>4. v.model = Flat(m) /\ v.live = blocked
  BY VerdictFields DEF Told
<1> HIDE DEF v, blocked
<1>5. Eases(m, l, v) /\ ~v.model.holding /\ ~v.live.closing /\ v.live.blocked = m.bar
  BY <1>2, <1>3, <1>4 DEF Eases
<1> QED
  BY <1>5 DEF v

LEMMA StartedFacts ==
  ASSUME NEW m, Sound(m), NEW l \in Adapters, NEW p \in TradeIds
  PROVE  LET v == Started(m, l, p)
         IN  /\ Eases(m, l, v)
             /\ v.live.blocked = l.blocked
             /\ v.model.holding => p # 0
             /\ p # 0 => v.model.holding \/ v.live.closing
             /\ v.live.closing /\ p # 0 => v.live.urgent /\ v.live.closeId = p
<1> DEFINE v == Started(m, l, p)
           leaving == [l EXCEPT !.closing = TRUE, !.urgent = TRUE, !.closeId = p]
<1>1. /\ leaving \in Adapters /\ leaving.closing /\ leaving.urgent /\ leaving.closeId = p
      /\ \A g \in {"complete", "blocked", "lastMin"} : leaving[g] = l[g]
  BY DEF Adapters
<1>2. Sound(Flat(m)) /\ ~Flat(m).holding /\ Flat(m).bar = m.bar
  BY FlatSound
<1>3. /\ v.model = IF p = 0 THEN Flat(m) ELSE m
      /\ v.live = IF p # 0 /\ (l.closing \/ ~m.holding) THEN leaving ELSE l
  BY VerdictFields DEF Started
<1> HIDE DEF v, leaving
<1>4. /\ Eases(m, l, v)
      /\ v.live.blocked = l.blocked
      /\ v.model.holding => p # 0
      /\ p # 0 => v.model.holding \/ v.live.closing
      /\ v.live.closing /\ p # 0 => v.live.urgent /\ v.live.closeId = p
  BY <1>1, <1>2, <1>3 DEF Eases
<1> QED
  BY <1>4 DEF v

-----------------------------------------------------------------------------
(* What is remembered.                                                     *)

LEMMA FollowsMemory ==
  ASSUME TypeOK, MemoryInv(model, live), NEW v, Follows(model, live, v),
         Timely(v.model, v.live), v.model.bar >= model.bar, slot # 0 => mirror = slot
  PROVE  MemoryInv(v.model, v.live)
<1>1. /\ live.blocked \in Int /\ model.bar \in Int /\ v.model.bar \in Int
      /\ v.live.blocked \in Int
  BY DEF TypeOK, Follows, Sound, Adapters, Machines, Time, Never
<1> QED
  BY <1>1 DEF MemoryInv, Follows, Carries

LEMMA SettledMemory ==
  ASSUME NEW m, NEW l \in Adapters, MemoryInv(m, l), slot \in TradeIds
  PROVE  LET w == Settled(m, l, slot) IN MemoryInv(w.model, w.live)
<1> DEFINE w == Settled(m, l, slot)
<1>1. /\ Eases(m, l, w)
      /\ w.live.blocked = l.blocked
      /\ w.live.closing => l.closing /\ slot # 0
      /\ slot # 0 => w.live = l
  BY SettledFacts DEF MemoryInv
<1>2. Timely(w.model, w.live)
  BY <1>1, EasesTimely DEF MemoryInv
<1> HIDE DEF w
<1>3. MemoryInv(w.model, w.live)
  BY <1>1, <1>2 DEF MemoryInv, Eases
<1> QED
  BY <1>3 DEF w

LEMMA TypedMemory ==
  ASSUME TypeOK, FeedInv
  PROVE  /\ model \in Machines /\ live \in Adapters
         /\ saved.model \in Machines /\ saved.live \in Adapters
         /\ model.bar \in Nat /\ saved.model.bar \in Nat
         /\ live.blocked \in Int /\ saved.live.blocked \in Int /\ warnedBar \in Int
         /\ bar \in Nat /\ tick \in 0 .. MinutesPerBar
         /\ sinceBar \in Nat /\ sinceTick \in 0 .. MinutesPerBar
         /\ slot \in TradeIds /\ mirror \in TradeIds
         /\ Warm \in BOOLEAN
BY DEF TypeOK, FeedInv, Machines, Adapters, Time, Never, Warm

LEMMA SnapshotFields ==
  ASSUME NEW m, NEW l, NEW g
  PROVE  /\ Snapshot(m, l, g).model = m /\ Snapshot(m, l, g).live = l
         /\ m \in Machines /\ l \in Adapters /\ g \in BOOLEAN
              => Snapshot(m, l, g) \in [model : Machines, live : Adapters, gap : BOOLEAN]
BY DEF Snapshot

\* The external close is told: the block on this bar is saved with it.
LEMMA DeliverInv == IInv /\ Deliver => IInv'
<1> SUFFICES ASSUME IInv, Deliver PROVE IInv'
  OBVIOUS
<1> DEFINE v == Told(model, live)
<1> USE DEF IInv
<1>1. /\ pc = "deliver" /\ pc' = "retry" /\ slot = 0 /\ mirror' = 0
      /\ model' = v.model /\ live' = v.live /\ saved' = Snapshot(v.model, v.live, gap)
      /\ told' = TRUE /\ warnedBar' = bar
      /\ UNCHANGED <<gap, slot, begun, opened, gone, owed, doubt, hurt>>
      /\ UNCHANGED <<intents, due, fresh, bar, tick, sinceBar, sinceTick>>
  BY DEF Deliver, Land, Goto, feedVars, SlotInv
<1>2. /\ Eases(model, live, v)
      /\ ~v.model.holding /\ ~v.live.closing /\ v.live.blocked = model.bar
  BY TypedMemory, ToldFacts DEF MemoryInv
<1> HIDE DEF v
<1>3. /\ model' \in Machines /\ live' \in Adapters /\ saved'.model = model' /\ saved'.live = live'
      /\ model'.bar = model.bar
      /\ saved' \in [model : Machines, live : Adapters, gap : BOOLEAN]
  BY <1>1, <1>2, SnapshotFields DEF Eases, Sound, TypeOK
<1>4. TypeOK'
  BY <1>1, <1>3, NoTradeId DEF TypeOK, Stages, Time
<1>5. MemoryInv(model, live)'
  <2>1. Timely(v.model, v.live)
    BY <1>2, EasesTimely DEF MemoryInv
  <2> QED
    BY <1>1, <1>2, <2>1, TypedMemory DEF MemoryInv, Eases, ModelInv
<1>6. MemoryInv(saved.model, saved.live)'
  BY <1>3, <1>5 DEF MemoryInv
<1>7. FeedInv'
  BY <1>1, TypedMemory DEF FeedInv, AtBoundary
<1>8. ModelInv'
  BY <1>1, <1>2, <1>3 DEF ModelInv, InStep, AtBoundary, Eases
<1>9. SlotInv'
  BY <1>1, <1>2 DEF SlotInv
<1>10. IntentInv'
  BY <1>1, NoIntents DEF IntentInv, InStep
<1> QED
  BY <1>4, <1>5, <1>6, <1>7, <1>8, <1>9, <1>10

\* The bar ends: what the executor has become is settled and saved.
LEMMA BarEndsInv == IInv /\ BarEnds => IInv'
<1> SUFFICES ASSUME IInv, BarEnds PROVE IInv'
  OBVIOUS
<1> DEFINE v == Settled(model, live, slot)
<1> USE DEF IInv
<1>1. /\ pc = "submit" /\ intents = <<>> /\ pc' = "idle" /\ mirror' = slot
      /\ model' = v.model /\ live' = v.live
      /\ saved' = IF due THEN Snapshot(v.model, v.live, gap) ELSE saved
      /\ due' = FALSE /\ Advance
      /\ UNCHANGED <<gap, slot, begun, told, opened, gone, owed, doubt>>
      /\ UNCHANGED <<intents, fresh, warnedBar, hurt>>
  BY DEF BarEnds, Land, execVars, histVars
<1>2. /\ Eases(model, live, v)
      /\ v.model.holding => slot # 0
      /\ v.live.closing => live.closing /\ slot # 0
      /\ slot # 0 => v.model = model /\ v.live = live
  BY TypedMemory, SettledFacts DEF MemoryInv
<1>3. MemoryInv(v.model, v.live)
  BY TypedMemory, SettledMemory
<1> HIDE DEF v
<1>4. /\ bar' \in Nat /\ tick' \in Nat /\ sinceBar' \in Nat /\ sinceTick' \in Nat
      /\ tick' <= MinutesPerBar /\ sinceTick' <= MinutesPerBar
      /\ bar' < sinceBar' \/ (bar' = sinceBar' /\ tick' <= sinceTick')
      /\ sinceBar <= sinceBar'
      /\ AtBoundary => bar' = bar + 1 /\ bar + 1 <= sinceBar'
      /\ ~AtBoundary => bar' = bar
  BY <1>1, AdvanceFacts
<1>5. \/ saved' = saved
      \/ /\ saved'.model = model' /\ saved'.live = live'
         /\ saved' \in [model : Machines, live : Adapters, gap : BOOLEAN]
  BY <1>1, <1>2, SnapshotFields DEF Eases, Sound, TypeOK
<1>6. TypeOK'
  BY <1>1, <1>2, <1>4, <1>5 DEF TypeOK, Stages, Eases, Sound
<1>7. MemoryInv(model, live)'
  BY <1>1, <1>3 DEF MemoryInv
<1>8. MemoryInv(saved.model, saved.live)'
  BY <1>1, <1>5, <1>7 DEF MemoryInv
<1>9. FeedInv'
  BY <1>1, <1>4, TypedMemory DEF FeedInv
<1>10. ModelInv'
  <2>1. ~InStep' /\ InStep
    BY <1>1 DEF InStep
  <2>2. model'.bar = model.bar /\ live'.complete = live.complete
    BY <1>1, <1>2 DEF Eases
  <2>3. model.bar <= sinceBar' /\ (live.complete => bar' <= model.bar)
    BY <1>4, <2>1, TypedMemory DEF ModelInv
  <2>4. saved.model.bar <= sinceBar'
    BY <1>4, <2>1, TypedMemory DEF ModelInv
  <2> QED
    BY <1>1, <1>5, <2>1, <2>2, <2>3, <2>4 DEF ModelInv
<1>11. SlotInv'
  BY <1>1, <1>2 DEF SlotInv
<1>12. IntentInv'
  BY <1>1, NoIntents DEF IntentInv, InStep
<1> QED
  BY <1>6, <1>7, <1>8, <1>9, <1>10, <1>11, <1>12

-----------------------------------------------------------------------------
(* Stop, downtime, restart.                                                *)

LEMMA StopInv == IInv /\ pc # "down" /\ Stop => IInv'
<1> SUFFICES ASSUME IInv, pc # "down", Stop PROVE IInv'
  OBVIOUS
<1> USE DEF IInv
<1>1. /\ pc' = "down" /\ intents' = <<>> /\ due' = FALSE /\ fresh' = TRUE
      /\ model' = saved.model /\ live' = saved.live /\ gap' = saved.gap /\ mirror' = 0
      /\ owed' = FALSE /\ doubt' = FALSE
      /\ bar' = ReplayStart /\ tick' = 0
      /\ UNCHANGED <<saved, slot, begun, told, opened, gone, warnedBar, hurt>>
  BY DEF Stop, MoveTo, histVars
<1>2. /\ sinceBar' \in Nat /\ sinceTick' \in 0 .. MinutesPerBar
      /\ sinceBar <= sinceBar' /\ saved.model.bar <= sinceBar'
  <2>1. CASE Warm \/ (pc = "idle" /\ ~AtBoundary)
    <3>1. ~(InStep /\ AtBoundary)
      BY <2>1, TypedMemory DEF FeedInv, Warm, InStep
    <3>2. UNCHANGED <<sinceBar, sinceTick>>
      BY <2>1 DEF Stop
    <3> QED
      BY <3>1, <3>2, TypedMemory DEF ModelInv
  <2>2. CASE ~(Warm \/ (pc = "idle" /\ ~AtBoundary))
    <3> DEFINE p == NextMinute(bar, tick)
    <3>1. /\ p[1] \in Nat /\ p[2] \in 0 .. MinutesPerBar - 1
          /\ bar <= p[1] /\ (p[1] = bar => tick <= p[2])
          /\ tick = MinutesPerBar => p[1] = bar + 1
      BY TypedMemory, NextMinuteFacts
    <3>2. sinceBar' = p[1] /\ sinceTick' = p[2]
      BY <2>2 DEF Stop, LiveFrom
    <3> HIDE DEF p
    <3>3. bar = sinceBar
      BY <2>2, TypedMemory DEF FeedInv, Warm
    <3> QED
      BY <3>1, <3>2, <3>3, TypedMemory DEF ModelInv, AtBoundary
  <2> QED
    BY <2>1, <2>2
<1>3. /\ bar' \in Nat /\ bar' <= saved.model.bar
      /\ bar' < saved.model.bar \/ bar' = 0
  BY <1>1, TypedMemory DEF ReplayStart
<1>4. TypeOK'
  <2>1. saved.gap \in BOOLEAN /\ <<>> \in Seq(Intents) /\ tick' \in Nat /\ sinceTick' \in Nat
    BY <1>1, <1>2 DEF TypeOK
  <2> QED
    BY <1>1, <1>2, <1>3, <2>1, NoTradeId, TypedMemory DEF TypeOK, Stages
<1>5. MemoryInv(model, live)' /\ MemoryInv(saved.model, saved.live)'
  BY <1>1 DEF MemoryInv
<1>6. FeedInv'
  BY <1>1, <1>2, <1>3, TypedMemory DEF FeedInv
<1>7. ModelInv'
  BY <1>1, <1>2, <1>3 DEF ModelInv, InStep
<1>8. SlotInv'
  BY <1>1 DEF SlotInv
<1>9. IntentInv'
  BY <1>1, NoIntents DEF IntentInv
<1> QED
  BY <1>4, <1>5, <1>6, <1>7, <1>8, <1>9

LEMMA DowntimeInv == IInv /\ Downtime => IInv'
<1> SUFFICES ASSUME IInv, Downtime PROVE IInv'
  OBVIOUS
<1> DEFINE p == NextMinute(sinceBar, sinceTick)
<1> USE DEF IInv, stratVars, execVars, flowVars, histVars
<1>1. /\ p[1] \in Nat /\ p[2] \in 0 .. MinutesPerBar - 1
      /\ sinceBar <= p[1] /\ (p[1] = sinceBar => sinceTick <= p[2])
  BY TypedMemory, NextMinuteFacts
<1>2. /\ sinceBar' = p[1] /\ sinceTick' = p[2] /\ pc = "down"
      /\ UNCHANGED <<stratVars, saved, execVars, flowVars, bar, tick, histVars>>
  BY DEF Downtime, LiveFrom
<1> HIDE DEF p
<1>3. TypeOK'
  BY <1>1, <1>2 DEF TypeOK
<1>4. MemoryInv(model, live)' /\ MemoryInv(saved.model, saved.live)'
  BY <1>2 DEF MemoryInv
<1>5. FeedInv'
  BY <1>1, <1>2, TypedMemory DEF FeedInv
<1>6. ModelInv'
  BY <1>1, <1>2, TypedMemory DEF ModelInv, InStep
<1>7. SlotInv'
  BY <1>2 DEF SlotInv
<1>8. IntentInv'
  BY <1>2 DEF IntentInv, InStep
<1> QED
  BY <1>3, <1>4, <1>5, <1>6, <1>7, <1>8

LEMMA RestartInv == IInv /\ Restart => IInv'
<1> SUFFICES ASSUME IInv, Restart PROVE IInv'
  OBVIOUS
<1> USE DEF IInv
<1> DEFINE settled == Settled(saved.model, saved.live, slot)
           toldOf == Told(settled.model, settled.live)
           heard == IF told THEN settled ELSE toldOf
           v == Started(heard.model, heard.live, slot)
<1>1. /\ pc = "down" /\ pc' = "idle"
      /\ model' = v.model /\ live' = v.live
      /\ saved' = IF told THEN saved ELSE Snapshot(heard.model, heard.live, gap)
      /\ told' = TRUE /\ mirror' = slot
      /\ owed' = (begun /\ ~gone) /\ doubt' = gone
      /\ UNCHANGED <<gap, slot, begun, opened, gone, intents, due, fresh>>
      /\ UNCHANGED <<bar, tick, sinceBar, sinceTick, warnedBar, hurt>>
  BY DEF Restart, Land, feedVars, histVars
<1>2. Eases(saved.model, saved.live, settled) /\ settled.live.blocked = saved.live.blocked
  BY TypedMemory, SettledFacts DEF MemoryInv
<1> HIDE DEF settled
<1>3. /\ Eases(settled.model, settled.live, toldOf)
      /\ ~toldOf.live.closing /\ toldOf.live.blocked = settled.model.bar
  BY <1>2, ToldFacts DEF Eases
<1> HIDE DEF toldOf
<1>4. /\ Eases(saved.model, saved.live, heard)
      /\ saved.live.blocked <= heard.live.blocked /\ heard.live.blocked <= saved.model.bar
      /\ ~told => ~heard.live.closing
  <2>1. CASE told
    BY <1>2, <2>1, TypedMemory DEF MemoryInv
  <2>2. CASE ~told
    BY <1>2, <1>3, <2>2, TypedMemory DEF MemoryInv, Eases
  <2> QED
    BY <2>1, <2>2
<1> HIDE DEF heard
<1>5. /\ Eases(heard.model, heard.live, v) /\ v.live.blocked = heard.live.blocked
      /\ v.model.holding => slot # 0
      /\ slot # 0 => v.model.holding \/ v.live.closing
      /\ v.live.closing /\ slot # 0 => v.live.urgent /\ v.live.closeId = slot
  <2>1. Sound(heard.model) /\ heard.live \in Adapters
    BY <1>4 DEF Eases
  <2> QED
    BY <2>1, TypedMemory, StartedFacts
<1> HIDE DEF v
<1>6. /\ Timely(heard.model, heard.live) /\ Timely(v.model, v.live)
  BY <1>4, <1>5, EasesTimely DEF MemoryInv
<1>7. told \in BOOLEAN /\ begun \in BOOLEAN /\ gone \in BOOLEAN /\ gap \in BOOLEAN
  BY DEF TypeOK
<1>8. \/ told /\ saved' = saved
      \/ /\ ~told /\ saved'.model = heard.model /\ saved'.live = heard.live
         /\ saved' \in [model : Machines, live : Adapters, gap : BOOLEAN]
  BY <1>1, <1>4, <1>7, SnapshotFields DEF Eases, Sound
<1>9. TypeOK'
  BY <1>1, <1>5, <1>7, <1>8 DEF TypeOK, Stages, Eases, Sound
<1>10. heard.live.blocked \in Int /\ heard.model.bar = saved.model.bar
  BY <1>4 DEF Eases, Adapters, Time, Never
<1>11. MemoryInv(model, live)'
  BY <1>1, <1>4, <1>5, <1>6, <1>10, TypedMemory DEF MemoryInv, Eases
<1>12. MemoryInv(saved.model, saved.live)'
  BY <1>1, <1>4, <1>6, <1>8, <1>10, TypedMemory DEF MemoryInv, Eases
<1>13. FeedInv'
  BY <1>1 DEF FeedInv, AtBoundary
<1>14. ModelInv'
  BY <1>1, <1>4, <1>5, <1>8, <1>10, TypedMemory DEF ModelInv, InStep, Eases
<1>15. SlotInv'
  BY <1>1, <1>5 DEF SlotInv
<1>16. IntentInv'
  BY <1>1, NoIntents DEF IntentInv, InStep
<1> QED
  BY <1>9, <1>11, <1>12, <1>13, <1>14, <1>15, <1>16

-----------------------------------------------------------------------------
(* Replayed items.                                                         *)

\* A replayed item changes the strategy only, and is settled at once.
LEMMA ReplayInv ==
  ASSUME IInv, pc = "idle", Warm, Advance, NEW v, Follows(model, live, v),
         Timely(v.model, v.live),
         v.model.bar = model.bar \/ (AtBoundary /\ v.model.bar = bar + 1 /\ bar = model.bar),
         v.live.complete => bar <= v.model.bar /\ (AtBoundary => bar < v.model.bar),
         Land(Settled(v.model, v.live, slot)), gap' \in BOOLEAN,
         UNCHANGED <<mirror, saved, execVars, flowVars, histVars>>
  PROVE  IInv'
<1> USE DEF IInv
<1> DEFINE w == Settled(v.model, v.live, slot)
<1>1. /\ model' = w.model /\ live' = w.live
      /\ UNCHANGED <<mirror, saved, slot, begun, told, opened, gone, owed, doubt>>
      /\ UNCHANGED <<pc, intents, due, fresh, warnedBar, hurt>>
  BY DEF Land, execVars, flowVars, histVars
<1>2. mirror = slot /\ v.live \in Adapters /\ Sound(v.model) /\ v.model.bar \in Nat
  BY DEF SlotInv, Follows, Sound, Machines
<1>3. MemoryInv(v.model, v.live)
  BY <1>2, TypedMemory, FollowsMemory
<1>4. MemoryInv(w.model, w.live)
  BY <1>2, <1>3, TypedMemory, SettledMemory
<1>5. /\ Eases(v.model, v.live, w)
      /\ w.model.holding => slot # 0
      /\ w.live.closing => v.live.closing /\ slot # 0
      /\ slot # 0 => w.model = v.model /\ w.live = v.live
  BY <1>2, TypedMemory, SettledFacts
<1> HIDE DEF w
<1>6. /\ bar' \in Nat /\ tick' \in Nat /\ sinceBar' \in Nat /\ sinceTick' \in Nat
      /\ tick' <= MinutesPerBar /\ sinceTick' <= MinutesPerBar
      /\ bar' < sinceBar' \/ (bar' = sinceBar' /\ tick' <= sinceTick')
      /\ sinceBar <= sinceBar'
      /\ AtBoundary => bar' = bar + 1 /\ bar + 1 <= sinceBar'
      /\ ~AtBoundary => bar' = bar
  BY AdvanceFacts
<1>7. TypeOK'
  BY <1>1, <1>5, <1>6 DEF TypeOK, Eases, Sound
<1>8. MemoryInv(model, live)' /\ MemoryInv(saved.model, saved.live)'
  BY <1>1, <1>4 DEF MemoryInv
<1>9. FeedInv'
  BY <1>1, <1>6, TypedMemory DEF FeedInv
<1>10. ModelInv'
  <2>1. ~InStep /\ ~InStep'
    BY <1>1 DEF InStep
  <2>2. model'.bar = v.model.bar /\ (live'.complete = v.live.complete)
    BY <1>1, <1>5 DEF Eases
  <2>3. v.model.bar <= sinceBar' /\ saved.model.bar <= sinceBar'
    BY <1>6, <2>1, TypedMemory DEF ModelInv
  <2>4. v.live.complete => bar' <= v.model.bar
    BY <1>2, <1>6, TypedMemory
  <2> QED
    BY <1>1, <2>1, <2>2, <2>3, <2>4 DEF ModelInv
<1>11. SlotInv'
  <2>1. slot # 0 => v.model.holding \/ v.live.closing
    BY DEF SlotInv, Follows, Carries
  <2> QED
    BY <1>1, <1>2, <1>5, <2>1 DEF SlotInv
<1>12. IntentInv'
  <2>1. intents = <<>>
    BY DEF IntentInv, InStep
  <2> QED
    BY <1>1, <2>1, NoIntents DEF IntentInv, InStep
<1> QED
  BY <1>7, <1>8, <1>9, <1>10, <1>11, <1>12

LEMMA IncompleteFollows ==
  ASSUME NEW m, NEW l, NEW i, NEW v, Follows(m, i, v), i.complete => l.complete,
         \A g \in {"closing", "urgent", "closeId", "blocked"} : i[g] = l[g]
  PROVE  Follows(m, l, v)
BY DEF Follows, Carries

LEMMA ReplayMinuteInv ==
  ASSUME IInv, NEW touch \in Touches, ReplayMinute(touch)
  PROVE  IInv'
<1>0. PICK warm \in BOOLEAN, sized \in BOOLEAN : warm = TRUE /\ sized = FALSE
  OBVIOUS
<1> DEFINE l == IF gap THEN Incomplete(live) ELSE live
           v == OnMinute(model, l, touch, warm, sized)
<1> USE DEF IInv
<1>1. /\ pc = "idle" /\ Warm /\ ~AtBoundary /\ Land(Settled(v.model, v.live, slot))
      /\ Advance /\ UNCHANGED <<mirror, gap, saved, execVars, flowVars, histVars>>
  BY <1>0 DEF ReplayMinute
<1>2. /\ l \in Adapters /\ (l.complete => live.complete)
      /\ \A g \in {"closing", "urgent", "closeId", "blocked", "lastMin"} : l[g] = live[g]
  BY TypedMemory, IncompleteFacts
<1> HIDE DEF l
<1>3. Timely(model, l)
  BY <1>2 DEF MemoryInv, Timely
<1>4. /\ tick \in 0 .. MinutesPerBar - 1 /\ (l.complete => bar <= model.bar)
      /\ model.holding => mirror # 0
  BY <1>1, <1>2, TypedMemory DEF AtBoundary, ModelInv, SlotInv
<1>5. /\ Follows(model, l, v) /\ Timely(v.model, v.live) /\ v.model.bar = model.bar
  <2>1. Sound(model) /\ mirror \in TradeIds /\ bar \in Nat
    BY TypedMemory DEF MemoryInv
  <2> QED
    BY <1>2, <1>3, <1>4, <2>1, OnMinuteFollows
<1> HIDE DEF v
<1>6. Follows(model, live, v)
  BY <1>2, <1>5, IncompleteFollows
<1>7. v.live.complete => bar <= v.model.bar
  BY <1>4, <1>5 DEF Follows, Carries
<1>8. gap' \in BOOLEAN
  BY <1>1 DEF TypeOK
<1>9. UNCHANGED <<mirror, saved, execVars, flowVars, histVars>>
  BY <1>1
<1> QED
  BY <1>1, <1>5, <1>6, <1>7, <1>8, <1>9, ReplayInv

LEMMA GapAfterType ==
  ASSUME TypeOK, NEW evidence
  PROVE  GapAfter(evidence) \in BOOLEAN
BY DEF GapAfter, Chained, TypeOK

LEMMA ReplayBoundaryInv ==
  ASSUME IInv, NEW evidence \in Evidence, NEW signalled \in BOOLEAN, NEW move \in Moves,
         NEW inside \in BOOLEAN, NEW vouched \in BOOLEAN,
         ReplayBoundary(evidence, signalled, move, inside, vouched)
  PROVE  IInv'
<1>0. PICK sized \in BOOLEAN : sized = FALSE
  OBVIOUS
<1> DEFINE v == BoundaryVerdict(evidence, signalled, move, inside, vouched, sized)
<1> USE DEF IInv
<1>1. /\ pc = "idle" /\ Warm /\ AtBoundary /\ Land(Settled(v.model, v.live, slot))
      /\ Advance /\ gap' = GapAfter(evidence)
      /\ UNCHANGED <<mirror, saved, execVars, flowVars, histVars>>
  BY <1>0 DEF ReplayBoundary
<1>2. /\ Follows(model, live, v) /\ Timely(v.model, v.live)
      /\ v.model.bar = model.bar \/ (v.model.bar = bar + 1 /\ bar = model.bar)
      /\ v.live.complete => bar < v.model.bar
  <2>1. /\ Sound(model) /\ live \in Adapters /\ Timely(model, live)
        /\ mirror \in TradeIds /\ bar \in Nat /\ Warm \in BOOLEAN
        /\ live.complete => bar <= model.bar
    BY TypedMemory DEF MemoryInv, ModelInv
  <2> QED
    BY <2>1, BoundaryFollows
<1> HIDE DEF v
<1>3. gap' \in BOOLEAN
  BY <1>1, GapAfterType
<1>4. v.live.complete => bar <= v.model.bar /\ (AtBoundary => bar < v.model.bar)
  BY <1>2, TypedMemory DEF Follows, Sound, Machines
<1> QED
  BY <1>1, <1>2, <1>3, <1>4, ReplayInv

-----------------------------------------------------------------------------
(* Live decisions.                                                         *)

\* The verdict of a live item, saved before anything of it is submitted when it
\* says to submit, or when the item lacked evidence.
LEMMA DecidedInv ==
  ASSUME IInv, pc = "decide", NEW v, NEW g \in BOOLEAN, NEW must \in BOOLEAN,
         NEW broken \in BOOLEAN, Decided(v, g, must, broken),
         Follows(model, live, v), Timely(v.model, v.live),
         v.model.bar = model.bar \/ (AtBoundary /\ v.model.bar = bar + 1 /\ bar = model.bar),
         v.live.complete => bar <= v.model.bar /\ (AtBoundary => bar < v.model.bar),
         broken => ~v.live.complete /\ (must \/ g)
  PROVE  IInv'
<1> USE DEF IInv
<1>1. /\ model' = v.model /\ live' = v.live /\ gap' = g /\ intents' = v.out
      /\ due' = (must \/ g \/ fresh \/ v.out # <<>>)
      /\ saved' = IF due' THEN Snapshot(v.model, v.live, g) ELSE saved
      /\ fresh' = FALSE /\ hurt' = (hurt \/ broken) /\ pc' = "submit"
      /\ UNCHANGED <<mirror, slot, begun, told, opened, gone, owed, doubt>>
      /\ UNCHANGED <<bar, tick, sinceBar, sinceTick, warnedBar>>
  BY DEF Decided, Land, execVars, feedVars
<1>2. /\ v.live \in Adapters /\ Sound(v.model) /\ v.model \in Machines /\ v.model.bar \in Nat
      /\ slot # 0 => mirror = slot
  BY DEF SlotInv, Follows, Sound, Machines
<1>3. \A t \in Time : <<EntryAt(t)>> # <<>> /\ <<EntryAt(t)>> \in Seq(Intents)
  BY NoTradeId DEF EntryAt, Intents
<1>4. v.out \in Seq(Intents)
  BY <1>3, ExitsAreIntents DEF Follows, OutFits
<1>5. \/ due' /\ saved' = Snapshot(v.model, v.live, g)
      \/ ~due' /\ saved' = saved /\ ~broken /\ v.out = <<>>
  BY <1>1
<1>6. \/ saved' = saved
      \/ /\ saved'.model = v.model /\ saved'.live = v.live
         /\ saved' \in [model : Machines, live : Adapters, gap : BOOLEAN]
  BY <1>2, <1>5, SnapshotFields
<1>7. TypeOK'
  BY <1>1, <1>2, <1>4, <1>6 DEF TypeOK, Stages
<1>8. MemoryInv(v.model, v.live)
  BY <1>2, TypedMemory, FollowsMemory
<1>9. MemoryInv(model, live)'
  BY <1>1, <1>8 DEF MemoryInv
<1>10. MemoryInv(saved.model, saved.live)'
  <2>1. CASE due'
    BY <1>1, <1>5, <1>9, <2>1, SnapshotFields DEF MemoryInv
  <2>2. CASE ~due'
    BY <1>1, <1>5, <2>2 DEF MemoryInv
  <2> QED
    BY <2>1, <2>2
<1>11. FeedInv'
  BY <1>1 DEF FeedInv
<1>12. ModelInv'
  <2>1. InStep' /\ ~InStep /\ bar = sinceBar /\ (AtBoundary' <=> AtBoundary)
    BY <1>1 DEF InStep, FeedInv, AtBoundary
  <2>2. v.model.bar <= sinceBar \/ (AtBoundary /\ v.model.bar = bar + 1)
    BY <2>1 DEF ModelInv
  <2>3. saved.model.bar <= sinceBar
    BY <2>1 DEF ModelInv
  <2> QED
    BY <1>1, <1>6, <2>1, <2>2, <2>3 DEF ModelInv
<1>13. SlotInv'
  <2>1. slot # 0 => v.model.holding \/ v.live.closing
    BY DEF SlotInv, Follows, Carries
  <2> QED
    BY <1>1, <2>1 DEF SlotInv
<1>14. IntentInv'
  <2>1. CASE v.out \in Seq(Exits)
    BY <1>1, <2>1 DEF IntentInv, InStep
  <2>2. CASE (\E t \in Time : v.out = <<EntryAt(t)>>) /\ EntryReady(v.model, v.live)
    <3>1. v.out # <<>>
      BY <1>3, <2>2
    <3>2. saved'.live = v.live
      BY <1>5, <3>1, SnapshotFields
    <3> QED
      BY <1>1, <2>2, <3>2 DEF IntentInv, InStep, EntryReady
  <2> QED
    BY <2>1, <2>2 DEF Follows, OutFits
<1> QED
  BY <1>7, <1>9, <1>10, <1>11, <1>12, <1>13, <1>14

LEMMA UrgentExitType ==
  ASSUME NEW l \in Adapters, NEW warm
  PROVE  /\ UrgentExit(l, warm) \in Seq(Exits)
         /\ mirror = 0 => UrgentExit(l, warm) = <<>>
<1>1. ExitOf(l.closeId) \in Exits
  BY DEF Exits, Adapters
<1> QED
  BY <1>1 DEF UrgentExit

LEMMA OnMinuteIsVerdict ==
  ASSUME NEW m, NEW l, NEW touch, NEW warm, NEW sized \in BOOLEAN
  PROVE  LET v == OnMinute(m, l, touch, warm, sized)
         IN  v = [model |-> v.model, live |-> v.live, out |-> v.out]
<1> DEFINE n == [l EXCEPT !.lastMin = Minute(bar, tick)]
           signal == IF bar = m.bar THEN MinuteSignal(m, Minute(bar, tick), touch) ELSE "none"
           v == OnMinute(m, l, touch, warm, sized)
<1>1. \/ \E a, b, c : v = Verdict(a, b, c)
      \/ v = Act(m, n, signal, Minute(bar, tick) + 1, warm, sized)
  BY DEF OnMinute
<1> HIDE DEF v, n, signal
<1>2. v = [model |-> v.model, live |-> v.live, out |-> v.out]
  BY <1>1, ActIsVerdict DEF Verdict
<1> QED
  BY <1>2 DEF v

LEMMA DecideMinuteInv ==
  ASSUME IInv, NEW touch \in Touches, NEW sized \in BOOLEAN, NEW hole \in BOOLEAN,
         NEW daily \in BOOLEAN, DecideMinute(touch, sized, hole, daily)
  PROVE  IInv'
<1>0. PICK warm \in BOOLEAN : warm = FALSE
  OBVIOUS
<1> DEFINE l == IF gap \/ hole THEN Incomplete(live) ELSE live
           v == OnMinute(model, l, touch, warm, sized)
           u == UrgentExit(live, warm)
           w == [v EXCEPT !.out = u \o v.out]
<1> USE DEF IInv
<1>1. pc = "decide" /\ ~AtBoundary /\ Decided(w, gap \/ hole, daily, hole)
  BY <1>0 DEF DecideMinute
<1>2. /\ l \in Adapters /\ (l.complete => live.complete) /\ (hole => ~l.complete)
      /\ \A g \in {"closing", "urgent", "closeId", "blocked", "lastMin"} : l[g] = live[g]
  BY TypedMemory, IncompleteFacts
<1> HIDE DEF l
<1>3. Timely(model, l)
  BY <1>2 DEF MemoryInv, Timely
<1>4. /\ tick \in 0 .. MinutesPerBar - 1 /\ (l.complete => bar <= model.bar)
      /\ model.holding => mirror # 0
  BY <1>1, <1>2, TypedMemory DEF AtBoundary, ModelInv, SlotInv
<1>5. /\ Follows(model, l, v) /\ Timely(v.model, v.live) /\ v.model.bar = model.bar
      /\ mirror # 0 => v.out \in Seq(Exits)
      /\ v = [model |-> v.model, live |-> v.live, out |-> v.out]
  <2>1. Sound(model) /\ mirror \in TradeIds /\ bar \in Nat
    BY TypedMemory DEF MemoryInv
  <2> QED
    BY <1>2, <1>3, <1>4, <2>1, OnMinuteFollows, OnMinuteIsVerdict
<1>6. u \in Seq(Exits) /\ (mirror = 0 => u = <<>>)
  BY TypedMemory, UrgentExitType
<1> HIDE DEF v, u
<1>7. w.model = v.model /\ w.live = v.live /\ w.out = u \o v.out
  BY <1>5
<1> HIDE DEF w
<1>8. OutFits(w)
  <2>1. CASE v.out \in Seq(Exits)
    <3>1. w.out \in Seq(Exits)
      BY <1>6, <1>7, <2>1, ConcatProperties
    <3> QED
      BY <3>1 DEF OutFits
  <2>2. CASE v.out \notin Seq(Exits)
    <3>1. PICK t \in Time : v.out = <<EntryAt(t)>>
      BY <1>5, <2>2 DEF Follows, OutFits
    <3>2. v.out \in Seq({EntryAt(t)})
      BY <3>1
    <3>3. u = <<>>
      BY <1>5, <1>6, <2>2
    <3>4. w.out = v.out
      BY <1>7, <3>2, <3>3, ConcatEmptySeq
    <3> QED
      BY <1>5, <1>7, <3>4 DEF Follows, OutFits
  <2> QED
    BY <2>1, <2>2
<1>9. Follows(model, l, w)
  BY <1>5, <1>7, <1>8 DEF Follows, Carries
<1>10. Follows(model, live, w)
  BY <1>2, <1>9, IncompleteFollows
<1>11. /\ Timely(w.model, w.live) /\ w.model.bar = model.bar
       /\ w.live.complete => l.complete
  BY <1>5, <1>7, <1>9 DEF Follows, Carries
<1>12. gap \/ hole \in BOOLEAN
  BY DEF TypeOK
<1>13. /\ w.live.complete => bar <= w.model.bar /\ (AtBoundary => bar < w.model.bar)
       /\ hole => ~w.live.complete /\ (daily \/ gap \/ hole)
  BY <1>1, <1>2, <1>4, <1>11
<1> DEFINE g == gap \/ hole
<1>14. g \in BOOLEAN /\ Decided(w, g, daily, hole) /\ (hole => g)
  BY <1>1, <1>12
<1> HIDE DEF g
<1> QED
  BY <1>1, <1>10, <1>11, <1>13, <1>14, DecidedInv

LEMMA DecideBoundaryInv ==
  ASSUME IInv, NEW evidence \in Evidence, NEW signalled \in BOOLEAN, NEW move \in Moves,
         NEW inside \in BOOLEAN, NEW vouched \in BOOLEAN, NEW sized \in BOOLEAN,
         DecideBoundary(evidence, signalled, move, inside, vouched, sized)
  PROVE  IInv'
<1> DEFINE v == BoundaryVerdict(evidence, signalled, move, inside, vouched, sized)
           g == GapAfter(evidence)
           broken == evidence # "none"
<1> USE DEF IInv
<1>1. pc = "decide" /\ AtBoundary /\ Decided(v, g, TRUE, broken)
  BY DEF DecideBoundary
<1>2. /\ Follows(model, live, v) /\ Timely(v.model, v.live)
      /\ v.model.bar = model.bar \/ (v.model.bar = bar + 1 /\ bar = model.bar)
      /\ v.live.complete => bar < v.model.bar
      /\ broken /\ bar >= model.bar => ~v.live.complete
  <2>1. /\ Sound(model) /\ live \in Adapters /\ Timely(model, live)
        /\ mirror \in TradeIds /\ bar \in Nat /\ Warm \in BOOLEAN
        /\ live.complete => bar <= model.bar
    BY TypedMemory DEF MemoryInv, ModelInv
  <2> QED
    BY <2>1, BoundaryFollows
<1> HIDE DEF v
<1>3. g \in BOOLEAN /\ broken \in BOOLEAN
  BY GapAfterType
<1> HIDE DEF g, broken
<1>4. bar >= model.bar
  BY <1>1, TypedMemory DEF ModelInv, FeedInv, InStep
<1>5. v.live.complete => bar <= v.model.bar /\ (AtBoundary => bar < v.model.bar)
  BY <1>2, TypedMemory DEF Follows, Sound, Machines
<1> QED
  BY <1>1, <1>2, <1>3, <1>4, <1>5, DecidedInv

-----------------------------------------------------------------------------
(* The theorems.                                                           *)

LEMMA InitIInv == Init => IInv
<1> SUFFICES ASSUME Init PROVE IInv
  OBVIOUS
<1>0. /\ model \in FlatMachines /\ live = NewAdapter /\ gap = FALSE /\ gap \in BOOLEAN
      /\ saved = Snapshot(model, live, gap)
      /\ pc = "down" /\ intents = <<>> /\ slot = 0 /\ mirror = 0 /\ opened = 0
      /\ bar = 0 /\ tick = 0 /\ sinceBar = 0 /\ sinceTick = 0
      /\ warnedBar = Never /\ hurt = FALSE /\ told = TRUE
  BY DEF Init
<1>1. Sound(model) /\ model.bar = 0 /\ ~model.holding
  <2>1. Fresh \in Machines /\ Fresh.state = "idle" /\ Fresh.bar = 0 /\ Fresh.holding = FALSE
    BY DEF Fresh, Machines, Time, Never
  <2>3. \/ model = Fresh
        \/ \E p \in BOOLEAN : model = [Fresh EXCEPT !.state = "seek", !.pulled = p]
        \/ \E e, t \in BOOLEAN :
             model = [Fresh EXCEPT !.state = "active", !.confirmed = 0, !.checked = TRUE,
                                    !.expanding = e, !.tradeable = t]
    <3> DEFINE Actives(e, B) ==
                 {[Fresh EXCEPT !.state = "active", !.confirmed = 0, !.checked = TRUE,
                                !.expanding = e, !.tradeable = t] : t \in B}
               Seeking(B) == {[Fresh EXCEPT !.state = "seek", !.pulled = p] : p \in B}
               Active(B) == UNION {Actives(e, B) : e \in B}
    <3>1. FlatMachines = {Fresh} \cup Seeking(BOOLEAN) \cup Active(BOOLEAN)
      BY Zenon DEF FlatMachines
    <3>2. ASSUME model \in Seeking(BOOLEAN)
          PROVE  \E p \in BOOLEAN : model = [Fresh EXCEPT !.state = "seek", !.pulled = p]
      BY <3>2, Zenon
    <3>3. ASSUME NEW e \in BOOLEAN, model \in Actives(e, BOOLEAN)
          PROVE  \E t \in BOOLEAN :
                   model = [Fresh EXCEPT !.state = "active", !.confirmed = 0,
                                         !.checked = TRUE, !.expanding = e, !.tradeable = t]
      BY <3>3, Zenon
    <3>4. ASSUME model \in Active(BOOLEAN)
          PROVE  \E e \in BOOLEAN : model \in Actives(e, BOOLEAN)
      BY <3>4, Zenon
    <3> HIDE DEF Seeking, Actives, Active
    <3>5. model = Fresh \/ model \in Seeking(BOOLEAN) \/ model \in Active(BOOLEAN)
      BY <1>0, <3>1
    <3> QED
      BY <3>2, <3>3, <3>4, <3>5, Zenon
  <2>4. CASE model = Fresh
    BY <2>1, <2>4 DEF Sound
  <2>5. ASSUME NEW p \in BOOLEAN, model = [Fresh EXCEPT !.state = "seek", !.pulled = p]
        PROVE  Sound(model) /\ model.bar = 0 /\ ~model.holding
    <3>1. model \in Machines /\ model.state = "seek" /\ model.bar = 0 /\ ~model.holding
      BY <2>1, <2>5 DEF Machines
    <3> QED
      BY <3>1 DEF Sound
  <2>6. ASSUME NEW e \in BOOLEAN, NEW t \in BOOLEAN,
               model = [Fresh EXCEPT !.state = "active", !.confirmed = 0, !.checked = TRUE,
                                      !.expanding = e, !.tradeable = t]
        PROVE  Sound(model) /\ model.bar = 0 /\ ~model.holding
    <3>1. model \in Machines
      BY <2>1, <2>6 DEF Machines, Time
    <3>2. model.confirmed = 0 /\ model.bar = 0 /\ ~model.holding
      BY <2>1, <2>6 DEF Machines
    <3> QED
      BY <3>1, <3>2 DEF Sound
  <2> QED
    BY <2>3, <2>4, <2>5, <2>6
<1>2. live \in Adapters /\ live.lastMin = Never /\ live.blocked = Never /\ ~live.closing
  BY <1>0, NoTradeId DEF NewAdapter, Adapters, Time
<1>3. /\ saved.model = model /\ saved.live = live
      /\ saved \in [model : Machines, live : Adapters, gap : BOOLEAN]
  <2>1. model \in Machines
    BY <1>1 DEF Sound
  <2> QED
    BY <1>0, <1>2, <2>1, SnapshotFields
<1>4. Timely(model, live)
  <2>1. Minute(0 + 1, 0) \in Nat
    <3>1. 0 + 1 \in Nat /\ 0 \in Nat
      OBVIOUS
    <3> QED
      BY <3>1, MinuteType
  <2> QED
    BY <1>1, <1>2, <2>1 DEF Timely, Never
<1>5. TypeOK
  <2>1. model \in Machines
    BY <1>1 DEF Sound
  <2> QED
    <3>1. Never \in Time /\ <<>> \in Seq(Intents)
      BY DEF Time
    <3>2. begun = FALSE /\ gone = FALSE /\ owed = FALSE /\ doubt = FALSE /\ due = FALSE
          /\ fresh = TRUE
      BY DEF Init
    <3>3. pc \in Stages /\ intents \in Seq(Intents) /\ warnedBar \in Time
      BY <1>0, <3>1 DEF Stages
    <3> QED
      BY <1>0, <1>2, <1>3, <2>1, <3>2, <3>3, NoTradeId DEF TypeOK
<1>6. MemoryInv(model, live)
  BY <1>0, <1>1, <1>2, <1>4 DEF MemoryInv, Never
<1>7. MemoryInv(saved.model, saved.live)
  BY <1>3, <1>6
<1>8. FeedInv
  BY <1>0 DEF FeedInv, Never
<1>9. ModelInv /\ SlotInv
  BY <1>0, <1>1, <1>3 DEF ModelInv, SlotInv, InStep
<1>10. IntentInv
  BY <1>0, NoIntents DEF IntentInv
<1> QED
  BY <1>5, <1>6, <1>7, <1>8, <1>9, <1>10 DEF IInv

LEMMA NextIInv == IInv /\ [Next]_vars => IInv'
<1> SUFFICES ASSUME IInv, [Next]_vars PROVE IInv'
  OBVIOUS
<1>1. CASE Restart
  BY <1>1, RestartInv
<1>2. CASE Replay
  BY <1>2, ReplayMinuteInv, ReplayBoundaryInv DEF Replay
<1>3. CASE Decide
  BY <1>3, DecideMinuteInv, DecideBoundaryInv DEF Decide
<1>4. CASE Crash
  BY <1>4, StopInv DEF Crash
<1>5. CASE Downtime
  BY <1>5, DowntimeInv
<1>6. CASE VenueCloses
  BY <1>6, VenueInv
<1>7. CASE LiveBar
  <2>1. CASE BarArrives
    BY <2>1, BarArrivesInv
  <2>2. CASE VenueUnclear \/ VenueAgrees \/ ClosureBooked \/ NothingOwed
    BY <2>2, VenueInv
  <2>3. CASE Deliver
    BY <2>3, DeliverInv
  <2>4. CASE RetryIdle \/ RetryAccepted \/ (\E x \in BOOLEAN : RetryFails(x))
    BY <2>4, RetryInv
  <2>5. CASE ExitIdle \/ ExitAccepted \/ (\E x \in BOOLEAN : ExitFails(x))
    BY <2>5, ExitInv
  <2>6. CASE ExitRaises
    BY <2>6, StopInv DEF ExitRaises, NextIntent
  <2>7. CASE EntryFills
    BY <2>7, EntryFillsInv
  <2>8. CASE EntryRecorded
    BY <2>8, EntryRecordedInv
  <2>9. CASE \E u \in BOOLEAN : EntryNotFilled(u)
    BY <2>9, EntryNotFilledInv
  <2>10. CASE BarEnds
    BY <2>10, BarEndsInv
  <2> QED
    BY <1>7, <2>1, <2>2, <2>3, <2>4, <2>5, <2>6, <2>7, <2>8, <2>9, <2>10
       DEF LiveBar, Submit
<1>8. CASE UNCHANGED vars
  <2> USE <1>8 DEF vars, stratVars, execVars, flowVars, feedVars, histVars
  <2>1. TypeOK'
    BY DEF IInv, TypeOK
  <2>2. MemoryInv(model, live)' /\ MemoryInv(saved.model, saved.live)'
    BY DEF IInv, MemoryInv
  <2>3. FeedInv' /\ ModelInv'
    BY DEF IInv, FeedInv, ModelInv, InStep, AtBoundary
  <2>4. SlotInv' /\ IntentInv'
    BY DEF IInv, SlotInv, IntentInv, InStep, EntryReady
  <2> QED
    BY <2>1, <2>2, <2>3, <2>4 DEF IInv
<1> QED
  BY <1>1, <1>2, <1>3, <1>4, <1>5, <1>6, <1>7, <1>8 DEF Next

\* The inductive invariant holds.
THEOREM Invariance == Spec => []IInv
BY InitIInv, NextIInv, PTL DEF Spec

\* A position that the strategy holds can leave: its channel is confirmed,
\* intact and younger than the age limit, in the model's bars and on the clock
\* (impulse_range.py, open_bar; impulse_range_live.py, _frozen_exit).
THEOREM HeldCanAlwaysLeave == Spec => []HeldCanLeave
<1>1. IInv => HeldCanLeave
  <2> SUFFICES ASSUME IInv PROVE HeldCanLeave
    OBVIOUS
  <2>1. Sound(model) /\ Timely(model, live) /\ TypeOK
    BY DEF IInv, MemoryInv
  <2>2. HeldHasTarget
    BY <2>1 DEF HeldHasTarget, Sound, Trading, Machines, Time, Never
  <2>3. NeverHeldPastExpiry
    BY <2>1 DEF NeverHeldPastExpiry, Timely
  <2> QED
    BY <2>1, <2>2, <2>3 DEF HeldCanLeave
<1> QED
  BY <1>1, Invariance, PTL

\* Whatever a stop interrupted, between two bars a trade of the slot is modelled
\* or leaving, the model holds nothing else, and a close in progress names the
\* trade (on_startup, reconcile_execution_state, _close_trade_id).
THEOREM OwnedIsAlwaysManaged == Spec => []OwnedIsManaged
<1>1. IInv => OwnedIsManaged
  BY DEF IInv, SlotInv, MemoryInv, OwnedIsManaged
<1> QED
  BY <1>1, Invariance, PTL

\* No entry in the 4h bar of a told external close, and none after a live bar
\* that lacked evidence, in this run or a later one (_entry_blocked_bar,
\* model_complete, and the snapshot before submission).
THEOREM BlocksAreRespected == Spec => EntriesRespectBlocks
<1>1. IInv /\ [Next]_vars =>
        [opened' # opened => ~hurt /\ warnedBar # (IF AtBoundary THEN bar + 1 ELSE bar)]_vars
  <2> SUFFICES ASSUME IInv, Next, opened' # opened
               PROVE  ~hurt /\ warnedBar # (IF AtBoundary THEN bar + 1 ELSE bar)
    OBVIOUS
  <2> USE DEF IInv
  <2>1. EntryFills
    <3> USE DEF execVars, flowVars, Goto, vars
    <3>1. CASE Restart \/ Crash \/ Downtime \/ VenueCloses
      BY <3>1 DEF Restart, Crash, Stop, Downtime, VenueCloses
    <3>2. CASE Replay
      BY <3>2 DEF Replay, ReplayMinute, ReplayBoundary
    <3>3. CASE Decide
      <4>1. ASSUME NEW v, NEW g, NEW must, NEW broken, Decided(v, g, must, broken)
            PROVE  opened' = opened
        BY <4>1 DEF Decided
      <4> QED
        BY <3>3, <4>1 DEF Decide, DecideMinute, DecideBoundary
    <3>4. CASE BarArrives \/ VenueUnclear \/ VenueAgrees \/ ClosureBooked \/ Deliver \/ NothingOwed
      BY <3>4 DEF BarArrives, VenueUnclear, VenueAgrees, ClosureBooked, Deliver, NothingOwed
    <3>5. CASE RetryIdle \/ RetryAccepted \/ (\E x \in BOOLEAN : RetryFails(x))
      BY <3>5, CloseStep DEF RetryIdle, RetryAccepted, RetryFails
    <3>6. CASE ExitIdle \/ ExitAccepted \/ (\E x \in BOOLEAN : ExitFails(x))
      BY <3>6, CloseStep DEF ExitIdle, ExitAccepted, ExitFails
    <3>7. CASE ExitRaises \/ EntryRecorded \/ (\E u \in BOOLEAN : EntryNotFilled(u)) \/ BarEnds
      BY <3>7 DEF ExitRaises, Stop, EntryRecorded, EntryNotFilled, BarEnds
    <3> QED
      BY <3>1, <3>2, <3>3, <3>4, <3>5, <3>6, <3>7 DEF Next, LiveBar, Submit
  <2>2. EntryReady(model, live) /\ pc = "submit"
    BY <2>1, NextEntry DEF EntryFills
  <2>3. ~hurt /\ warnedBar <= live.blocked /\ live.blocked <= model.bar
        /\ live.blocked # model.bar /\ bar <= model.bar
    BY <2>2 DEF EntryReady, MemoryInv, ModelInv
  <2>4. bar = sinceBar /\ warnedBar <= bar
    BY <2>2 DEF FeedInv
  <2>5. ~AtBoundary => model.bar <= bar
    BY <2>4 DEF ModelInv
  <2> QED
    BY <2>3, <2>4, <2>5, TypedMemory
<1> QED
  BY <1>1, Invariance, PTL DEF Spec, EntriesRespectBlocks

=============================================================================
