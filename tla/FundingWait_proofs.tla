-------------------------- MODULE FundingWait_proofs --------------------------
(***************************************************************************)
(* FundedOnEvidence and ModelIsSound for every period, day, window and     *)
(* bound.  The inductive invariant IInv ties the campaign model to the     *)
(* bars that are held behind it, to the feed and to the snapshot.  What a  *)
(* replay of held bars does is proved bar by bar, along the fold, by least *)
(* counterexample.                                                         *)
(***************************************************************************)
EXTENDS FundingWait, FiniteSetTheorems, WellFoundedInduction, TLAPS

-----------------------------------------------------------------------------
(* The inductive invariant.                                                *)

\* Where a bar stands in the feed.
At(b) == IF b.daily THEN 2 * b.t ELSE 2 * b.t + 1

\* What a model that claims to be complete has been judged on; l: a candle of the running day
\* is missing, which only a campaign still running survives.
Claim(m, l) ==
  m.complete => m.inTurn /\ (m.unbroken \/ (l /\ m.origin = "historical"))

\* While the campaign runs no settlement is paid before the bar it belongs to is taken in.
InTime(m) ==
  m.origin = "historical" =>
    m.funded <= Boundary(m.priced) \/ m.funded <= Boundary(m.day)

\* The daily bars do not run ahead of the minutes.
Abreast(m) == m.complete /\ m.origin = "historical" => m.day <= m.priced + 1

\* A campaign that waits for a settlement has taken in all that is due before it.
Paused(m, l) ==
  m.origin = "historical" /\ m.complete /\ ~m.available /\ ~l =>
    m.funded + Period <= m.priced + 1

OnTheGrid(m) == m.funded % Period = 0 /\ m.day % Period = 0 /\ m.day >= Period

Sound(m, l) == Claim(m, l) /\ InTime(m) /\ Abreast(m) /\ Paused(m, l) /\ OnTheGrid(m)

HeldOf(w) == IF w = NoWait THEN <<>> ELSE w.bars

\* No minute is missing before the one of number t, which comes after the first n of the bars.
Reaches(m, bars, n, t) ==
  \/ t <= m.priced + 1
  \/ \E j \in DOMAIN bars : j <= n /\ ~bars[j].daily /\ t <= bars[j].t + 1

\* The held bars are those of the feed, in its order, after the days taken in; a day ends
\* among them only after its last minute, and not with a minute missing before them.
InOrder(m, bars, p) ==
  /\ \A i \in DOMAIN bars : 2 * m.day < At(bars[i]) /\ At(bars[i]) <= p
  /\ \A i, j \in DOMAIN bars : i < j => At(bars[i]) <= At(bars[j])
  /\ \A i \in DOMAIN bars : bars[i].daily =>
       /\ bars[i].t % Period = 0
       /\ m.complete => m.unbroken
       /\ Reaches(m, bars, i - 1, bars[i].t)

Halted(m, w) == w # NoWait => m.origin = "historical" /\ ~m.available

\* Unless a candle is missing, the bar at p follows the last minute judged or held.
Follows(m, bars, p, l) ==
  ~l /\ m.origin = "historical" /\ m.complete => Reaches(m, bars, Len(bars), p \div 2)

\* The bar at p is not taken in, and a daily one stands on a settlement.
Ahead(m, p) == p > 2 * m.day /\ (p % 2 = 0 => (p \div 2) % Period = 0)

\* Before the first bar the process is where its snapshot is.
Resumes ==
  pc = "down" => model = saved.model /\ pos = ReplayStart(model) /\ wait = NoWait /\ ~lost

Justified(a) == a.sound /\ a.at <= a.bar + LateWindow
InHand == pc = "submit" => decision \in Entries /\ Justified(decision)

IInv ==
  /\ TypeOK /\ Sound(model, lost) /\ Sound(saved.model, FALSE)
  /\ InOrder(model, HeldOf(wait), pos) /\ Halted(model, wait)
  /\ Follows(model, HeldOf(wait), pos, lost) /\ Ahead(model, pos)
  /\ Resumes /\ InHand /\ FundedOnEvidence

-----------------------------------------------------------------------------
(* Settlements and days.                                                   *)

LEMMA Division ==
  ASSUME NEW t \in Nat, NEW s \in Nat \ {0}
  PROVE  t = s * (t \div s) + (t % s) /\ t \div s \in Nat /\ t % s \in 0 .. s - 1
OBVIOUS

LEMMA Multiple ==
  ASSUME NEW q \in Nat, NEW s \in Nat \ {0}
  PROVE  (s * q) % s = 0
<1>1. ASSUME NEW r \in 0 .. s - 1 PROVE (s * q + r) % s = r
  OBVIOUS
<1>2. 0 \in 0 .. s - 1 /\ s * q + 0 = s * q
  OBVIOUS
<1>3. (s * q + 0) % s = 0
  BY <1>1, <1>2
<1> QED
  BY <1>2, <1>3

LEMMA MultiplesApart ==
  ASSUME NEW a \in Nat, NEW b \in Nat, NEW s \in Nat \ {0}, a % s = 0, b % s = 0, a < b
  PROVE  a + s <= b
<1>1. ASSUME NEW q \in Nat, NEW r \in Nat, s * q < s * r
      PROVE  s * q + s <= s * r
  <2>1. q < r
    BY <1>1
  <2>2. q + 1 <= r
    BY <2>1
  <2>3. s * (q + 1) <= s * r
    BY <2>2
  <2> QED
    BY <2>3
<1>2. /\ a = s * (a \div s) /\ b = s * (b \div s)
      /\ a \div s \in Nat /\ b \div s \in Nat
  BY Division
<1> QED
  BY <1>1, <1>2

\* A settlement is the last one that is due at t.
LEMMA BoundaryFacts ==
  ASSUME NEW t \in Nat
  PROVE  /\ Boundary(t) \in Nat /\ Boundary(t) % Period = 0
         /\ Boundary(t) <= t /\ t < Boundary(t) + Period
         /\ t % Period = 0 => Boundary(t) = t
<1>1. Period \in Nat \ {0}
  BY ClockType
<1>2. t = Period * (t \div Period) + (t % Period) /\ t \div Period \in Nat
      /\ t % Period \in 0 .. Period - 1
  BY <1>1, Division
<1>3. Boundary(t) = Period * (t \div Period)
  BY <1>1, <1>2 DEF Boundary
<1>4. Boundary(t) % Period = 0
  BY <1>1, <1>2, <1>3, Multiple
<1>5. Boundary(t) = t - (t % Period) /\ t % Period \in Nat /\ t % Period < Period
  BY <1>1, <1>2 DEF Boundary
<1>6. Boundary(t) <= t /\ t < Boundary(t) + Period /\ (t % Period = 0 => Boundary(t) = t)
  BY <1>1, <1>5
<1>7. Boundary(t) \in Nat
  BY <1>1, <1>2, <1>3
<1> QED
  BY <1>4, <1>6, <1>7

LEMMA BoundaryMonotone ==
  ASSUME NEW s \in Nat, NEW t \in Nat, s <= t
  PROVE  Boundary(s) <= Boundary(t)
<1> DEFINE a == Boundary(s)
           b == Boundary(t)
<1>1. a \in Nat /\ a % Period = 0 /\ a <= s
  BY BoundaryFacts
<1>2. b \in Nat /\ b % Period = 0 /\ t < b + Period
  BY BoundaryFacts
<1>3. Period \in Nat \ {0}
  BY ClockType
<1> HIDE DEF a, b
<1>4. CASE b < a
  <2>1. b + Period <= a
    BY <1>1, <1>2, <1>3, <1>4, MultiplesApart
  <2> QED
    BY <1>1, <1>2, <1>3, <2>1
<1>5. CASE a <= b
  BY <1>5 DEF a, b
<1> QED
  BY <1>1, <1>2, <1>4, <1>5

\* A whole number of settlements makes a day.
LEMMA DayFacts ==
  /\ Day \in Nat \ {0} /\ Day >= Period /\ Day % Period = 0
  /\ \A t \in Nat : t % Day = 0 => t % Period = 0
<1>1. Period \in Nat \ {0} /\ DayPeriods \in Nat \ {0}
  BY ClockType
<1>2. Day \in Nat /\ Day = Period * DayPeriods
  BY <1>1 DEF Day
<1>3. Day >= Period
  <2>1. ASSUME NEW x \in Nat, NEW y \in Nat, y >= 1 PROVE x * y >= x
    BY <2>1
  <2> QED
    BY <1>1, <1>2, <2>1
<1>4. Day \in Nat \ {0}
  BY <1>1, <1>2, <1>3
<1>5. Day % Period = 0
  BY <1>1, <1>2, Multiple
<1>6. ASSUME NEW t \in Nat, t % Day = 0 PROVE t % Period = 0
  <2> DEFINE q == t \div Day
  <2>1. t = Day * q + (t % Day) /\ q \in Nat
    BY <1>4, Division
  <2> HIDE DEF q
  <2>2. t = Day * q
    BY <1>2, <1>6, <2>1
  <2>3. t = Period * (DayPeriods * q) /\ DayPeriods * q \in Nat
    BY <1>1, <1>2, <2>1, <2>2
  <2> QED
    BY <1>1, <2>3, Multiple
<1> QED
  BY <1>3, <1>4, <1>5, <1>6

\* The settlement before one that is not the first.
LEMMA GridBelow ==
  ASSUME NEW d \in Nat, d % Period = 0, d >= Period
  PROVE  d - Period \in Nat /\ (d - Period) % Period = 0
<1> DEFINE k == d \div Period
<1>1. Period \in Nat \ {0}
  BY ClockType
<1>2. d = Period * k + (d % Period) /\ k \in Nat
  BY <1>1, Division
<1> HIDE DEF k
<1>3. d = Period * k
  BY <1>1, <1>2
<1>4. k # 0
  BY <1>1, <1>3
<1>5. k - 1 \in Nat /\ d - Period = Period * (k - 1)
  BY <1>1, <1>2, <1>3, <1>4
<1>6. (Period * (k - 1)) % Period = 0
  BY <1>1, <1>5, Multiple
<1>7. d - Period \in Nat
  BY <1>1
<1> QED
  BY <1>5, <1>6, <1>7

-----------------------------------------------------------------------------
(* A replay is a fold over the bars.  Induction is by least counterexample. *)

\* A set of natural numbers has a least one.
LEMMA LeastNat ==
  ASSUME NEW T, T \subseteq Nat, T # {}
  PROVE  \E x \in T : \A y \in T : x <= y
<1> DEFINE R == OpToRel(<, Nat)
<1>1. \E x \in T : \A y \in T : ~ (<<y, x>> \in R)
  BY NatLessThanWellFounded, WFMin
<1>2. ASSUME NEW x \in Nat, NEW y \in Nat, ~(<<y, x>> \in R)
      PROVE  x <= y
  <2>1. y < x <=> <<y, x>> \in R
    <3>1. R = {ss \in Nat \X Nat : ss[1] < ss[2]}
      BY DEF OpToRel
    <3>2. <<y, x>> \in Nat \X Nat /\ <<y, x>>[1] = y /\ <<y, x>>[2] = x
      OBVIOUS
    <3> QED
      BY <3>1, <3>2
  <2> HIDE DEF R
  <2> QED
    BY <1>2, <2>1
<1> QED
  BY <1>1, <1>2

\* Before the first bar, and after the bars whose places are in T.
Begin(m) == [model |-> [m EXCEPT !.available = TRUE], last |-> m.priced, act |-> 0, ok |-> TRUE]
After(g, m, bars, now, c, T) ==
  IF T = {} THEN Begin(m) ELSE ReplayStep(g[T \ {Max(T)}], bars[Max(T)], now, c)
IsReplay(g, m, bars, now, c) ==
  g = [T \in SUBSET DOMAIN bars |-> After(g, m, bars, now, c, T)]

LEMMA ReplayedUnfolds ==
  ASSUME NEW m, NEW bars, NEW now, NEW c
  PROVE  Replayed(m, bars, now, c) =
           (CHOOSE g : IsReplay(g, m, bars, now, c))[DOMAIN bars]
BY DEF Replayed, FoldLeft, MapThenFoldSet, IsReplay, After, Begin

LEMMA MaxFacts ==
  ASSUME NEW n \in Nat, NEW T \in SUBSET (1 .. n), T # {}
  PROVE  /\ Max(T) \in T /\ \A k \in T : k <= Max(T)
         /\ Cardinality(T) \in Nat /\ Cardinality(T \ {Max(T)}) = Cardinality(T) - 1
         /\ T \ {Max(T)} \in SUBSET (1 .. n) /\ IsFiniteSet(T)
<1> DEFINE R == {k \in 0 .. n : n - k \in T}
<1>1. R \subseteq Nat
  OBVIOUS
<1>2. R # {}
  <2>1. PICK x \in T : TRUE
    OBVIOUS
  <2>2. n - x \in R
    OBVIOUS
  <2> QED
    BY <2>2
<1> HIDE DEF R
<1>3. PICK k \in R : \A j \in R : k <= j
  BY <1>1, <1>2, LeastNat
<1> DEFINE x == n - k
<1>4. x \in T
  BY <1>3 DEF R
<1>5. ASSUME NEW y \in T PROVE x >= y
  <2>1. n - y \in R
    BY DEF R
  <2>2. k <= n - y /\ k \in Nat /\ y \in Nat
    BY <1>1, <1>3, <2>1
  <2> QED
    BY <2>2
<1> HIDE DEF x
<1>6. Max(T) \in T /\ \A y \in T : Max(T) >= y
  <2>1. \E z \in T : \A y \in T : z >= y
    BY <1>4, <1>5
  <2> QED
    BY <2>1 DEF Max
<1>7. IsFiniteSet(T) /\ Cardinality(T) \in Nat
  <2>1. IsFiniteSet(1 .. n)
    BY FS_Interval
  <2>2. IsFiniteSet(T)
    BY <2>1, FS_Subset
  <2> QED
    BY <2>2, FS_CardinalityType
<1>8. Cardinality(T \ {Max(T)}) = Cardinality(T) - 1
  BY <1>6, <1>7, FS_RemoveElement
<1> DEFINE a == Max(T)
<1>9. \A y \in T : y <= a
  <2> SUFFICES ASSUME NEW y \in T PROVE y <= a
    OBVIOUS
  <2>1. a \in 1 .. n /\ y \in 1 .. n /\ a >= y
    BY <1>6
  <2> HIDE DEF a
  <2> QED
    BY <2>1
<1>10. Max(T) \in T /\ \A y \in T : y <= Max(T)
  BY <1>6, <1>9
<1>11. T \ {Max(T)} \in SUBSET (1 .. n)
  OBVIOUS
<1> QED
  BY <1>7, <1>8, <1>10, <1>11

LEMMA ReplayExists ==
  ASSUME NEW m, NEW S, NEW bars \in Seq(S), NEW now, NEW c
  PROVE  \E g : IsReplay(g, m, bars, now, c)
<1> DEFINE n == Len(bars)
           Ps == SUBSET (1 .. n)
           Aft(g, T) == After(g, m, bars, now, c, T)
           Up(g, k) == \A T \in Ps : Cardinality(T) <= k => g[T] = Aft(g, T)
           bad == {k \in Nat : ~ \E g : Up(g, k)}
<1>0. n \in Nat /\ DOMAIN bars = 1 .. n
  OBVIOUS
<1>1. ASSUME NEW T \in Ps
      PROVE  /\ IsFiniteSet(T) /\ Cardinality(T) \in Nat
             /\ T # {} => T \ {Max(T)} \in Ps /\ Cardinality(T \ {Max(T)}) = Cardinality(T) - 1
  <2>1. IsFiniteSet(1 .. n)
    BY <1>0, FS_Interval
  <2>2. IsFiniteSet(T)
    BY <2>1, FS_Subset
  <2>3. Cardinality(T) \in Nat
    BY <2>2, FS_CardinalityType
  <2>4. ASSUME T # {}
        PROVE  T \ {Max(T)} \in Ps /\ Cardinality(T \ {Max(T)}) = Cardinality(T) - 1
    BY <1>0, <2>4, MaxFacts
  <2> QED
    BY <2>2, <2>3, <2>4
<1> HIDE DEF n
<1>2. ASSUME NEW k \in Nat, k \in bad, \A j \in bad : k <= j
      PROVE  FALSE
  <2>1. CASE k = 0
    <3> DEFINE g == [T \in Ps |-> Begin(m)]
    <3>1. ASSUME NEW T \in Ps, Cardinality(T) <= 0 PROVE g[T] = Aft(g, T)
      <4>1. T = {}
        <5>1. IsFiniteSet(T) /\ Cardinality(T) \in Nat
          BY <1>1
        <5>2. Cardinality(T) = 0
          BY <3>1, <5>1
        <5> QED
          BY <5>1, <5>2, FS_EmptySet
      <4> QED
        BY <4>1 DEF After
    <3>2. Up(g, k)
      BY <2>1, <3>1
    <3> HIDE DEF g, Up
    <3> QED
      BY <1>2, <3>2
  <2>2. CASE k # 0
    <3>1. k - 1 \in Nat /\ k - 1 \notin bad
      BY <1>2, <2>2
    <3>2. PICK g : Up(g, k - 1)
      BY <3>1
    <3> DEFINE h == [T \in Ps |-> IF Cardinality(T) <= k - 1 THEN g[T] ELSE Aft(g, T)]
    <3>3. ASSUME NEW T \in Ps, Cardinality(T) <= k PROVE h[T] = Aft(h, T)
      <4>1. h[T] = Aft(g, T)
        BY <3>2
      <4>2. CASE T = {}
        BY <4>1, <4>2 DEF After
      <4>3. CASE T # {}
        <5>1. h[T \ {Max(T)}] = g[T \ {Max(T)}]
          <6>1. Cardinality(T) \in Nat /\ T \ {Max(T)} \in Ps
                /\ Cardinality(T \ {Max(T)}) = Cardinality(T) - 1
            BY <1>1, <4>3
          <6>2. Cardinality(T \ {Max(T)}) <= k - 1
            BY <1>2, <3>3, <6>1
          <6> QED
            BY <6>1, <6>2
        <5> HIDE DEF h
        <5> QED
          BY <4>1, <4>3, <5>1 DEF After
      <4> QED
        BY <4>2, <4>3
    <3>4. Up(h, k)
      BY <3>3
    <3> HIDE DEF h, Up
    <3> QED
      BY <1>2, <3>4
  <2> QED
    BY <2>1, <2>2
<1>3. bad = {}
  <2> SUFFICES ASSUME bad # {} PROVE FALSE
    OBVIOUS
  <2>1. bad \subseteq Nat
    OBVIOUS
  <2> HIDE DEF bad
  <2> QED
    BY <1>2, <2>1, LeastNat
<1>5. PICK g : Up(g, n)
  BY <1>0, <1>3
<1>6. ASSUME NEW T \in Ps PROVE Cardinality(T) <= n
  <2>1. IsFiniteSet(1 .. n) /\ Cardinality(1 .. n) = n
    BY <1>0, FS_Interval
  <2>2. T \subseteq 1 .. n
    OBVIOUS
  <2> QED
    BY <2>1, <2>2, FS_Subset
<1> DEFINE h == [T \in Ps |-> Aft(g, T)]
<1>7. ASSUME NEW T \in Ps PROVE h[T] = g[T]
  BY <1>5, <1>6
<1>8. ASSUME NEW T \in Ps PROVE h[T] = Aft(h, T)
  <2>1. T # {} => h[T \ {Max(T)}] = g[T \ {Max(T)}]
    BY <1>1, <1>7
  <2>2. h[T] = Aft(g, T)
    OBVIOUS
  <2> HIDE DEF h
  <2> QED
    BY <2>1, <2>2 DEF After
<1>9. IsReplay(h, m, bars, now, c)
  BY <1>0, <1>8 DEF IsReplay
<1> QED
  BY <1>9

\* The replay bar by bar: h[i] is how far it has come after the first i.
LEMMA ReplayRuns ==
  ASSUME NEW m, NEW S, NEW bars \in Seq(S), NEW now, NEW c
  PROVE  \E h : /\ h[0] = Begin(m)
                /\ \A i \in 1 .. Len(bars) : h[i] = ReplayStep(h[i - 1], bars[i], now, c)
                /\ h[Len(bars)] = Replayed(m, bars, now, c)
<1> DEFINE n == Len(bars)
           g == CHOOSE f : IsReplay(f, m, bars, now, c)
           h == [i \in 0 .. n |-> g[1 .. i]]
<1>0. n \in Nat /\ DOMAIN bars = 1 .. n
  OBVIOUS
<1>1. IsReplay(g, m, bars, now, c) /\ Replayed(m, bars, now, c) = g[1 .. n]
  BY <1>0, ReplayExists, ReplayedUnfolds
<1> HIDE DEF g, n
<1>2. \A T \in SUBSET (1 .. n) : g[T] = After(g, m, bars, now, c, T)
  BY <1>0, <1>1 DEF IsReplay
<1>3. h[0] = Begin(m)
  <2>1. 0 \in 0 .. n /\ 1 .. 0 = {} /\ {} \in SUBSET (1 .. n)
    BY <1>0
  <2>2. g[{}] = Begin(m)
    BY <1>2, <2>1 DEF After
  <2> QED
    BY <2>1, <2>2
<1>4. ASSUME NEW i \in 1 .. n PROVE h[i] = ReplayStep(h[i - 1], bars[i], now, c)
  <2>1. 1 .. i \in SUBSET (1 .. n) /\ 1 .. i # {} /\ i \in 0 .. n /\ i - 1 \in 0 .. n
    BY <1>0
  <2>2. Max(1 .. i) = i
    <3>1. Max(1 .. i) \in 1 .. i /\ \A k \in 1 .. i : k <= Max(1 .. i)
      BY <1>0, <2>1, MaxFacts
    <3> DEFINE x == Max(1 .. i)
    <3> HIDE DEF x
    <3>2. x \in 1 .. i /\ i <= x
      BY <1>0, <3>1 DEF x
    <3> QED
      BY <1>0, <3>2 DEF x
  <2>3. (1 .. i) \ {i} = 1 .. (i - 1)
    BY <1>0
  <2>4. g[1 .. i] = ReplayStep(g[1 .. (i - 1)], bars[i], now, c)
    BY <1>2, <2>1, <2>2, <2>3 DEF After
  <2> QED
    BY <2>1, <2>4
<1>5. h[n] = g[1 .. n]
  BY <1>0
<1> HIDE DEF h
<1> QED
  BY <1>1, <1>3, <1>4, <1>5 DEF n
-----------------------------------------------------------------------------
(* The feed.                                                               *)

LEMMA Halves ==
  ASSUME NEW t \in Nat
  PROVE  /\ (2 * t) \div 2 = t /\ (2 * t) % 2 = 0
         /\ (2 * t + 1) \div 2 = t /\ (2 * t + 1) % 2 = 1
OBVIOUS

LEMMA Half ==
  ASSUME NEW p \in Nat
  PROVE  /\ p \div 2 \in Nat
         /\ p % 2 = 0 => p = 2 * (p \div 2)
         /\ p % 2 # 0 => p = 2 * (p \div 2) + 1
OBVIOUS

\* The feed goes on by at most a minute, and a daily bar stands on a settlement.
LEMMA NextPosFacts ==
  ASSUME NEW p \in Nat
  PROVE  /\ NextPos(p) \in Nat /\ NextPos(p) >= p
         /\ NextPos(p) \div 2 <= p \div 2 + 1
         /\ p % 2 = 0 => NextPos(p) > p /\ NextPos(p) \div 2 = p \div 2
         /\ NextPos(p) % 2 = 0 => (NextPos(p) \div 2) % Period = 0
<1> DEFINE h == p \div 2
           t == h + 1
<1>0. /\ h \in Nat
      /\ p % 2 = 0 => p = 2 * h
      /\ p % 2 # 0 => p = 2 * h + 1
  BY Half
<1>1. CASE p % 2 = 0
  <2>1. NextPos(p) = 2 * h + 1
    BY <1>0, <1>1 DEF NextPos
  <2> HIDE DEF h
  <2>2. (2 * h + 1) \div 2 = h /\ (2 * h + 1) % 2 = 1
    BY <1>0, Halves
  <2> QED
    BY <1>0, <1>1, <2>1, <2>2 DEF h
<1>2. CASE p % 2 # 0
  <2>1. \/ NextPos(p) = 2 * t /\ t % Day = 0
        \/ NextPos(p) = 2 * t + 1
        \/ NextPos(p) = p
    BY <1>2 DEF NextPos, NextMinutePos
  <2>2. t \in Nat /\ t = h + 1 /\ p = 2 * h + 1
    BY <1>0, <1>2
  <2> HIDE DEF h, t
  <2>3. CASE NextPos(p) = 2 * t /\ t % Day = 0
    <3>1. (2 * t) \div 2 = t /\ t % Period = 0
      BY <2>2, <2>3, Halves, DayFacts
    <3>2. NextPos(p) >= p /\ NextPos(p) \in Nat
      BY <1>0, <2>2, <2>3
    <3>3. NextPos(p) \div 2 = h + 1
      BY <2>2, <2>3, <3>1
    <3>4. NextPos(p) \div 2 <= h + 1
      BY <1>0, <3>3
    <3> QED
      BY <1>2, <2>2, <2>3, <3>1, <3>2, <3>4 DEF h
  <2>4. CASE NextPos(p) = 2 * t + 1
    <3>1. (2 * t + 1) \div 2 = t /\ (2 * t + 1) % 2 = 1
      BY <2>2, Halves
    <3>2. NextPos(p) >= p /\ NextPos(p) \in Nat
      BY <1>0, <2>2, <2>4
    <3>4. NextPos(p) \div 2 <= h + 1
      BY <1>0, <2>2, <2>4, <3>1
    <3> QED
      BY <1>2, <2>4, <3>1, <3>2, <3>4 DEF h
  <2>5. CASE NextPos(p) = p
    <3>1. p \div 2 = h /\ p \div 2 <= h + 1
      BY <1>0 DEF h
    <3> QED
      BY <1>2, <2>5, <3>1, <1>0 DEF h
  <2> QED
    BY <2>1, <2>3, <2>4, <2>5
<1> QED
  BY <1>1, <1>2

\* The bar in hand is the one at pos.
LEMMA BarFacts ==
  ASSUME pos \in Nat, since \in Nat
  PROVE  /\ Bar \in Bars /\ Bar.t = pos \div 2 /\ Bar.t \in Nat
         /\ Bar.daily <=> pos % 2 = 0
         /\ Bar.daily \in BOOLEAN /\ Bar.warm \in BOOLEAN
         /\ At(Bar) = pos
<1>1. pos \div 2 \in Nat
  BY Half
<1> DEFINE e == pos % 2 = 0
           w == pos < since
           h == pos \div 2
<1>4. e \in BOOLEAN /\ w \in BOOLEAN /\ h \in Nat
  BY <1>1
<1>5. Bar = [t |-> h, daily |-> e, warm |-> w]
  BY DEF Bar
<1> HIDE DEF e, w, h
<1>6. Bar \in Bars /\ Bar.t = h /\ Bar.daily = e
  BY <1>4, <1>5 DEF Bars
<1>2. Bar \in Bars /\ Bar.t = pos \div 2 /\ (Bar.daily <=> pos % 2 = 0)
      /\ Bar.daily \in BOOLEAN /\ Bar.warm \in BOOLEAN
  BY <1>6 DEF h, e, Bars
<1>3. At(Bar) = pos
  BY <1>2, Half DEF At
<1> QED
  BY <1>1, <1>2, <1>3

-----------------------------------------------------------------------------
(* One bar of the campaign.                                                *)

\* Paying the settlements up to a bar puts the campaign in turn for it.
LEMMA SettledFacts ==
  ASSUME NEW m \in Models, NEW t \in Nat, m.funded % Period = 0
  PROVE  /\ Settled(m, Boundary(t)) \in Models
         /\ Settled(m, Boundary(t)) = [m EXCEPT !.funded = Settled(m, Boundary(t)).funded]
         /\ \/ m.funded >= Boundary(t) /\ Settled(m, Boundary(t)).funded = m.funded
            \/ m.funded < Boundary(t) /\ Settled(m, Boundary(t)).funded = Boundary(t)
         /\ Settled(m, Boundary(t)).funded % Period = 0
<1> DEFINE a == IF m.funded < Boundary(t) THEN Boundary(t) ELSE m.funded
<1>1. Boundary(t) \in Nat /\ Boundary(t) % Period = 0 /\ m.funded \in Nat
  BY BoundaryFacts DEF Models
<1>2. /\ a \in Nat /\ a % Period = 0
      /\ \/ m.funded >= Boundary(t) /\ a = m.funded
         \/ m.funded < Boundary(t) /\ a = Boundary(t)
  <2> DEFINE d == Boundary(t)
             n == m.funded
  <2>1. d \in Nat /\ d % Period = 0 /\ n \in Nat /\ n % Period = 0
    BY <1>1
  <2>2. a = IF n < d THEN d ELSE n
    OBVIOUS
  <2> HIDE DEF a, d, n
  <2>4. (n < d /\ a = d) \/ (n >= d /\ a = n)
    BY <2>1, <2>2
  <2>5. a \in Nat /\ a % Period = 0
    <3>1. CASE a = d
      BY <2>1, <3>1
    <3>2. CASE a = n
      BY <2>1, <3>2
    <3> QED
      BY <2>4, <3>1, <3>2
  <2>3. (n >= d /\ a = n) \/ (n < d /\ a = d)
    BY <2>4
  <2> QED
    <3>1. \/ m.funded >= Boundary(t) /\ a = m.funded
          \/ m.funded < Boundary(t) /\ a = Boundary(t)
      BY <2>3 DEF d, n
    <3> QED
      BY <2>5, <3>1
<1>3. Settled(m, Boundary(t)) = [m EXCEPT !.funded = a]
  BY DEF Settled
<1> HIDE DEF a
<1>4. [m EXCEPT !.funded = a] \in Models /\ [m EXCEPT !.funded = a].funded = a
  BY <1>2 DEF Models
<1> QED
  BY <1>2, <1>3, <1>4

\* A minute that is judged: just the settlements due are paid, and a campaign that runs on
\* has missed a minute only if it had before.
LEMMA MinuteKeeps ==
  ASSUME NEW m \in Models, NEW t \in Nat, NEW ends \in Nat, NEW r,
         r = Observe(Settled(m, Boundary(t)), t, ends),
         m.complete, m.available, m.inTurn, m.funded % Period = 0,
         InTime(m), Abreast(m), m.day <= t
  PROVE  /\ r \in Models /\ r.complete /\ r.available /\ r.inTurn /\ r.day = m.day
         /\ r.funded % Period = 0 /\ InTime(r) /\ Abreast(r)
         /\ r.origin = "historical" =>
              m.origin = "historical" /\ r.priced >= m.priced /\ r.priced >= t
         /\ m.origin # "historical" =>
              r.origin = m.origin /\ r.priced = m.priced /\ r.unbroken = m.unbroken
         /\ r.unbroken \/ r.unbroken = m.unbroken
              \/ (r.origin = "historical" /\ t > m.priced + 1)
         /\ r.origin # "historical" /\ m.origin = "historical" => r.unbroken
<1> DEFINE f == Settled(m, Boundary(t))
<1>1. /\ f \in Models /\ f = [m EXCEPT !.funded = f.funded] /\ f.funded % Period = 0
      /\ \/ m.funded >= Boundary(t) /\ f.funded = m.funded
         \/ m.funded < Boundary(t) /\ f.funded = Boundary(t)
  BY SettledFacts
<1>2. r = Observe(f, t, ends)
  OBVIOUS
<1> HIDE DEF f
<1>3. /\ f.origin = m.origin /\ f.day = m.day /\ f.priced = m.priced /\ f.complete = m.complete
      /\ f.available = m.available /\ f.inTurn = m.inTurn /\ f.unbroken = m.unbroken
  BY <1>1 DEF Models
<1>4. /\ m.day \in Nat /\ m.priced \in Nat /\ m.funded \in Nat /\ f.funded \in Nat
      /\ m.unbroken \in BOOLEAN /\ Boundary(t) \in Nat
  BY <1>1, BoundaryFacts DEF Models
<1>5. CASE m.origin # "historical"
  <2>1. r = f
    BY <1>2, <1>3, <1>5 DEF Observe
  <2> QED
    BY <1>1, <1>3, <1>5, <2>1 DEF InTime, Abreast
<1>6. CASE m.origin = "historical" /\ t < m.priced
  <2>1. r = f
    BY <1>2, <1>3, <1>6 DEF Observe
  <2>2. Boundary(t) <= Boundary(m.priced) /\ Boundary(m.priced) \in Nat /\ Boundary(m.day) \in Nat
    BY <1>4, <1>6, BoundaryMonotone, BoundaryFacts
  <2>3. InTime(r)
    BY <1>1, <1>3, <1>4, <2>1, <2>2 DEF InTime
  <2>4. Abreast(r)
    BY <1>3, <2>1 DEF Abreast
  <2>5. r.priced >= m.priced /\ r.priced >= t
    BY <1>3, <1>4, <1>6, <2>1
  <2> QED
    BY <1>1, <1>3, <1>6, <2>1, <2>3, <2>4, <2>5
<1>7. CASE m.origin = "historical" /\ ~(t < m.priced)
  <2> DEFINE i == f.inTurn /\ f.funded = Boundary(t)
             u == (f.unbroken /\ t <= f.priced + 1) \/ t = ends
             o == IF t = ends THEN "none" ELSE f.origin
  <2>1. Boundary(m.priced) <= Boundary(t) /\ Boundary(m.day) <= Boundary(t)
        /\ Boundary(m.priced) \in Nat /\ Boundary(m.day) \in Nat
    BY <1>4, <1>7, BoundaryMonotone, BoundaryFacts
  <2>2. f.funded = Boundary(t)
    BY <1>1, <1>4, <1>7, <2>1 DEF InTime
  <2>3. i /\ i \in BOOLEAN
    BY <1>3, <2>2
  <2>4. /\ u \in BOOLEAN /\ o \in {"historical", "none"} /\ (o # "historical" => u)
        /\ u \/ u = m.unbroken \/ t > m.priced + 1
    BY <1>3, <1>4, <1>7
  <2>5. r = [f EXCEPT !.priced = t, !.inTurn = i, !.unbroken = u, !.origin = o]
    BY <1>2, <1>3, <1>7 DEF Observe
  <2> HIDE DEF i, u, o
  <2>6. r \in Models
    BY <1>1, <2>3, <2>4, <2>5 DEF Models
  <2>7. /\ r.priced = t /\ r.inTurn = i /\ r.unbroken = u /\ r.origin = o
        /\ r.day = f.day /\ r.funded = f.funded /\ r.complete = f.complete
        /\ r.available = f.available
    BY <1>1, <2>5 DEF Models
  <2>8. InTime(r)
    BY <1>4, <2>2, <2>7 DEF InTime
  <2>9. Abreast(r)
    BY <1>3, <1>4, <2>7 DEF Abreast
  <2>10. r.complete /\ r.available /\ r.inTurn /\ r.day = m.day /\ r.funded % Period = 0
    BY <1>1, <1>3, <2>3, <2>7
  <2>11. r.priced >= m.priced /\ r.priced >= t
    BY <1>4, <1>7, <2>7
  <2>12. /\ r.unbroken \/ r.unbroken = m.unbroken \/ (r.origin = "historical" /\ t > m.priced + 1)
         /\ r.origin # "historical" => r.unbroken
    BY <2>4, <2>7
  <2> QED
    BY <1>7, <2>6, <2>8, <2>9, <2>10, <2>11, <2>12
<1> QED
  BY <1>5, <1>6, <1>7

\* A daily bar that is judged: an entry on it is timely and makes the campaign our own.
LEMMA DailyKeeps ==
  ASSUME NEW m \in Models, NEW t \in Nat, NEW acting \in BOOLEAN, NEW verdict, NEW s,
         s = TakeDaily(Settled(m, Boundary(t)), t, acting, verdict),
         m.complete, m.available, m.inTurn, m.funded % Period = 0,
         m.day % Period = 0, m.day >= Period, t % Period = 0,
         InTime(m), Abreast(m), m.origin = "historical" => t <= m.priced + 1
  PROVE  /\ s.model \in Models /\ s.model.complete /\ s.model.available /\ s.model.inTurn
         /\ s.model.unbroken = m.unbroken /\ s.model.priced = m.priced
         /\ s.model.funded % Period = 0 /\ InTime(s.model) /\ Abreast(s.model)
         /\ s.model.day % Period = 0 /\ s.model.day >= Period
         /\ s.model.day = m.day \/ s.model.day = t
         /\ s.model.origin = "historical" => m.origin = "historical"
         /\ m.origin = "own" => s.model.origin = "own"
         /\ s.act = 0 \/ (s.act = t /\ acting /\ s.model.origin = "own")
<1> DEFINE f == Settled(m, Boundary(t))
<1>1. /\ f \in Models /\ f = [m EXCEPT !.funded = f.funded] /\ f.funded % Period = 0
      /\ \/ m.funded >= Boundary(t) /\ f.funded = m.funded
         \/ m.funded < Boundary(t) /\ f.funded = Boundary(t)
  BY SettledFacts
<1>2. s = TakeDaily(f, t, acting, verdict)
  OBVIOUS
<1> HIDE DEF f
<1>3. /\ f.origin = m.origin /\ f.day = m.day /\ f.priced = m.priced /\ f.complete = m.complete
      /\ f.available = m.available /\ f.inTurn = m.inTurn /\ f.unbroken = m.unbroken
  BY <1>1 DEF Models
<1>4. /\ m.day \in Nat /\ m.priced \in Nat /\ m.funded \in Nat /\ f.funded \in Nat
      /\ m.unbroken \in BOOLEAN /\ Boundary(t) \in Nat /\ Period \in Nat
  BY <1>1, BoundaryFacts, ClockType DEF Models
<1>5. Boundary(m.priced) \in Nat /\ Boundary(m.day) \in Nat
  BY <1>4, BoundaryFacts
<1>6. CASE t <= m.day
  <2>1. s.model = f /\ s.act = 0
    BY <1>2, <1>3, <1>6 DEF TakeDaily, Seen
  <2>2. Boundary(t) <= Boundary(m.day)
    BY <1>4, <1>6, BoundaryMonotone
  <2>3. InTime(f)
    BY <1>1, <1>3, <1>4, <1>5, <2>2 DEF InTime
  <2>4. Abreast(f)
    BY <1>3 DEF Abreast
  <2> QED
    BY <1>1, <1>3, <2>1, <2>3, <2>4
<1>7. CASE ~(t <= m.day)
  <2> DEFINE enters == verdict = "enter" /\ acting /\ f.complete /\ f.available
             o == IF f.origin = "own" THEN "own"
                  ELSE IF verdict = "stay" THEN f.origin ELSE IF enters THEN "own" ELSE "none"
             r == [f EXCEPT !.day = t, !.origin = o]
  <2>1. s.model = r
    <3>1. CASE f.origin = "own"
      <4>1. [f EXCEPT !.day = t] = r
        BY <1>1, <3>1 DEF Models
      <4> QED
        BY <1>2, <1>3, <1>7, <3>1, <4>1 DEF TakeDaily, Seen
    <3>2. CASE f.origin # "own"
      BY <1>2, <1>3, <1>7, <3>2 DEF TakeDaily, Seen
    <3> QED
      BY <3>1, <3>2
  <2>2. s.act = 0 \/ (s.act = t /\ acting /\ enters /\ f.origin # "own")
    BY <1>2, <1>3, <1>7 DEF TakeDaily, Seen
  <2>3. o \in {"historical", "own", "none"}
    BY <1>1 DEF Models
  <2>4. /\ o = "historical" => m.origin = "historical"
        /\ m.origin = "own" => o = "own"
        /\ enters /\ f.origin # "own" => o = "own"
    BY <1>3
  <2>5. r \in Models
    BY <1>1, <2>3 DEF Models
  <2>6. /\ r.day = t /\ r.origin = o /\ r.priced = f.priced /\ r.funded = f.funded
        /\ r.complete = f.complete /\ r.available = f.available /\ r.inTurn = f.inTurn
        /\ r.unbroken = f.unbroken
    BY <1>1 DEF Models
  <2> HIDE DEF enters, o, r
  <2>7. Boundary(m.day) <= Boundary(t)
    BY <1>4, <1>7, BoundaryMonotone
  <2>8. InTime(r)
    <3> SUFFICES ASSUME m.origin = "historical"
                 PROVE  f.funded <= Boundary(m.priced) \/ f.funded <= Boundary(t)
      BY <1>3, <2>4, <2>6 DEF InTime
    <3> QED
      BY <1>1, <1>4, <1>5, <2>7 DEF InTime
  <2>9. Abreast(r)
    BY <1>3, <2>4, <2>6 DEF Abreast
  <2>10. t >= Period
    BY <1>4, <1>7
  <2>11. s.act = 0 \/ (s.act = t /\ acting /\ r.origin = "own")
    BY <2>2, <2>4, <2>6
  <2> QED
    BY <1>1, <1>3, <2>1, <2>4, <2>5, <2>6, <2>8, <2>9, <2>10, <2>11
<1> QED
  BY <1>6, <1>7

-----------------------------------------------------------------------------
(* A replay of held bars.                                                  *)

\* How far a replay is founded after i bars.
Founded(n, m, bars, p, i) ==
  /\ n.complete /\ n.available /\ n.inTurn
  /\ n.funded % Period = 0 /\ n.day % Period = 0 /\ n.day >= Period
  /\ InTime(n) /\ Abreast(n)
  /\ 2 * n.day <= p
  /\ \A j \in DOMAIN bars : i < j => 2 * n.day <= At(bars[j])
  /\ n.origin = "historical" =>
       /\ m.priced <= n.priced
       /\ \A j \in DOMAIN bars : j <= i /\ ~bars[j].daily => bars[j].t <= n.priced
  /\ n.unbroken \/ (n.origin = "historical" /\ ~m.unbroken)

Carries(v, m, bars, p, now, i) ==
  /\ v \in [model : Models, last : Nat, act : Nat, ok : BOOLEAN]
  /\ v.ok =>
       /\ Founded(v.model, m, bars, p, i)
       /\ v.model.origin = "historical" => v.last <= v.model.priced
       /\ v.act # 0 => v.model.origin = "own" /\ now <= v.act + LateWindow

\* One more minute of the replay.
LEMMA FoundedByMinute ==
  ASSUME NEW n \in Models, NEW m \in Models, NEW bars \in Seq(Bars), NEW p \in Nat,
         NEW i \in DOMAIN bars, NEW ends \in Nat, NEW r, NEW t, t = bars[i].t,
         ~bars[i].daily, r = Observe(Settled(n, Boundary(t)), t, ends),
         Founded(n, m, bars, p, i - 1), n.origin = "historical" => t <= n.priced + 1
  PROVE  /\ r \in Models /\ Founded(r, m, bars, p, i)
         /\ r.origin = "historical" => t <= r.priced
         /\ n.origin # "historical" => r.origin = n.origin
<1>0. i \in Nat /\ bars[i] \in Bars /\ t \in Nat /\ At(bars[i]) = 2 * t + 1 /\ i - 1 < i
  <2>1. i \in Nat /\ i - 1 < i /\ bars[i] \in Bars
    OBVIOUS
  <2>2. t \in Nat
    BY <2>1 DEF Bars
  <2>3. At(bars[i]) = 2 * t + 1
    BY DEF At
  <2> QED
    BY <2>1, <2>2, <2>3
<1>1. /\ n.complete /\ n.available /\ n.inTurn
      /\ n.funded % Period = 0 /\ n.day % Period = 0 /\ n.day >= Period
      /\ InTime(n) /\ Abreast(n) /\ 2 * n.day <= p
      /\ \A j \in DOMAIN bars : i - 1 < j => 2 * n.day <= At(bars[j])
      /\ n.origin = "historical" =>
           /\ m.priced <= n.priced
           /\ \A j \in DOMAIN bars : j <= i - 1 /\ ~bars[j].daily => bars[j].t <= n.priced
      /\ n.unbroken \/ (n.origin = "historical" /\ ~m.unbroken)
  BY DEF Founded
<1>2. n.day \in Nat /\ n.priced \in Nat /\ m.priced \in Nat
  BY DEF Models
<1>3. n.day <= t
  <2>1. 2 * n.day <= 2 * t + 1
    BY <1>0, <1>1
  <2> QED
    BY <1>0, <1>2, <2>1
<1>4. /\ r \in Models /\ r.complete /\ r.available /\ r.inTurn /\ r.day = n.day
      /\ r.funded % Period = 0 /\ InTime(r) /\ Abreast(r)
      /\ r.origin = "historical" =>
           n.origin = "historical" /\ r.priced >= n.priced /\ r.priced >= t
      /\ n.origin # "historical" =>
           r.origin = n.origin /\ r.priced = n.priced /\ r.unbroken = n.unbroken
      /\ r.unbroken \/ r.unbroken = n.unbroken
           \/ (r.origin = "historical" /\ t > n.priced + 1)
      /\ r.origin # "historical" /\ n.origin = "historical" => r.unbroken
  <2>1. t \in Nat
    BY <1>0
  <2>2. n.complete /\ n.available /\ n.inTurn /\ n.funded % Period = 0 /\ InTime(n) /\ Abreast(n)
    BY <1>1
  <2> QED
    BY <1>3, <2>1, <2>2, MinuteKeeps
<1>5. r.priced \in Nat
  BY <1>4 DEF Models
<1>6. \A j \in DOMAIN bars : i < j => 2 * r.day <= At(bars[j])
  <2> SUFFICES ASSUME NEW j \in DOMAIN bars, i < j PROVE 2 * n.day <= At(bars[j])
    BY <1>4
  <2>1. j \in Nat /\ i - 1 < j
    BY <1>0
  <2> QED
    BY <1>1, <2>1
<1>7. ASSUME r.origin = "historical"
      PROVE  /\ m.priced <= r.priced
             /\ \A j \in DOMAIN bars : j <= i /\ ~bars[j].daily => bars[j].t <= r.priced
  <2>1. m.priced <= r.priced
    BY <1>1, <1>2, <1>4, <1>5, <1>7
  <2>2. ASSUME NEW j \in DOMAIN bars, j <= i, ~bars[j].daily PROVE bars[j].t <= r.priced
    <3>1. j \in Nat /\ bars[j] \in Bars
      OBVIOUS
    <3>2. bars[j].t \in Nat
      BY <3>1 DEF Bars
    <3>3. CASE j = i
      BY <1>0, <1>4, <1>5, <1>7, <3>3
    <3>4. CASE j # i
      <4>1. j <= i - 1
        BY <1>0, <2>2, <3>1, <3>4
      <4>2. bars[j].t <= n.priced
        BY <1>1, <1>4, <1>7, <2>2, <4>1
      <4> QED
        BY <1>2, <1>4, <1>5, <1>7, <3>2, <4>2
    <3> QED
      BY <3>3, <3>4
  <2> QED
    BY <2>1, <2>2
<1>8. r.unbroken \/ (r.origin = "historical" /\ ~m.unbroken)
  <2>1. CASE r.unbroken
    BY <2>1
  <2>2. CASE r.origin = "historical" /\ t > n.priced + 1
    BY <1>0, <1>2, <1>4, <2>2
  <2>3. CASE r.unbroken = n.unbroken /\ ~r.unbroken
    BY <1>1, <1>4, <2>3
  <2> QED
    BY <1>4, <2>1, <2>2, <2>3
<1>9. Founded(r, m, bars, p, i)
  BY <1>1, <1>4, <1>6, <1>7, <1>8 DEF Founded
<1> QED
  BY <1>0, <1>4, <1>5, <1>9

\* One more day of the replay: no minute is missing before its end.
LEMMA FoundedByDay ==
  ASSUME NEW n \in Models, NEW m \in Models, NEW bars \in Seq(Bars), NEW p \in Nat,
         NEW i \in DOMAIN bars, NEW acting \in BOOLEAN, NEW verdict, NEW s, NEW t, t = bars[i].t,
         bars[i].daily, s = TakeDaily(Settled(n, Boundary(t)), t, acting, verdict),
         m.complete, InOrder(m, bars, p), Founded(n, m, bars, p, i - 1)
  PROVE  /\ s.model \in Models /\ Founded(s.model, m, bars, p, i)
         /\ s.model.origin = "historical" =>
              n.origin = "historical" /\ s.model.priced = n.priced /\ t <= n.priced + 1
         /\ n.origin = "own" => s.model.origin = "own"
         /\ s.act = 0 \/ (s.act = t /\ acting /\ s.model.origin = "own")
<1>0. /\ i \in Nat /\ i - 1 < i /\ t \in Nat /\ At(bars[i]) = 2 * t
      /\ m.priced \in Nat /\ n.priced \in Nat /\ m.unbroken
  <2>1. i \in Nat /\ i - 1 < i /\ bars[i] \in Bars
    OBVIOUS
  <2>2. t \in Nat
    BY <2>1 DEF Bars
  <2>3. At(bars[i]) = 2 * t
    BY DEF At
  <2>4. m.unbroken
    BY DEF InOrder
  <2> QED
    BY <2>1, <2>2, <2>3, <2>4 DEF Models
<1>1. /\ n.complete /\ n.available /\ n.inTurn
      /\ n.funded % Period = 0 /\ n.day % Period = 0 /\ n.day >= Period
      /\ InTime(n) /\ Abreast(n) /\ 2 * n.day <= p
      /\ \A j \in DOMAIN bars : i - 1 < j => 2 * n.day <= At(bars[j])
      /\ n.origin = "historical" =>
           /\ m.priced <= n.priced
           /\ \A j \in DOMAIN bars : j <= i - 1 /\ ~bars[j].daily => bars[j].t <= n.priced
      /\ n.unbroken \/ (n.origin = "historical" /\ ~m.unbroken)
  BY DEF Founded
<1>2. t % Period = 0 /\ Reaches(m, bars, i - 1, t) /\ At(bars[i]) <= p
  BY DEF InOrder
<1>3. n.origin = "historical" => t <= n.priced + 1
  <2> SUFFICES ASSUME n.origin = "historical" PROVE t <= n.priced + 1
    OBVIOUS
  <2>1. CASE t <= m.priced + 1
    BY <1>0, <1>1, <2>1
  <2>2. ASSUME NEW j \in DOMAIN bars, j <= i - 1, ~bars[j].daily, t <= bars[j].t + 1
        PROVE  t <= n.priced + 1
    <3>1. bars[j].t <= n.priced
      BY <1>1, <2>2
    <3>2. bars[j] \in Bars
      OBVIOUS
    <3>3. bars[j].t \in Nat
      BY <3>2 DEF Bars
    <3> QED
      BY <1>0, <2>2, <3>1, <3>3
  <2> QED
    BY <1>2, <2>1, <2>2 DEF Reaches
<1>4. /\ s.model \in Models /\ s.model.complete /\ s.model.available /\ s.model.inTurn
      /\ s.model.unbroken = n.unbroken /\ s.model.priced = n.priced
      /\ s.model.funded % Period = 0 /\ InTime(s.model) /\ Abreast(s.model)
      /\ s.model.day % Period = 0 /\ s.model.day >= Period
      /\ s.model.day = n.day \/ s.model.day = t
      /\ s.model.origin = "historical" => n.origin = "historical"
      /\ n.origin = "own" => s.model.origin = "own"
      /\ s.act = 0 \/ (s.act = t /\ acting /\ s.model.origin = "own")
  <2>1. t \in Nat /\ t % Period = 0
    BY <1>0, <1>2
  <2>2. /\ n.complete /\ n.available /\ n.inTurn /\ n.funded % Period = 0
        /\ n.day % Period = 0 /\ n.day >= Period /\ InTime(n) /\ Abreast(n)
    BY <1>1
  <2> QED
    BY <1>3, <2>1, <2>2, DailyKeeps
<1>5. 2 * s.model.day <= p
  <2>1. CASE s.model.day = n.day
    BY <1>1, <2>1
  <2>2. CASE s.model.day = t
    BY <1>0, <1>2, <2>2
  <2> QED
    BY <1>4, <2>1, <2>2
<1>6. \A j \in DOMAIN bars : i < j => 2 * s.model.day <= At(bars[j])
  <2> SUFFICES ASSUME NEW j \in DOMAIN bars, i < j PROVE 2 * s.model.day <= At(bars[j])
    OBVIOUS
  <2>1. j \in Nat /\ i - 1 < j
    BY <1>0
  <2>2. 2 * n.day <= At(bars[j])
    BY <1>1, <2>1
  <2>3. 2 * t <= At(bars[j])
    BY <1>0 DEF InOrder
  <2> QED
    BY <1>4, <2>2, <2>3
<1>7. ASSUME s.model.origin = "historical"
      PROVE  /\ m.priced <= s.model.priced
             /\ \A j \in DOMAIN bars : j <= i /\ ~bars[j].daily => bars[j].t <= s.model.priced
  <2>1. m.priced <= s.model.priced
    BY <1>1, <1>4, <1>7
  <2>2. ASSUME NEW j \in DOMAIN bars, j <= i, ~bars[j].daily PROVE bars[j].t <= n.priced
    <3>1. j \in Nat /\ j # i
      BY <2>2
    <3>2. j <= i - 1
      BY <1>0, <2>2, <3>1
    <3> QED
      BY <1>1, <1>4, <1>7, <2>2, <3>2
  <2> QED
    BY <1>4, <2>1, <2>2
<1>8. s.model.unbroken
  BY <1>0, <1>1, <1>4
<1>9. Founded(s.model, m, bars, p, i)
  BY <1>4, <1>5, <1>6, <1>7, <1>8 DEF Founded
<1> QED
  BY <1>3, <1>4, <1>9

LEMMA ReplayStepCarries ==
  ASSUME NEW m \in Models, NEW bars \in Seq(Bars), NEW p \in Nat, NEW now \in Nat, NEW c,
         c.ends \in Nat, NEW i \in DOMAIN bars, m.complete, InOrder(m, bars, p),
         NEW v, Carries(v, m, bars, p, now, i - 1)
  PROVE  Carries(ReplayStep(v, bars[i], now, c), m, bars, p, now, i)
<1> DEFINE b == bars[i]
           t == b.t
           n == v.model
           f == Settled(n, Boundary(t))
           w == ReplayStep(v, b, now, c)
<1>0. b \in Bars
  OBVIOUS
<1>1. t \in Nat /\ b.daily \in BOOLEAN /\ b.warm \in BOOLEAN
  BY <1>0 DEF Bars
<1>2. v \in [model : Models, last : Nat, act : Nat, ok : BOOLEAN]
  BY DEF Carries
<1>3. CASE ~v.ok
  <2>1. w = v
    BY <1>3 DEF ReplayStep
  <2> QED
    BY <1>2, <1>3, <2>1 DEF Carries
<1>4. CASE v.ok /\ ~b.daily /\ t > v.last + 1
  <2>1. w = [v EXCEPT !.ok = FALSE]
    BY <1>4 DEF ReplayStep
  <2>2. w \in [model : Models, last : Nat, act : Nat, ok : BOOLEAN] /\ ~w.ok
    BY <1>2, <2>1
  <2> QED
    BY <2>2 DEF Carries
<1>5. CASE v.ok /\ ~b.daily /\ ~(t > v.last + 1)
  <2> DEFINE r == Observe(f, t, c.ends)
  <2>1. w = [v EXCEPT !.model = r, !.last = t]
    BY <1>5 DEF ReplayStep
  <2>2. n \in Models /\ v.last \in Nat /\ v.act \in Nat /\ n.priced \in Nat
    BY <1>2 DEF Models
  <2>3. /\ Founded(n, m, bars, p, i - 1)
        /\ n.origin = "historical" => v.last <= n.priced
        /\ v.act # 0 => n.origin = "own" /\ now <= v.act + LateWindow
    BY <1>5 DEF Carries
  <2>4. n.origin = "historical" => t <= n.priced + 1
    BY <1>1, <1>5, <2>2, <2>3
  <2>5. /\ r \in Models /\ Founded(r, m, bars, p, i)
        /\ r.origin = "historical" => t <= r.priced
        /\ n.origin # "historical" => r.origin = n.origin
    <3>1. t = bars[i].t /\ ~bars[i].daily /\ r = Observe(Settled(n, Boundary(t)), t, c.ends)
      BY <1>5
    <3> HIDE DEF r, n, t, b
    <3> QED
      BY <2>2, <2>3, <2>4, <3>1, FoundedByMinute
  <2> HIDE DEF r, n, w, f, t
  <2>6. /\ w \in [model : Models, last : Nat, act : Nat, ok : BOOLEAN]
        /\ w.model = r /\ w.last = t /\ w.act = v.act /\ w.ok
    BY <1>1, <1>2, <1>5, <2>1, <2>5
  <2>7. v.act # 0 => r.origin = "own" /\ now <= v.act + LateWindow
    BY <2>3, <2>5
  <2>8. Carries(w, m, bars, p, now, i)
    BY <2>5, <2>6, <2>7 DEF Carries
  <2> QED
    BY <2>8 DEF w
<1>6. CASE v.ok /\ b.daily
  <2> DEFINE acting == Timely(b, now)
             s == TakeDaily(f, t, acting, c.verdict)
             a == IF s.act # 0 THEN s.act ELSE v.act
  <2>0. w = [v EXCEPT !.model = s.model, !.act = a]
    BY <1>6 DEF ReplayStep
  <2>1. LateWindow \in Nat /\ acting \in BOOLEAN /\ (acting => t >= now - LateWindow)
    BY <1>1, BoundsType DEF Timely
  <2>2. n \in Models /\ v.last \in Nat /\ v.act \in Nat /\ n.priced \in Nat
    BY <1>2 DEF Models
  <2>3. /\ Founded(n, m, bars, p, i - 1)
        /\ n.origin = "historical" => v.last <= n.priced
        /\ v.act # 0 => n.origin = "own" /\ now <= v.act + LateWindow
    BY <1>6 DEF Carries
  <2> HIDE DEF acting
  <2>4. /\ s.model \in Models /\ Founded(s.model, m, bars, p, i)
        /\ s.model.origin = "historical" =>
             n.origin = "historical" /\ s.model.priced = n.priced /\ t <= n.priced + 1
        /\ n.origin = "own" => s.model.origin = "own"
        /\ s.act = 0 \/ (s.act = t /\ acting /\ s.model.origin = "own")
    <3>1. t = bars[i].t /\ bars[i].daily
          /\ s = TakeDaily(Settled(n, Boundary(t)), t, acting, c.verdict)
      BY <1>6
    <3> DEFINE u == c.verdict
    <3>2. s = TakeDaily(Settled(n, Boundary(t)), t, acting, u)
      BY <3>1
    <3>3. n \in Models /\ acting \in BOOLEAN /\ Founded(n, m, bars, p, i - 1)
      BY <2>1, <2>2, <2>3
    <3> HIDE DEF s, n, t, b, u
    <3> QED
      BY <3>1, <3>2, <3>3, FoundedByDay, SMTT(120)
  <2>5. a \in Nat /\ (a # 0 => s.model.origin = "own" /\ now <= a + LateWindow)
    <3>1. CASE s.act # 0
      <4>1. a = t /\ s.model.origin = "own" /\ acting
        BY <2>4, <3>1
      <4>2. now <= t + LateWindow
        BY <1>1, <2>1, <4>1
      <4> HIDE DEF a, s, t
      <4> QED
        BY <1>1, <4>1, <4>2
    <3>2. CASE s.act = 0
      BY <2>2, <2>3, <2>4, <3>2
    <3> QED
      BY <3>1, <3>2
  <2> HIDE DEF s, a, n, w, f, t
  <2>6. /\ w \in [model : Models, last : Nat, act : Nat, ok : BOOLEAN]
        /\ w.model = s.model /\ w.last = v.last /\ w.act = a /\ w.ok
    BY <1>2, <1>6, <2>0, <2>4, <2>5
  <2>7. s.model.origin = "historical" => v.last <= s.model.priced
    BY <2>3, <2>4
  <2>8. Carries(w, m, bars, p, now, i)
    BY <2>4, <2>5, <2>6, <2>7 DEF Carries
  <2> QED
    BY <2>8 DEF w
<1> QED
  BY <1>1, <1>3, <1>4, <1>5, <1>6

\* A replay that misses no price keeps the model sound, whatever it decides; an entry that it
\* leaves is timely and founded.
LEMMA ReplayKeeps ==
  ASSUME NEW m \in Models, NEW l \in BOOLEAN, NEW bars \in Seq(Bars), NEW p \in Nat,
         NEW now \in Nat, NEW c, c.ends \in Nat, m.complete, m.origin = "historical",
         Sound(m, l), InOrder(m, bars, p), 2 * m.day <= p,
         NEW v, v = Replayed(m, bars, now, c)
  PROVE  Carries(v, m, bars, p, now, Len(bars))
<1> DEFINE n == Len(bars)
<1>0. n \in Nat /\ DOMAIN bars = 1 .. n
  OBVIOUS
<1>1. PICK h : /\ h[0] = Begin(m)
               /\ \A i \in 1 .. n : h[i] = ReplayStep(h[i - 1], bars[i], now, c)
               /\ h[n] = v
  BY ReplayRuns
<1>2. Carries(h[0], m, bars, p, now, 0)
  <2> DEFINE k == [m EXCEPT !.available = TRUE]
             b == Begin(m)
  <2>1. /\ k \in Models /\ k.complete /\ k.available /\ k.origin = "historical"
        /\ k.day = m.day /\ k.priced = m.priced /\ k.funded = m.funded
        /\ k.inTurn = m.inTurn /\ k.unbroken = m.unbroken
    BY DEF Models
  <2>2. b = [model |-> k, last |-> m.priced, act |-> 0, ok |-> TRUE]
    BY DEF Begin
  <2>3. /\ m.priced \in Nat /\ m.day \in Nat /\ m.unbroken \in BOOLEAN
        /\ m.inTurn /\ InTime(m) /\ Abreast(m) /\ OnTheGrid(m)
    BY DEF Models, Sound, Claim
  <2> HIDE DEF k, b
  <2>4. InTime(k) /\ Abreast(k)
    BY <2>1, <2>3 DEF InTime, Abreast
  <2>5. \A j \in DOMAIN bars : 0 < j => 2 * k.day <= At(bars[j])
    <3> SUFFICES ASSUME NEW j \in DOMAIN bars PROVE 2 * k.day <= At(bars[j])
      OBVIOUS
    <3>1. 2 * m.day < At(bars[j])
      BY DEF InOrder
    <3>2. bars[j] \in Bars
      OBVIOUS
    <3>3. At(bars[j]) \in Nat
      BY <3>2 DEF At, Bars
    <3> QED
      BY <2>1, <2>3, <3>1, <3>3
  <2>6. \A j \in DOMAIN bars : ~(j <= 0)
    BY <1>0
  <2>7. Founded(k, m, bars, p, 0)
    BY <2>1, <2>3, <2>4, <2>5, <2>6 DEF Founded, OnTheGrid
  <2>8. b \in [model : Models, last : Nat, act : Nat, ok : BOOLEAN]
        /\ b.model = k /\ b.last = m.priced /\ b.act = 0
    BY <2>1, <2>2, <2>3
  <2>9. Carries(b, m, bars, p, now, 0)
    BY <2>1, <2>3, <2>7, <2>8 DEF Carries
  <2> QED
    BY <1>1, <2>9 DEF b
<1> DEFINE bad == {i \in 0 .. n : ~Carries(h[i], m, bars, p, now, i)}
<1>3. ASSUME NEW i \in bad, \A j \in bad : i <= j
      PROVE  FALSE
  <2>1. i \in 1 .. n /\ i - 1 \in 0 .. n /\ i - 1 \notin bad
    BY <1>0, <1>2, <1>3
  <2>2. Carries(h[i - 1], m, bars, p, now, i - 1)
    BY <2>1
  <2>3. Carries(ReplayStep(h[i - 1], bars[i], now, c), m, bars, p, now, i)
    BY <1>0, <2>1, <2>2, ReplayStepCarries
  <2> QED
    BY <1>1, <1>3, <2>1, <2>3
<1>4. bad = {}
  <2> SUFFICES ASSUME bad # {} PROVE FALSE
    OBVIOUS
  <2>1. bad \subseteq Nat
    BY <1>0
  <2> HIDE DEF bad
  <2> QED
    BY <1>3, <2>1, LeastNat
<1>5. n \in 0 .. n
  BY <1>0
<1> QED
  BY <1>1, <1>4, <1>5

-----------------------------------------------------------------------------
(* One bar of the loop.                                                    *)

LEMMA ChoiceFacts ==
  ASSUME NEW bars \in Seq(Bars), NEW c \in ChoicesOf(bars)
  PROVE  c.ends \in Nat
<1>1. c.ends \in {0} \cup {bars[i].t : i \in DOMAIN bars}
  BY DEF ChoicesOf
<1>2. ASSUME NEW i \in DOMAIN bars PROVE bars[i].t \in Nat
  <2>1. bars[i] \in Bars
    OBVIOUS
  <2> QED
    BY <2>1 DEF Bars
<1> QED
  BY <1>1, <1>2

LEMMA HeldFacts ==
  ASSUME NEW w, w = NoWait \/ (w \in Waits /\ Len(w.bars) <= MaxBars)
  PROVE  /\ HeldOf(w) \in Seq(Bars)
         /\ w # NoWait => w \in Waits /\ HeldOf(w) = w.bars
         /\ w = NoWait => Len(HeldOf(w)) = 0 /\ DOMAIN HeldOf(w) = {}
BY DEF HeldOf, Waits

\* A candle that is missing is a gap at the next daily bar, and at once in a live one.
LEMMA GapFacts ==
  ASSUME TypeOK, Ahead(model, pos)
  PROVE  /\ GapAfter(Bar) \in Nat
         /\ GapAfter(Bar) = 0 /\ lost => ~Bar.daily /\ Bar.warm
<1> DEFINE b == Bar
           at == IF ~b.daily \/ Committed(b) THEN gap
                 ELSE IF lost \/ b.t > model.day + Day
                      THEN IF gap = 0 THEN model.day + Day ELSE gap
                 ELSE IF b.warm /\ gap = b.t THEN 0
                 ELSE gap
           nd == NextDay(b.t)
           ad == model.day + Day
<1>1. /\ pos \in Nat /\ since \in Nat /\ gap \in Nat /\ model.day \in Nat /\ pos > 2 * model.day
  <2>1. pos \in {pos, since, published} /\ since \in {pos, since, published}
    OBVIOUS
  <2> QED
    BY <2>1 DEF TypeOK, Models, Ahead
<1>2. /\ b.t \in Nat /\ b.t = pos \div 2 /\ (b.daily <=> pos % 2 = 0)
      /\ b.daily \in BOOLEAN /\ b.warm \in BOOLEAN
  BY <1>1, BarFacts
<1>3. b.daily => b.t > model.day
  <2>1. b.daily => pos = 2 * b.t
    BY <1>1, <1>2, Half
  <2> HIDE DEF b
  <2> QED
    BY <1>1, <1>2, <2>1
<1>4. b.daily => ~Committed(b)
  <2> HIDE DEF b
  <2> QED
    BY <1>1, <1>2, <1>3 DEF Committed
<1>5. nd \in Nat \ {0}
  <2>1. Day \in Nat \ {0}
    BY DayFacts
  <2>2. b.t % Day \in 0 .. Day - 1
    BY <1>2, <2>1, Division
  <2>3. b.t % Day <= b.t
    <3>1. b.t = Day * (b.t \div Day) + (b.t % Day) /\ b.t \div Day \in Nat
      BY <1>2, <2>1, Division
    <3>2. Day * (b.t \div Day) \in Nat
      BY <2>1, <3>1
    <3> HIDE DEF b
    <3> QED
      BY <1>2, <2>1, <2>2, <3>1, <3>2
  <2> DEFINE r == b.t % Day
             x == b.t
  <2>4. x \in Nat /\ r \in Int /\ r < Day /\ r <= x /\ nd = x - r + Day
    BY <1>2, <2>1, <2>2, <2>3 DEF NextDay
  <2> HIDE DEF r, x, nd
  <2> QED
    BY <2>1, <2>4
<1>6. ad \in Nat \ {0}
  BY <1>1, DayFacts
<1>7. GapAfter(b) = IF at = 0 /\ lost /\ ~b.warm THEN nd ELSE at
  BY DEF GapAfter
<1>8. at \in Nat /\ (b.daily /\ lost => at # 0)
  <2> HIDE DEF b, ad
  <2> QED
    BY <1>1, <1>4, <1>6 DEF ad
<1> HIDE DEF b, nd, at
<1>9. GapAfter(b) \in Nat /\ (GapAfter(b) = 0 /\ lost => ~b.daily /\ b.warm)
  BY <1>5, <1>7, <1>8
<1> QED
  BY <1>9 DEF b

LEMMA CheckedFacts ==
  ASSUME TypeOK
  PROVE  LET k == Checked(Bar)
         IN  /\ k \in Models /\ k.origin = model.origin
             /\ k.origin = "historical" /\ k.complete => k = model /\ GapAfter(Bar) = 0
             /\ k.origin # "historical" => k = model
             /\ k = model \/ k = [model EXCEPT !.complete = FALSE]
BY DEF TypeOK, Models, Checked

\* What the loop leaves after one bar.
LEMMA DoneKeeps ==
  ASSUME IInv, pc = "idle", NEW m \in Models, NEW w, NEW act \in Nat, NEW l \in BOOLEAN,
         l = (lost /\ ~Bar.daily),
         w = NoWait \/ (w \in Waits /\ Len(w.bars) <= MaxBars),
         Done(m, w, act), Sound(m, l), ~Bar.warm => Sound(m, FALSE),
         InOrder(m, HeldOf(w), NextPos(pos)), Halted(m, w),
         Follows(m, HeldOf(w), NextPos(pos), l), NextPos(pos) > 2 * m.day,
         act # 0 => m.inTurn /\ m.unbroken /\ Bar.t <= act + LateWindow
  PROVE  IInv'
<1>1. TypeOK /\ Ahead(model, pos) /\ Sound(saved.model, FALSE) /\ FundedOnEvidence
  BY DEF IInv
<1>2. /\ pos \in Nat /\ since \in Nat /\ published \in Nat
      /\ saved.model \in Models /\ saved.gap \in Nat /\ fresh \in BOOLEAN
      /\ acts \subseteq Entries /\ boot \in [rebuilt : BOOLEAN, whole : BOOLEAN]
  <2>1. pos \in {pos, since, published} /\ since \in {pos, since, published}
        /\ published \in {pos, since, published}
    OBVIOUS
  <2> QED
    BY <1>1, <2>1 DEF TypeOK
<1>3. Bar.t \in Nat /\ Bar.daily \in BOOLEAN /\ Bar.warm \in BOOLEAN
  BY <1>2, BarFacts
<1>4. GapAfter(Bar) \in Nat
  BY <1>1, GapFacts
<1> DEFINE e == [bar |-> act, at |-> Bar.t, sound |-> m.inTurn /\ m.unbroken]
           s == m.inTurn /\ m.unbroken
<1>5. /\ model' = m /\ gap' = GapAfter(Bar) /\ wait' = w
      /\ decision' = (IF act = 0 THEN NoEntry ELSE e)
      /\ pc' = (IF act # 0 THEN "submit" ELSE "idle")
      /\ lost' = (lost /\ ~Bar.daily) /\ pos' = NextPos(pos)
      /\ since' = (IF pos < since THEN since ELSE NextPos(pos))
      /\ published' = published /\ acts' = acts /\ boot' = boot
  BY DEF Done, Advance
<1>6. \/ ~Bar.warm /\ saved' = [model |-> m, gap |-> GapAfter(Bar)] /\ fresh' = FALSE
      \/ saved' = saved /\ fresh' = fresh
  BY DEF Done
<1>7. pos' \in Nat /\ since' \in Nat
  BY <1>2, <1>5, NextPosFacts
<1>8. saved'.model \in Models /\ saved'.gap \in Nat /\ fresh' \in BOOLEAN
      /\ Sound(saved'.model, FALSE)
  <2>1. CASE ~Bar.warm /\ saved' = [model |-> m, gap |-> GapAfter(Bar)] /\ fresh' = FALSE
    <3>1. saved'.model = m /\ saved'.gap = GapAfter(Bar)
      BY <2>1
    <3> QED
      BY <1>4, <2>1, <3>1
  <2>2. CASE saved' = saved /\ fresh' = fresh
    BY <1>1, <1>2, <2>2
  <2> QED
    BY <1>6, <2>1, <2>2
<1>9. lost' = l
  BY <1>5
<1>10. e \in Entries /\ e.bar = act /\ e.at = Bar.t /\ e.sound = s
  <2>1. s \in BOOLEAN
    OBVIOUS
  <2>2. e = [bar |-> act, at |-> Bar.t, sound |-> s]
    OBVIOUS
  <2> HIDE DEF s, e
  <2> QED
    BY <1>3, <2>1, <2>2 DEF Entries
<1> HIDE DEF e
<1>11. decision' \in Entries \cup {NoEntry} /\ pc' \in {"down", "idle", "submit"}
  BY <1>5, <1>10
<1>12. TypeOK'
  <2>1. {pos', since', published'} \subseteq Nat
    BY <1>2, <1>5, <1>7
  <2>2. lost' \in BOOLEAN
    BY <1>9
  <2>3. wait' = NoWait \/ (wait' \in Waits /\ Len(wait'.bars) <= MaxBars)
    BY <1>5
  <2> QED
    BY <1>2, <1>4, <1>5, <1>8, <1>11, <2>1, <2>2, <2>3 DEF TypeOK
<1>13. Ahead(m, NextPos(pos))
  BY <1>2, NextPosFacts DEF Ahead
<1>14. InHand'
  <2>1. pc' = "submit" => decision' = e /\ act # 0
    BY <1>5
  <2>2. act # 0 => Justified(e)
    BY <1>10 DEF Justified
  <2> QED
    BY <1>10, <2>1, <2>2 DEF InHand
<1>15. Resumes' /\ FundedOnEvidence'
  BY <1>1, <1>5 DEF Resumes, FundedOnEvidence
<1> QED
  BY <1>5, <1>8, <1>9, <1>12, <1>13, <1>14, <1>15 DEF IInv

LEMMA HandFacts ==
  ASSUME IInv
  PROVE  /\ model \in Models /\ pos \in Nat /\ since \in Nat /\ lost \in BOOLEAN
         /\ Bar \in Bars /\ Bar.t \in Nat /\ Bar.daily \in BOOLEAN /\ Bar.warm \in BOOLEAN
         /\ At(Bar) = pos /\ Bar.t = pos \div 2 /\ pos > 2 * model.day
         /\ Bar.daily => Bar.t % Period = 0 /\ Bar.t > model.day /\ pos = 2 * Bar.t
         /\ ~Bar.daily => model.day <= Bar.t
         /\ NextPos(pos) \in Nat /\ NextPos(pos) >= pos /\ NextPos(pos) > 2 * model.day
         /\ NextPos(pos) \div 2 \in Nat /\ NextPos(pos) \div 2 <= Bar.t + 1
         /\ Bar.daily => NextPos(pos) > pos /\ NextPos(pos) \div 2 = Bar.t
<1>1. model \in Models /\ pos \in Nat /\ since \in Nat /\ lost \in BOOLEAN /\ Ahead(model, pos)
  <2>1. pos \in {pos, since, published} /\ since \in {pos, since, published}
    OBVIOUS
  <2> QED
    BY <2>1 DEF IInv, TypeOK
<1>2. /\ Bar \in Bars /\ Bar.t = pos \div 2 /\ Bar.t \in Nat
      /\ Bar.daily <=> pos % 2 = 0
      /\ Bar.daily \in BOOLEAN /\ Bar.warm \in BOOLEAN
      /\ At(Bar) = pos
  BY <1>1, BarFacts
<1>3. model.day \in Nat /\ pos > 2 * model.day
  BY <1>1 DEF Models, Ahead
<1>4. /\ Bar.daily => pos = 2 * Bar.t
      /\ ~Bar.daily => pos = 2 * Bar.t + 1
  BY <1>1, <1>2, Half
<1>5. /\ NextPos(pos) \in Nat /\ NextPos(pos) >= pos
      /\ NextPos(pos) \div 2 <= Bar.t + 1
      /\ Bar.daily => NextPos(pos) > pos /\ NextPos(pos) \div 2 = Bar.t
  BY <1>1, <1>2, NextPosFacts
<1>6. NextPos(pos) \div 2 \in Nat
  BY <1>5, Half
<1>7. Bar.daily => Bar.t % Period = 0
  BY <1>1, <1>2 DEF Ahead
<1>8. /\ Bar.daily => Bar.t > model.day
      /\ ~Bar.daily => model.day <= Bar.t
      /\ NextPos(pos) > 2 * model.day
  <2> DEFINE t == Bar.t
             q == NextPos(pos)
  <2>1. t \in Nat /\ q \in Nat /\ q >= pos /\ (Bar.daily => pos = 2 * t) /\ (~Bar.daily => pos = 2 * t + 1)
    BY <1>2, <1>4, <1>5
  <2> HIDE DEF t, q
  <2>2. (Bar.daily => t > model.day) /\ (~Bar.daily => model.day <= t) /\ q > 2 * model.day
    BY <1>1, <1>3, <2>1
  <2> QED
    BY <2>2 DEF t, q
<1> QED
  BY <1>1, <1>2, <1>3, <1>4, <1>5, <1>6, <1>7, <1>8

\* While the campaign is followed, a bar that is decided on comes with nothing missing.
LEMMA WaitableFacts ==
  ASSUME IInv, Waitable
  PROVE  /\ Checked(Bar) = model /\ GapAfter(Bar) = 0
         /\ model.origin = "historical" /\ model.complete /\ model.inTurn
         /\ model.unbroken \/ lost
         /\ Bar.daily \/ ~Bar.warm => ~lost /\ model.unbroken
         /\ ~lost => Reaches(model, HeldOf(wait), Len(HeldOf(wait)), Bar.t)
<1>1. TypeOK /\ Ahead(model, pos) /\ Sound(model, lost) /\ Follows(model, HeldOf(wait), pos, lost)
  BY DEF IInv
<1>2. Checked(Bar) = model /\ GapAfter(Bar) = 0 /\ model.origin = "historical" /\ model.complete
  BY <1>1, CheckedFacts DEF Waitable
<1>3. model.inTurn /\ (model.unbroken \/ lost)
  BY <1>1, <1>2 DEF Sound, Claim
<1>4. Bar.daily \/ ~Bar.warm => ~lost
  BY <1>1, <1>2, GapFacts
<1>5. Bar.t = pos \div 2
  BY HandFacts
<1>6. ~lost => Reaches(model, HeldOf(wait), Len(HeldOf(wait)), Bar.t)
  BY <1>1, <1>2, <1>5 DEF Follows
<1> QED
  BY <1>2, <1>3, <1>4, <1>6

LEMMA NothingHeld ==
  ASSUME NEW m, NEW p
  PROVE  /\ InOrder(m, HeldOf(NoWait), p) /\ Halted(m, NoWait)
         /\ \A n, t : Reaches(m, HeldOf(NoWait), n, t) <=> t <= m.priced + 1
<1>1. HeldOf(NoWait) = <<>> /\ DOMAIN HeldOf(NoWait) = {}
  BY DEF HeldOf
<1>2. InOrder(m, HeldOf(NoWait), p)
  BY <1>1 DEF InOrder
<1>3. Halted(m, NoWait)
  BY DEF Halted
<1>4. \A n, t : Reaches(m, HeldOf(NoWait), n, t) <=> t <= m.priced + 1
  BY <1>1 DEF Reaches
<1> QED
  BY <1>2, <1>3, <1>4

\* The bar joins those that are held.
LEMMA InOrderAppend ==
  ASSUME NEW m \in Models, NEW H \in Seq(Bars), NEW b \in Bars, NEW p \in Nat, NEW q \in Nat, p <= q,
         InOrder(m, H, p), At(b) = p, 2 * m.day < p,
         b.daily => /\ b.t % Period = 0 /\ (m.complete => m.unbroken)
                    /\ Reaches(m, H, Len(H), b.t)
  PROVE  InOrder(m, Append(H, b), q)
<1> DEFINE B == Append(H, b)
           n == Len(H)
<1>0. /\ n \in Nat /\ DOMAIN H = 1 .. n /\ DOMAIN B = 1 .. n + 1 /\ B[n + 1] = b
      /\ \A i \in 1 .. n : B[i] = H[i] /\ H[i] \in Bars
  OBVIOUS
<1> HIDE DEF B, n
<1>1. ASSUME NEW i \in 1 .. n PROVE At(H[i]) \in Nat /\ At(H[i]) <= p /\ 2 * m.day < At(H[i])
  <2>1. H[i] \in Bars
    BY <1>0
  <2> QED
    BY <1>0, <2>1 DEF At, Bars, InOrder
<1>2. ASSUME NEW i \in 1 .. n + 1 PROVE i \in 1 .. n \/ i = n + 1
  BY <1>0
<1>3. \A i \in DOMAIN B : 2 * m.day < At(B[i]) /\ At(B[i]) <= q
  <2> SUFFICES ASSUME NEW i \in 1 .. n + 1 PROVE 2 * m.day < At(B[i]) /\ At(B[i]) <= q
    BY <1>0
  <2>1. CASE i \in 1 .. n
    <3>1. B[i] = H[i] /\ At(H[i]) \in Nat /\ At(H[i]) <= p /\ 2 * m.day < At(H[i])
      BY <1>0, <1>1, <2>1
    <3> QED
      BY <3>1
  <2>2. CASE i = n + 1
    BY <1>0, <2>2
  <2> QED
    BY <1>2, <2>1, <2>2
<1>4. \A i, j \in DOMAIN B : i < j => At(B[i]) <= At(B[j])
  <2> SUFFICES ASSUME NEW i \in 1 .. n + 1, NEW j \in 1 .. n + 1, i < j PROVE At(B[i]) <= At(B[j])
    BY <1>0
  <2>1. i \in 1 .. n
    BY <1>0
  <2>2. CASE j \in 1 .. n
    <3>1. At(H[i]) <= At(H[j])
      BY <1>0, <2>1, <2>2 DEF InOrder
    <3> QED
      BY <1>0, <2>1, <2>2, <3>1
  <2>3. CASE j = n + 1
    BY <1>0, <1>1, <2>1, <2>3
  <2> QED
    BY <1>2, <2>2, <2>3
<1>5. ASSUME NEW i \in Nat, NEW t, i <= n, Reaches(m, H, i, t) PROVE Reaches(m, B, i, t)
  <2>1. ASSUME NEW j \in DOMAIN H, j <= i, ~H[j].daily, t <= H[j].t + 1
        PROVE  \E k \in DOMAIN B : k <= i /\ ~B[k].daily /\ t <= B[k].t + 1
    <3>1. j \in DOMAIN B /\ B[j] = H[j]
      BY <1>0
    <3> QED
      BY <2>1, <3>1
  <2> QED
    BY <1>5, <2>1 DEF Reaches
<1>6. ASSUME NEW i \in 1 .. n + 1, B[i].daily
      PROVE  B[i].t % Period = 0 /\ (m.complete => m.unbroken) /\ Reaches(m, B, i - 1, B[i].t)
  <2>1. CASE i \in 1 .. n
    <3>1. B[i] = H[i] /\ H[i].daily /\ i \in DOMAIN H /\ i - 1 \in Nat /\ i - 1 <= n
      BY <1>0, <1>6, <2>1
    <3>2. H[i].t % Period = 0 /\ (m.complete => m.unbroken) /\ Reaches(m, H, i - 1, H[i].t)
      BY <3>1 DEF InOrder
    <3> QED
      BY <1>5, <3>1, <3>2
  <2>2. CASE i = n + 1
    <3>1. B[i] = b /\ i - 1 = n /\ b.daily
      BY <1>0, <1>6, <2>2
    <3>2. b.t % Period = 0 /\ (m.complete => m.unbroken) /\ Reaches(m, H, n, b.t)
      BY <3>1 DEF n
    <3> QED
      BY <1>0, <1>5, <3>1, <3>2
  <2> QED
    BY <1>2, <2>1, <2>2
<1>7. InOrder(m, B, q)
  BY <1>0, <1>3, <1>4, <1>6 DEF InOrder
<1> QED
  BY <1>7 DEF B

\* The campaign sees the bar in hand with the settlements up to it paid.
LEMMA SeenKeeps ==
  ASSUME IInv, pc = "idle", Waitable, wait = NoWait, model.available,
         NEW c \in ChoicesOf(<<Bar>>), NEW s,
         s = See(Settled(model, Boundary(Bar.t)), Bar, c), Done(s.model, NoWait, s.act)
  PROVE  IInv'
<1> DEFINE b == Bar
           t == b.t
           r == s.model
           q == NextPos(pos)
           l == lost /\ ~b.daily
<1>1. /\ model \in Models /\ pos \in Nat /\ lost \in BOOLEAN
      /\ b \in Bars /\ t \in Nat /\ b.daily \in BOOLEAN /\ b.warm \in BOOLEAN
      /\ b.daily => t % Period = 0 /\ t > model.day /\ pos = 2 * t
      /\ ~b.daily => model.day <= t
      /\ q \in Nat /\ q >= pos /\ q > 2 * model.day
      /\ q \div 2 \in Nat /\ q \div 2 <= t + 1
      /\ b.daily => q > pos /\ q \div 2 = t
  BY HandFacts
<1>2. /\ model.origin = "historical" /\ model.complete /\ model.inTurn
      /\ b.daily \/ ~b.warm => ~lost /\ model.unbroken
      /\ ~lost => Reaches(model, HeldOf(wait), Len(HeldOf(wait)), t)
  BY WaitableFacts
<1>3. model.unbroken \/ lost
  BY WaitableFacts
<1>4. ~lost => t <= model.priced + 1
  BY <1>2, NothingHeld
<1>5. /\ InTime(model) /\ Abreast(model) /\ model.funded % Period = 0 /\ model.day % Period = 0
      /\ model.day >= Period
  BY DEF IInv, Sound, OnTheGrid
<1>6. model.available
  OBVIOUS
<1>7. c.ends \in Nat
  <2>1. <<b>> \in Seq(Bars)
    BY <1>1
  <2> QED
    BY <2>1, ChoiceFacts
<1>8. l \in BOOLEAN
  BY <1>1
<1>9. ASSUME r \in Models, Sound(r, l), ~b.warm => Sound(r, FALSE), q > 2 * r.day, s.act \in Nat,
             r.origin = "historical" => q \div 2 <= r.priced + 1,
             s.act # 0 => r.inTurn /\ r.unbroken /\ t <= s.act + LateWindow
      PROVE  IInv'
  <2>1. Follows(r, HeldOf(NoWait), q, l)
    BY <1>9, NothingHeld DEF Follows
  <2>2. InOrder(r, HeldOf(NoWait), q) /\ Halted(r, NoWait)
    BY NothingHeld
  <2>3. l = (lost /\ ~Bar.daily)
    OBVIOUS
  <2> DEFINE w == NoWait
  <2>4. w = NoWait
    OBVIOUS
  <2>5. Done(r, w, s.act)
    OBVIOUS
  <2> HIDE DEF r, l, w
  <2> QED
    BY <1>8, <1>9, <2>1, <2>2, <2>3, <2>4, <2>5, DoneKeeps
<1>10. CASE ~b.daily
  <2>1. r = Observe(Settled(model, Boundary(t)), t, c.ends) /\ s.act = 0
    BY <1>10 DEF See, Seen
  <2> HIDE DEF r, t
  <2>2. /\ r \in Models /\ r.complete /\ r.available /\ r.inTurn /\ r.day = model.day
        /\ r.funded % Period = 0 /\ InTime(r) /\ Abreast(r)
        /\ r.origin = "historical" =>
             model.origin = "historical" /\ r.priced >= model.priced /\ r.priced >= t
        /\ r.unbroken \/ r.unbroken = model.unbroken
             \/ (r.origin = "historical" /\ t > model.priced + 1)
        /\ r.origin # "historical" /\ model.origin = "historical" => r.unbroken
    BY <1>1, <1>2, <1>5, <1>6, <1>7, <1>10, <2>1, MinuteKeeps
  <2>3. model.priced \in Nat /\ r.priced \in Nat
    BY <1>1, <2>2 DEF Models
  <2>4. r.unbroken \/ (lost /\ r.origin = "historical")
    <3>1. CASE r.origin = "historical" /\ t > model.priced + 1
      BY <1>1, <1>4, <2>3, <3>1
    <3>2. CASE r.unbroken = model.unbroken
      BY <1>2, <1>3, <2>2, <3>2
    <3> QED
      BY <2>2, <3>1, <3>2
  <2>5. \A x \in {l, FALSE} : (r.unbroken \/ (x /\ r.origin = "historical")) => Sound(r, x)
    BY <1>5, <2>2 DEF Sound, Claim, Paused, OnTheGrid
  <2>6. Sound(r, l)
    <3>1. r.unbroken \/ (l /\ r.origin = "historical")
      BY <1>10, <2>4
    <3> QED
      BY <2>5, <3>1
  <2>7. ~b.warm => Sound(r, FALSE)
    BY <1>2, <2>4, <2>5
  <2>8. r.origin = "historical" => q \div 2 <= r.priced + 1
    <3> DEFINE h == q \div 2
    <3>1. h \in Nat /\ h <= t + 1
      BY <1>1
    <3> HIDE DEF h
    <3>2. r.origin = "historical" => h <= r.priced + 1
      BY <1>1, <2>2, <2>3, <3>1
    <3> QED
      BY <3>2 DEF h
  <2>9. q > 2 * r.day
    BY <1>1, <2>2
  <2>10. r \in Models /\ s.act \in Nat /\ ~(s.act # 0)
    BY <2>1, <2>2
  <2> HIDE DEF l
  <2> QED
    BY <1>9, <2>6, <2>7, <2>8, <2>9, <2>10
<1>11. CASE b.daily
  <2> DEFINE acting == ~b.warm
             verdict == c.verdict
  <2>1. s = TakeDaily(Settled(model, Boundary(t)), t, acting, verdict)
    BY <1>11 DEF See
  <2>2. ~lost /\ model.unbroken /\ t <= model.priced + 1 /\ t % Period = 0
    BY <1>1, <1>2, <1>4, <1>11
  <2>3. acting \in BOOLEAN
    BY <1>1
  <2> HIDE DEF t, acting, verdict
  <2>4. /\ s.model \in Models /\ s.model.complete /\ s.model.available /\ s.model.inTurn
        /\ s.model.unbroken = model.unbroken /\ s.model.priced = model.priced
        /\ s.model.funded % Period = 0 /\ InTime(s.model) /\ Abreast(s.model)
        /\ s.model.day % Period = 0 /\ s.model.day >= Period
        /\ s.model.day = model.day \/ s.model.day = t
        /\ s.model.origin = "historical" => model.origin = "historical"
        /\ model.origin = "own" => s.model.origin = "own"
        /\ s.act = 0 \/ (s.act = t /\ acting /\ s.model.origin = "own")
    <3>1. /\ model.complete /\ model.available /\ model.inTurn /\ model.funded % Period = 0
          /\ model.day % Period = 0 /\ model.day >= Period /\ InTime(model) /\ Abreast(model)
      BY <1>2, <1>5, <1>6
    <3>2. model \in Models /\ t \in Nat /\ t % Period = 0
      BY <1>1, <2>2
    <3>3. model.origin = "historical" => t <= model.priced + 1
      BY <2>2
    <3> QED
      BY <2>1, <2>3, <3>1, <3>2, <3>3, DailyKeeps
  <2>5. \A x \in {l, FALSE} : Sound(r, x)
    BY <2>2, <2>4 DEF Sound, Claim, Paused, OnTheGrid
  <2>6. r.origin = "historical" => q \div 2 <= r.priced + 1
    BY <1>1, <1>11, <2>2, <2>4
  <2>7. q > 2 * r.day
    <3>1. q > 2 * model.day /\ q > 2 * t
      BY <1>1, <1>11
    <3> QED
      BY <2>4, <3>1
  <2>8. s.act \in Nat /\ (s.act # 0 => r.inTurn /\ r.unbroken /\ t <= s.act + LateWindow)
    BY <1>1, <2>2, <2>4, BoundsType
  <2>9. r \in Models
    BY <2>4
  <2> HIDE DEF r, l
  <2> QED
    BY <1>9, <2>5, <2>6, <2>7, <2>8, <2>9
<1> QED
  BY <1>1, <1>10, <1>11

\* Nothing historical is in the way: the strategy's own campaign, or none.
LEMMA OwnKeeps ==
  ASSUME IInv, pc = "idle", model.origin # "historical", NEW c, NEW m \in Models, NEW act,
         \/ m = model /\ act = 0
         \/ \E s : s = See(model, Bar, c) /\ m = s.model /\ act = s.act,
         Done(m, wait, act)
  PROVE  IInv'
<1> DEFINE b == Bar
           t == b.t
           q == NextPos(pos)
           l == lost /\ ~b.daily
<1>1. /\ model \in Models /\ pos \in Nat /\ lost \in BOOLEAN
      /\ t \in Nat /\ b.daily \in BOOLEAN /\ b.warm \in BOOLEAN
      /\ b.daily => t % Period = 0 /\ t > model.day /\ pos = 2 * t
      /\ q \in Nat /\ q >= pos /\ q > 2 * model.day
      /\ b.daily => q > pos
  BY HandFacts
<1>2. wait = NoWait
  BY DEF IInv, Halted
<1>3. /\ model.complete => model.inTurn /\ model.unbroken
      /\ model.funded % Period = 0 /\ model.day % Period = 0 /\ model.day >= Period
      /\ model.day \in Nat /\ Period \in Nat
  BY <1>1, ClockType DEF IInv, Sound, Claim, OnTheGrid, Models
<1>4. ASSUME m.origin # "historical", m.complete => m.inTurn /\ m.unbroken, act \in Nat,
             m.funded % Period = 0, m.day % Period = 0, m.day >= Period, q > 2 * m.day,
             act # 0 => m.complete /\ t <= act + LateWindow
      PROVE  IInv'
  <2>1. \A x \in {l, FALSE} : Sound(m, x)
    BY <1>4 DEF Sound, Claim, InTime, Abreast, Paused, OnTheGrid
  <2>2. InOrder(m, HeldOf(NoWait), q) /\ Halted(m, NoWait) /\ Follows(m, HeldOf(NoWait), q, l)
    BY <1>4, NothingHeld DEF Follows
  <2>3. l \in BOOLEAN /\ l = (lost /\ ~Bar.daily)
    BY <1>1
  <2>4. act # 0 => m.inTurn /\ m.unbroken /\ t <= act + LateWindow
    BY <1>4
  <2> DEFINE w == wait
  <2>5. w = NoWait /\ Done(m, w, act)
    BY <1>2
  <2> HIDE DEF l, w
  <2> QED
    BY <1>4, <2>1, <2>2, <2>3, <2>4, <2>5, DoneKeeps
<1>5. CASE m = model /\ act = 0
  BY <1>1, <1>3, <1>4, <1>5
<1>6. ASSUME NEW s, s = See(model, Bar, c), m = s.model, act = s.act PROVE IInv'
  <2>1. CASE ~b.daily
    <3>1. Observe(model, t, c.ends) = model
      BY DEF Observe
    <3>2. m = model /\ act = 0
      BY <1>6, <2>1, <3>1 DEF See, Seen
    <3> QED
      BY <1>1, <1>3, <1>4, <3>2
  <2>2. CASE b.daily
    <3> DEFINE enters == c.verdict = "enter" /\ ~b.warm /\ model.complete /\ model.available
               o == IF model.origin = "own" THEN "own"
                    ELSE IF c.verdict = "stay" THEN model.origin
                    ELSE IF enters THEN "own" ELSE "none"
               r == [model EXCEPT !.day = t, !.origin = o]
    <3>0. s = TakeDaily(model, t, ~b.warm, c.verdict) /\ ~(t <= model.day)
      BY <1>1, <1>3, <1>6, <2>2 DEF See
    <3>1. m = r
      <4>1. CASE model.origin = "own"
        <5>1. [model EXCEPT !.day = t] = r
          BY <1>1, <4>1 DEF Models
        <5> QED
          BY <1>6, <3>0, <4>1, <5>1 DEF TakeDaily, Seen
      <4>2. CASE model.origin # "own"
        BY <1>6, <3>0, <4>2 DEF TakeDaily, Seen
      <4> QED
        BY <4>1, <4>2
    <3>2. act = 0 \/ (act = t /\ model.complete)
      BY <1>6, <3>0 DEF TakeDaily, Seen
    <3>3. /\ r.day = t /\ r.origin = o /\ r.funded = model.funded
          /\ r.complete = model.complete /\ r.inTurn = model.inTurn /\ r.unbroken = model.unbroken
      BY <1>1 DEF Models
    <3>4. o # "historical"
      OBVIOUS
    <3> HIDE DEF r, o, enters
    <3>5. m.day % Period = 0 /\ m.day >= Period
      <4>1. t >= Period
        BY <1>1, <1>3, <2>2
      <4> QED
        BY <1>1, <2>2, <3>1, <3>3, <4>1
    <3>6. q > 2 * m.day
      BY <1>1, <2>2, <3>1, <3>3
    <3>7. act \in Nat /\ (act # 0 => m.complete /\ t <= act + LateWindow)
      BY <1>1, <3>1, <3>2, <3>3, BoundsType
    <3>8. m.origin # "historical" /\ m.funded % Period = 0
          /\ (m.complete => m.inTurn /\ m.unbroken)
      BY <1>3, <3>1, <3>3, <3>4
    <3> HIDE DEF t, q
    <3> QED
      BY <1>4, <3>5, <3>6, <3>7, <3>8
  <2> QED
    BY <1>1, <2>1, <2>2
<1> QED
  BY <1>5, <1>6

\* A bar that arrives while a settlement is awaited joins the wait, is passed over as judged
\* before, or ends the claim of a model that waits too long.
LEMMA HeldKeeps ==
  ASSUME IInv, pc = "idle", Waitable, NEW m \in Models, NEW w,
         m = [model EXCEPT !.available = FALSE],
         w \in Waits, Len(w.bars) <= MaxBars, w.bars = HeldOf(wait),
         model.available => model.funded < Boundary(Bar.t),
         Held(m, w)
  PROVE  IInv'
<1> DEFINE b == Bar
           t == b.t
           q == NextPos(pos)
           l == lost /\ ~b.daily
           H == HeldOf(wait)
           B == Append(H, b)
<1>1. /\ model \in Models /\ pos \in Nat /\ lost \in BOOLEAN /\ b \in Bars /\ At(b) = pos
      /\ t \in Nat /\ b.daily \in BOOLEAN /\ b.warm \in BOOLEAN
      /\ b.daily => t % Period = 0
      /\ pos > 2 * model.day
      /\ q \in Nat /\ q >= pos /\ q > 2 * model.day
      /\ q \div 2 \in Nat /\ q \div 2 <= t + 1
      /\ b.daily => q \div 2 = t
  BY HandFacts
<1>2. /\ model.origin = "historical" /\ model.complete /\ model.inTurn
      /\ b.daily \/ ~b.warm => ~lost /\ model.unbroken
      /\ ~lost => Reaches(model, H, Len(H), t)
  BY WaitableFacts
<1>3. model.unbroken \/ lost
  BY WaitableFacts
<1>4. /\ m.origin = model.origin /\ m.complete = model.complete /\ m.day = model.day
      /\ m.funded = model.funded /\ m.priced = model.priced /\ ~m.available
      /\ m.inTurn = model.inTurn /\ m.unbroken = model.unbroken
      /\ m.priced \in Nat /\ m.funded \in Nat /\ m.day \in Nat
  BY DEF Models
<1>5. /\ InTime(model) /\ Abreast(model) /\ Paused(model, lost) /\ OnTheGrid(model)
      /\ InOrder(model, H, pos) /\ Halted(model, wait)
  BY DEF IInv, Sound
<1>6. H \in Seq(Bars)
  BY DEF Waits
<1>7. ~lost => m.funded + Period <= m.priced + 1
  <2> SUFFICES ASSUME ~lost PROVE m.funded + Period <= m.priced + 1
    OBVIOUS
  <2>1. CASE ~model.available
    BY <1>2, <1>4, <1>5, <2>1 DEF Paused
  <2>2. CASE model.available
    <3>1. wait = NoWait
      BY <1>5, <2>2 DEF Halted
    <3>2. t <= model.priced + 1
      BY <1>2, <3>1, NothingHeld
    <3>3. Boundary(t) \in Nat /\ Boundary(t) % Period = 0 /\ Boundary(t) <= t
      BY <1>1, BoundaryFacts
    <3>4. model.funded \in Nat /\ model.funded % Period = 0
      BY <1>4, <1>5 DEF OnTheGrid
    <3>5. model.funded + Period <= Boundary(t)
      <4> DEFINE x == Boundary(t)
                 y == model.funded
      <4>1. x \in Nat /\ y \in Nat /\ x % Period = 0 /\ y % Period = 0 /\ y < x
            /\ Period \in Nat \ {0}
        BY <2>2, <3>3, <3>4, ClockType
      <4> HIDE DEF x, y
      <4>2. y + Period <= x
        BY <4>1, MultiplesApart
      <4> QED
        BY <4>2 DEF x, y
    <3>6. Period \in Nat
      BY ClockType
    <3> HIDE DEF t
    <3> QED
      BY <1>1, <1>4, <3>2, <3>3, <3>4, <3>5, <3>6
  <2> QED
    BY <2>1, <2>2
<1>8. l \in BOOLEAN /\ l = (lost /\ ~Bar.daily) /\ (lost => l \/ b.daily)
  BY <1>1
<1>9. ~lost => l = FALSE
  OBVIOUS
<1>10. lost => l
  BY <1>2, <1>8
<1>11. Sound(m, l) /\ (~b.warm => Sound(m, FALSE))
  <2>1. InTime(m) /\ Abreast(m) /\ OnTheGrid(m)
    BY <1>4, <1>5 DEF InTime, Abreast, OnTheGrid
  <2>2. Claim(m, l) /\ (~b.warm => Claim(m, FALSE))
    BY <1>2, <1>3, <1>4, <1>10 DEF Claim
  <2>3. Paused(m, l) /\ (~b.warm => Paused(m, FALSE))
    BY <1>2, <1>7, <1>10 DEF Paused
  <2> QED
    BY <2>1, <2>2, <2>3 DEF Sound
<1>12. ASSUME NEW n, NEW i PROVE Reaches(model, H, n, i) <=> Reaches(m, H, n, i)
  BY <1>4 DEF Reaches
<1>13. InOrder(m, H, pos)
  BY <1>4, <1>5, <1>12 DEF InOrder
<1>14. Period \in Nat
  BY ClockType
<1> HIDE DEF l, q, t
<1>15. CASE t < m.funded + Period
  <2>1. Done(m, w, 0)
    BY <1>15 DEF Held, t
  <2>2. InOrder(m, H, q)
    <3>1. \A i \in DOMAIN H : At(H[i]) <= q
      <4> SUFFICES ASSUME NEW i \in DOMAIN H PROVE At(H[i]) <= q
        OBVIOUS
      <4>1. H[i] \in Bars
        BY <1>6
      <4>2. At(H[i]) \in Nat
        BY <4>1 DEF At, Bars
      <4>3. At(H[i]) <= pos
        BY <1>13 DEF InOrder
      <4> QED
        BY <1>1, <4>2, <4>3
    <3> QED
      BY <1>13, <3>1 DEF InOrder
  <2>3. Follows(m, H, q, l)
    <3>1. ~lost => q \div 2 <= m.priced + 1
      <4> DEFINE h == q \div 2
      <4>1. h \in Nat /\ h <= t + 1
        BY <1>1
      <4> HIDE DEF h
      <4>2. ~lost => h <= m.priced + 1
        BY <1>1, <1>4, <1>7, <1>14, <1>15, <4>1
      <4> QED
        BY <4>2 DEF h
    <3> QED
      BY <1>10, <3>1 DEF Follows, Reaches
  <2>4. Halted(m, w)
    BY <1>2, <1>4 DEF Halted
  <2>5. HeldOf(w) = H
    <3>1. w # NoWait
      BY DEF NoWait, Waits
    <3> QED
      BY <3>1 DEF HeldOf
  <2>6. q > 2 * m.day
    BY <1>1, <1>4
  <2>7. InOrder(m, HeldOf(w), q) /\ Follows(m, HeldOf(w), q, l)
    BY <2>2, <2>3, <2>5
  <2> DEFINE act == 0
  <2>8. Done(m, w, act) /\ act \in Nat /\ ~(act # 0)
    BY <2>1
  <2> HIDE DEF act
  <2> QED
    BY <1>8, <1>11, <2>4, <2>6, <2>7, <2>8, DoneKeeps DEF q
<1>16. CASE ~(t < m.funded + Period) /\ Len(B) > MaxBars
  <2> DEFINE n == [m EXCEPT !.complete = FALSE, !.available = FALSE]
  <2>1. Done(n, NoWait, 0)
    BY <1>16 DEF Held, t
  <2>2. /\ n \in Models /\ ~n.complete /\ n.origin = m.origin /\ n.day = m.day
        /\ n.funded = m.funded /\ n.priced = m.priced
    BY DEF Models
  <2> HIDE DEF n
  <2>3. InTime(n) /\ OnTheGrid(n)
    BY <1>11, <2>2 DEF Sound, InTime, OnTheGrid
  <2>4. \A x : Sound(n, x)
    BY <2>2, <2>3 DEF Sound, Claim, Abreast, Paused
  <2>5. InOrder(n, HeldOf(NoWait), q) /\ Halted(n, NoWait) /\ Follows(n, HeldOf(NoWait), q, l)
    BY <2>2, NothingHeld DEF Follows
  <2>6. q > 2 * n.day
    BY <1>1, <1>4, <2>2
  <2> DEFINE v == NoWait
             act == 0
  <2>7. Done(n, v, act) /\ v = NoWait /\ act \in Nat /\ ~(act # 0)
    BY <2>1
  <2> HIDE DEF v, act
  <2> QED
    BY <1>8, <2>2, <2>4, <2>5, <2>6, <2>7, DoneKeeps DEF q
<1>17. CASE ~(t < m.funded + Period) /\ ~(Len(B) > MaxBars)
  <2> DEFINE answered == CASE w.task = "failed" -> [w EXCEPT !.bars = B, !.task = "resting"]
                           [] w.task = "ok" -> [w EXCEPT !.bars = B, !.task = "none"]
                           [] OTHER -> [w EXCEPT !.bars = B]
             v == AskedAgain(answered)
  <2>1. Done(m, v, 0)
    BY <1>17 DEF Held, t
  <2>2. B \in Seq(Bars) /\ Len(B) \in Nat /\ MaxBars \in Nat
    BY <1>1, <1>6, BoundsType
  <2>3. Boundary(t) \in Nat
    BY <1>1, BoundaryFacts
  <2> HIDE DEF B
  <2>4. answered \in Waits /\ answered.bars = B
    BY <2>2 DEF Waits
  <2> HIDE DEF answered
  <2>5. v \in Waits /\ v.bars = B
    <3>1. v = (IF answered.task = "none"
               THEN [answered EXCEPT !.asked = Boundary(t), !.task = "running"] ELSE answered)
      BY DEF AskedAgain, t
    <3> QED
      BY <2>3, <2>4, <3>1 DEF Waits
  <2> HIDE DEF v
  <2>6. v # NoWait /\ HeldOf(v) = B
    <3>1. v # NoWait
      BY <2>5 DEF NoWait, Waits
    <3> QED
      BY <2>5, <3>1 DEF HeldOf
  <2>7. Len(v.bars) <= MaxBars
    BY <1>17, <2>2, <2>5
  <2>8. InOrder(m, B, q)
    <3>1. b.daily => b.t % Period = 0 /\ (m.complete => m.unbroken) /\ Reaches(m, H, Len(H), b.t)
      BY <1>1, <1>2, <1>4, <1>12 DEF t
    <3>2. 2 * m.day < pos
      BY <1>1, <1>4
    <3> HIDE DEF b, H
    <3> QED
      BY <1>1, <1>6, <1>13, <3>1, <3>2, InOrderAppend DEF B
  <2>9. Halted(m, v)
    BY <1>2, <1>4 DEF Halted
  <2>10. Follows(m, B, q, l)
    <3> SUFFICES ASSUME ~lost PROVE Reaches(m, B, Len(B), q \div 2)
      BY <1>10 DEF Follows
    <3> DEFINE n == Len(H)
    <3>1. /\ n \in Nat /\ DOMAIN H = 1 .. n /\ DOMAIN B = 1 .. n + 1 /\ B[n + 1] = b
          /\ Len(B) = n + 1 /\ \A i \in 1 .. n : B[i] = H[i]
      BY <1>6, <1>1 DEF B
    <3> HIDE DEF n
    <3>2. CASE ~b.daily
      <4>1. n + 1 \in DOMAIN B /\ n + 1 <= Len(B) /\ ~B[n + 1].daily /\ q \div 2 <= B[n + 1].t + 1
        BY <1>1, <3>1, <3>2 DEF t
      <4> QED
        BY <4>1 DEF Reaches
    <3>3. CASE b.daily
      <4>1. q \div 2 = t /\ Reaches(m, H, n, t)
        BY <1>1, <1>2, <1>12, <3>3 DEF n
      <4>2. ASSUME NEW j \in DOMAIN H, j <= n, ~H[j].daily, t <= H[j].t + 1
            PROVE  \E k \in DOMAIN B : k <= Len(B) /\ ~B[k].daily /\ t <= B[k].t + 1
        <5>1. j \in DOMAIN B /\ B[j] = H[j] /\ j <= Len(B)
          BY <3>1
        <5> QED
          BY <4>2, <5>1
      <4> QED
        BY <4>1, <4>2 DEF Reaches
    <3> QED
      BY <1>1, <3>2, <3>3
  <2>11. q > 2 * m.day
    BY <1>1, <1>4
  <2>12. InOrder(m, HeldOf(v), q) /\ Follows(m, HeldOf(v), q, l)
    BY <2>6, <2>8, <2>10
  <2> DEFINE act == 0
  <2>13. Done(m, v, act) /\ act \in Nat /\ ~(act # 0)
    BY <2>1
  <2> HIDE DEF act
  <2> QED
    BY <1>8, <1>11, <2>5, <2>7, <2>9, <2>11, <2>12, <2>13, DoneKeeps DEF q
<1> QED
  BY <1>15, <1>16, <1>17

LEMMA ReplayedKeeps ==
  ASSUME IInv, NEW c \in ChoicesOf(HeldBars), BarsReplayed(c)
  PROVE  IInv'
<1> DEFINE b == Bar
           t == b.t
           q == NextPos(pos)
           l == lost /\ ~b.daily
           H == HeldOf(wait)
           B == Append(H, b)
           v == Replayed(model, B, t, c)
           n == v.model
<1>1. /\ model \in Models /\ pos \in Nat /\ lost \in BOOLEAN /\ b \in Bars /\ At(b) = pos
      /\ t \in Nat /\ b.daily \in BOOLEAN /\ b.warm \in BOOLEAN
      /\ b.daily => t % Period = 0 /\ pos = 2 * t
      /\ pos > 2 * model.day
      /\ q \in Nat /\ q >= pos /\ q > 2 * model.day
      /\ q \div 2 \in Nat /\ q \div 2 <= t + 1
      /\ b.daily => q > pos /\ q \div 2 = t
  BY HandFacts
<1>2. pc = "idle" /\ Waitable /\ wait # NoWait
  BY DEF BarsReplayed
<1>3. /\ model.origin = "historical" /\ model.complete /\ model.inTurn
      /\ b.daily \/ ~b.warm => ~lost /\ model.unbroken
      /\ ~lost => Reaches(model, H, Len(H), t)
  BY <1>2, WaitableFacts
<1>4. Sound(model, lost) /\ InOrder(model, H, pos) /\ TypeOK
  BY DEF IInv
<1>5. wait \in Waits /\ H = wait.bars /\ H = HeldBars /\ H \in Seq(Bars)
  <2>1. wait \in Waits
    BY <1>2, <1>4 DEF TypeOK
  <2> QED
    BY <1>2, <2>1 DEF HeldOf, HeldBars, Waits
<1>6. c.ends \in Nat
  <2>1. c \in ChoicesOf(H) /\ H \in Seq(Bars)
    BY <1>5
  <2> HIDE DEF H
  <2> QED
    BY <2>1, ChoiceFacts
<1>7. l \in BOOLEAN /\ l = (lost /\ ~Bar.daily) /\ (lost => l)
  BY <1>1, <1>3
<1>8. InOrder(model, B, pos) /\ B \in Seq(Bars)
  <2>1. b.daily => b.t % Period = 0 /\ (model.complete => model.unbroken)
                   /\ Reaches(model, H, Len(H), b.t)
    BY <1>1, <1>3
  <2>2. pos <= pos /\ 2 * model.day < pos
    BY <1>1 DEF Models
  <2>3. B \in Seq(Bars)
    BY <1>1, <1>5
  <2> HIDE DEF b, H
  <2>4. InOrder(model, B, pos)
    BY <1>1, <1>4, <1>5, <2>1, <2>2, InOrderAppend
  <2> QED
    BY <2>3, <2>4
<1>9. /\ IF v.ok THEN Done(n, NoWait, v.act)
         ELSE Done([model EXCEPT !.complete = FALSE, !.available = FALSE], NoWait, 0)
  BY <1>5 DEF BarsReplayed
<1>10. Carries(v, model, B, pos, t, Len(B))
  <2>1. 2 * model.day <= pos
    BY <1>1 DEF Models
  <2> HIDE DEF B, t
  <2>2. v = Replayed(model, B, t, c)
    OBVIOUS
  <2> HIDE DEF v
  <2> QED
    BY <1>1, <1>3, <1>4, <1>6, <1>8, <2>1, <2>2, ReplayKeeps
<1> DEFINE k == Len(H)
<1>11. /\ k \in Nat /\ Len(B) = k + 1 /\ DOMAIN B = 1 .. k + 1 /\ B[k + 1] = b
       /\ \A i \in 1 .. k : B[i] = H[i]
  BY <1>1, <1>5
<1> HIDE DEF v, l, q, t, B
<1>12. CASE v.ok
  <2>1. /\ n \in Models /\ v.act \in Nat /\ Founded(n, model, B, pos, k + 1)
        /\ v.act # 0 => n.origin = "own" /\ t <= v.act + LateWindow
    BY <1>10, <1>11, <1>12 DEF Carries
  <2>2. /\ n.complete /\ n.available /\ n.inTurn /\ n.funded % Period = 0
        /\ n.day % Period = 0 /\ n.day >= Period /\ InTime(n) /\ Abreast(n) /\ 2 * n.day <= pos
        /\ n.origin = "historical" =>
             /\ model.priced <= n.priced
             /\ \A j \in DOMAIN B : j <= k + 1 /\ ~B[j].daily => B[j].t <= n.priced
        /\ n.unbroken \/ (n.origin = "historical" /\ ~model.unbroken)
    BY <2>1 DEF Founded
  <2>3. n.day \in Nat /\ n.priced \in Nat /\ model.priced \in Nat
    BY <1>1, <2>1 DEF Models
  <2>4. model.unbroken \/ lost
    BY <1>2, WaitableFacts
  <2>5. \A x \in {l, FALSE} : (n.unbroken \/ (x /\ n.origin = "historical")) => Sound(n, x)
    BY <2>2 DEF Sound, Claim, Paused, OnTheGrid
  <2>6. Sound(n, l)
    <3>1. n.unbroken \/ (l /\ n.origin = "historical")
      BY <1>7, <2>2, <2>4
    <3> QED
      BY <2>5, <3>1
  <2>7. ~b.warm => Sound(n, FALSE)
    BY <1>3, <2>2, <2>5
  <2>8. q > 2 * n.day
    <3>1. CASE b.daily
      BY <1>1, <2>2, <2>3, <3>1
    <3>2. CASE ~b.daily
      <4>1. pos = 2 * t + 1
        <5>1. At(b) = 2 * t + 1
          BY <3>2 DEF At, t
        <5> QED
          BY <1>1, <5>1
      <4> HIDE DEF n, b
      <4> QED
        BY <1>1, <2>2, <2>3, <4>1
    <3> QED
      BY <1>1, <3>1, <3>2
  <2>9. ASSUME n.origin = "historical" PROVE q \div 2 <= n.priced + 1
    <3>1. CASE ~b.daily
      <4>1. t <= n.priced
        <5>1. k + 1 \in DOMAIN B /\ k + 1 <= k + 1 /\ ~B[k + 1].daily /\ B[k + 1].t = t
          BY <1>11, <3>1 DEF t
        <5> QED
          BY <2>2, <2>9, <5>1
      <4> DEFINE h == q \div 2
      <4>2. h \in Nat /\ h <= t + 1 /\ t \in Nat
        BY <1>1
      <4> HIDE DEF h, n
      <4>3. h <= n.priced + 1
        BY <2>3, <4>1, <4>2
      <4> QED
        BY <4>3 DEF h
    <3>2. CASE b.daily
      <4>1. Reaches(model, H, k, t) /\ q \div 2 = t
        BY <1>1, <1>3, <3>2
      <4>2. CASE t <= model.priced + 1
        BY <1>1, <2>2, <2>3, <2>9, <4>1, <4>2
      <4>3. ASSUME NEW j \in DOMAIN H, j <= k, ~H[j].daily, t <= H[j].t + 1
            PROVE  t <= n.priced + 1
        <5>1. H[j] \in Bars /\ j \in 1 .. k
          BY <1>5
        <5>2. H[j].t \in Nat
          BY <5>1 DEF Bars
        <5>3. j \in DOMAIN B /\ j <= k + 1 /\ B[j] = H[j]
          BY <1>11, <5>1
        <5>4. H[j].t <= n.priced
          BY <2>2, <2>9, <4>3, <5>3
        <5> HIDE DEF n, H
        <5> QED
          BY <1>1, <2>3, <4>3, <5>2, <5>4
      <4> QED
        BY <4>1, <4>2, <4>3 DEF Reaches
    <3> QED
      BY <1>1, <3>1, <3>2
  <2>10. InOrder(n, HeldOf(NoWait), q) /\ Halted(n, NoWait) /\ Follows(n, HeldOf(NoWait), q, l)
    BY <2>9, NothingHeld DEF Follows
  <2>11. v.act # 0 => n.inTurn /\ n.unbroken /\ Bar.t <= v.act + LateWindow
    BY <2>1, <2>2 DEF t
  <2> DEFINE w == NoWait
             act == v.act
  <2>12. Done(n, w, act) /\ w = NoWait /\ act \in Nat
         /\ (act # 0 => n.inTurn /\ n.unbroken /\ Bar.t <= act + LateWindow)
    BY <1>9, <1>12, <2>1, <2>11
  <2> HIDE DEF w, act, n
  <2>13. pc = "idle" /\ n \in Models
    BY <1>2, <2>1
  <2> QED
    BY <1>7, <2>6, <2>7, <2>8, <2>10, <2>12, <2>13, DoneKeeps DEF q
<1>13. CASE ~v.ok
  <2> DEFINE r == [model EXCEPT !.complete = FALSE, !.available = FALSE]
             w == NoWait
             act == 0
  <2>1. Done(r, w, act) /\ w = NoWait /\ act \in Nat /\ ~(act # 0)
    BY <1>9, <1>13
  <2>2. /\ r \in Models /\ ~r.complete /\ r.origin = model.origin /\ r.day = model.day
        /\ r.funded = model.funded /\ r.priced = model.priced
    BY <1>1 DEF Models
  <2> HIDE DEF r
  <2>3. InTime(r) /\ OnTheGrid(r)
    BY <1>4, <2>2 DEF Sound, InTime, OnTheGrid
  <2>4. \A x : Sound(r, x)
    BY <2>2, <2>3 DEF Sound, Claim, Abreast, Paused
  <2>5. InOrder(r, HeldOf(NoWait), q) /\ Halted(r, NoWait) /\ Follows(r, HeldOf(NoWait), q, l)
    BY <2>2, NothingHeld DEF Follows
  <2>6. q > 2 * r.day
    BY <1>1, <2>2
  <2> HIDE DEF w, act
  <2> QED
    BY <1>2, <1>7, <2>1, <2>2, <2>4, <2>5, <2>6, DoneKeeps DEF q
<1> QED
  BY <1>12, <1>13

-----------------------------------------------------------------------------
(* The steps.                                                              *)

LEMMA TypeFacts ==
  ASSUME TypeOK
  PROVE  /\ model \in Models /\ gap \in Nat
         /\ wait = NoWait \/ (wait \in Waits /\ Len(wait.bars) <= MaxBars)
         /\ saved.model \in Models /\ saved.gap \in Nat /\ fresh \in BOOLEAN
         /\ decision \in Entries \cup {NoEntry}
         /\ pos \in Nat /\ since \in Nat /\ published \in Nat /\ lost \in BOOLEAN
         /\ acts \subseteq Entries /\ boot \in [rebuilt : BOOLEAN, whole : BOOLEAN]
<1>1. pos \in {pos, since, published} /\ since \in {pos, since, published}
      /\ published \in {pos, since, published}
  OBVIOUS
<1> QED
  BY <1>1 DEF TypeOK

LEMMA InitIInv == Init => IInv
<1> SUFFICES ASSUME Init PROVE IInv
  OBVIOUS
<1> DEFINE d == Day
           m == [origin |-> "historical", day |-> d, funded |-> d - Period, priced |-> d,
                 complete |-> TRUE, available |-> TRUE, inTurn |-> TRUE, unbroken |-> TRUE]
<1>1. Period \in Nat \ {0} /\ d \in Nat \ {0} /\ d >= Period /\ d % Period = 0
  BY ClockType, DayFacts
<1>2. /\ model = m /\ gap = 0 /\ wait = NoWait /\ saved = [model |-> m, gap |-> 0] /\ fresh = TRUE
      /\ pc = "down" /\ decision = NoEntry /\ pos = ReplayStart(m) /\ since = ReplayStart(m)
      /\ lost = FALSE /\ published = m.funded /\ acts = {}
      /\ boot = [rebuilt |-> FALSE, whole |-> FALSE]
  BY DEF Init
<1> HIDE DEF d
<1>3. d - Period \in Nat
  BY <1>1
<1>4. m \in Models /\ m.day = d /\ m.funded = d - Period /\ m.priced = d /\ m.complete
      /\ m.available /\ m.inTurn /\ m.unbroken /\ m.origin = "historical"
  BY <1>1, <1>3 DEF Models
<1> HIDE DEF m
<1>5. pos = 2 * d + 1 /\ pos \in Nat /\ pos > 2 * d /\ pos \div 2 = d /\ pos % 2 = 1
  <2>1. pos = 2 * d + 1
    BY <1>2, <1>4 DEF ReplayStart
  <2> QED
    BY <1>1, <2>1, Halves
<1>6. TypeOK
  <2>1. {pos, since, published} \subseteq Nat
    BY <1>2, <1>3, <1>4, <1>5
  <2> QED
    BY <1>2, <1>4, <2>1 DEF TypeOK
<1>7. \A x \in BOOLEAN : Sound(m, x)
  <2>1. OnTheGrid(m)
    <3>1. (d - Period) % Period = 0
      BY <1>1, <1>3, GridBelow
    <3> QED
      BY <1>1, <1>4, <3>1 DEF OnTheGrid
  <2>2. InTime(m)
    <3>1. Boundary(d) = d
      BY <1>1, BoundaryFacts
    <3>2. d - Period <= d
      BY <1>1
    <3> QED
      BY <1>4, <3>1, <3>2 DEF InTime
  <2>3. Abreast(m)
    BY <1>1, <1>4 DEF Abreast
  <2> QED
    BY <1>4, <2>1, <2>2, <2>3 DEF Sound, Claim, Paused
<1>8. InOrder(m, HeldOf(wait), pos) /\ Halted(m, wait)
  BY <1>2, NothingHeld
<1>9. Follows(m, HeldOf(wait), pos, lost)
  <2>1. pos \div 2 <= m.priced + 1
    BY <1>1, <1>4, <1>5
  <2> QED
    BY <1>2, <2>1, NothingHeld DEF Follows
<1>10. Ahead(m, pos)
  BY <1>1, <1>4, <1>5 DEF Ahead
<1>11. Resumes /\ InHand /\ FundedOnEvidence
  BY <1>2 DEF Resumes, InHand, FundedOnEvidence
<1>12. saved.model = m /\ lost \in BOOLEAN
  BY <1>2
<1> QED
  BY <1>2, <1>6, <1>7, <1>8, <1>9, <1>10, <1>11, <1>12 DEF IInv

LEMMA CrashKeeps ==
  ASSUME IInv, Crash
  PROVE  IInv'
<1> DEFINE m == saved.model
<1>1. /\ m \in Models /\ Sound(m, FALSE) /\ TypeOK /\ FundedOnEvidence
  BY DEF IInv, TypeOK
<1>2. m.day \in Nat /\ m.priced \in Nat
  BY <1>1 DEF Models
<1>3. pos' = 2 * m.day + 1 /\ pos' \in Nat /\ pos' \div 2 = m.day /\ pos' % 2 = 1 /\ pos' > 2 * m.day
  <2>1. pos' = 2 * m.day + 1
    BY DEF Crash, ReplayStart
  <2> HIDE DEF m
  <2> QED
    BY <1>2, <2>1, Halves
<1>4. /\ model' = m /\ gap' = saved.gap /\ wait' = NoWait /\ lost' = FALSE /\ saved' = saved
      /\ pc' = "down" /\ pos' = ReplayStart(m) /\ acts' = acts
  BY DEF Crash
<1>5. TypeOK'
  <2>1. since' \in Nat /\ published' \in Nat
    BY <1>1, TypeFacts DEF Crash
  <2>2. {pos', since', published'} \subseteq Nat
    BY <1>3, <2>1
  <2> QED
    BY <1>1, <2>2, TypeFacts DEF TypeOK, Crash
<1>6. InOrder(m, HeldOf(NoWait), pos') /\ Halted(m, NoWait)
  BY NothingHeld
<1>7. Follows(m, HeldOf(NoWait), pos', FALSE)
  <2>1. m.complete /\ m.origin = "historical" => pos' \div 2 <= m.priced + 1
    BY <1>1, <1>3 DEF Sound, Abreast
  <2> QED
    BY <2>1, NothingHeld DEF Follows
<1>8. Ahead(m, pos')
  BY <1>3 DEF Ahead
<1>9. Resumes' /\ InHand' /\ FundedOnEvidence'
  BY <1>1, <1>4 DEF Resumes, InHand, FundedOnEvidence
<1>10. saved'.model = m
  BY <1>4
<1> HIDE DEF m
<1> QED
  BY <1>1, <1>4, <1>5, <1>6, <1>7, <1>8, <1>9, <1>10 DEF IInv

LEMMA RestartKeeps ==
  ASSUME IInv, Restart
  PROVE  IInv'
<1>1. /\ model' = model /\ wait' = wait /\ pos' = pos /\ lost' = lost /\ saved' = saved
      /\ pc' = "idle" /\ acts' = acts
  BY DEF Restart, Start, feedVars
<1>2. TypeOK'
  BY DEF IInv, TypeOK, Restart, Start, feedVars
<1>3. Resumes' /\ InHand' /\ FundedOnEvidence'
  BY <1>1 DEF IInv, Resumes, InHand, FundedOnEvidence
<1> QED
  BY <1>1, <1>2, <1>3 DEF IInv

LEMMA RebuildKeeps ==
  ASSUME IInv, RestartRebuilding
  PROVE  IInv'
<1> DEFINE m == Hydrated(model)
<1>1. /\ TypeOK /\ model \in Models /\ model.day \in Nat /\ model.day % Period = 0
      /\ model.day >= Period /\ pc = "down"
  BY DEF IInv, TypeOK, Sound, OnTheGrid, Models, RestartRebuilding, Start
<1>2. pos = 2 * model.day + 1 /\ wait = NoWait /\ ~lost
  BY <1>1 DEF IInv, Resumes, ReplayStart
<1>3. model.day - Period \in Nat /\ (model.day - Period) % Period = 0
  BY <1>1, GridBelow
<1>4. /\ m \in Models /\ m.day = model.day /\ m.funded = model.day - Period
      /\ m.priced = model.day /\ m.available /\ m.inTurn /\ m.unbroken
  BY <1>1, <1>3 DEF Hydrated, Models
<1>5. /\ model' = m /\ wait' = wait /\ pos' = pos /\ lost' = lost /\ saved' = saved
      /\ pc' = "idle" /\ acts' = acts
  BY DEF RestartRebuilding, Start, feedVars
<1> HIDE DEF m
<1>6. TypeOK'
  <2>1. boot' \in [rebuilt : BOOLEAN, whole : BOOLEAN]
    BY DEF RestartRebuilding, Start
  <2>2. {pos', since', published'} \subseteq Nat /\ pc' \in {"down", "idle", "submit"}
    BY <1>1, <1>5 DEF TypeOK, RestartRebuilding, Start, feedVars
  <2> QED
    BY <1>1, <1>4, <1>5, <2>1, <2>2 DEF TypeOK, RestartRebuilding, Start, feedVars
<1>7. \A x \in BOOLEAN : Sound(m, x)
  <2>1. Boundary(m.day) = m.day
    BY <1>1, <1>4, BoundaryFacts
  <2>2. Period \in Nat
    BY ClockType
  <2>3. m.funded <= Boundary(m.day)
    BY <1>1, <1>4, <2>1, <2>2
  <2>4. m.day <= m.priced + 1
    BY <1>1, <1>4
  <2> QED
    BY <1>1, <1>3, <1>4, <2>3, <2>4 DEF Sound, Claim, InTime, Abreast, Paused, OnTheGrid
<1>8. InOrder(m, HeldOf(wait), pos) /\ Halted(m, wait)
  BY <1>2, NothingHeld
<1>9. Follows(m, HeldOf(wait), pos, lost)
  <2>1. pos \div 2 = m.day
    BY <1>1, <1>2, <1>4, Halves
  <2>2. pos \div 2 <= m.priced + 1
    BY <1>1, <1>4, <2>1
  <2> QED
    BY <1>2, <2>2, NothingHeld DEF Follows
<1>10. Ahead(m, pos)
  BY <1>4 DEF IInv, Ahead
<1>11. Resumes' /\ InHand' /\ FundedOnEvidence'
  BY <1>5 DEF IInv, Resumes, InHand, FundedOnEvidence
<1>12. Sound(saved.model, FALSE) /\ lost \in BOOLEAN
  BY <1>1, TypeFacts DEF IInv
<1> QED
  BY <1>5, <1>6, <1>7, <1>8, <1>9, <1>10, <1>11, <1>12 DEF IInv

\* The feed goes on past a candle that is missing.
LEMMA CandleLostKeeps ==
  ASSUME IInv, CandleLost
  PROVE  IInv'
<1> DEFINE q == NextPos(pos)
           H == HeldOf(wait)
<1>1. TypeOK /\ pc = "idle"
  BY DEF IInv, CandleLost
<1>2. /\ q \in Nat /\ q >= pos /\ pos \in Nat /\ q > 2 * model.day
  BY HandFacts
<1>3. Ahead(model, q)
  BY <1>2, NextPosFacts DEF Ahead
<1>4. /\ model' = model /\ gap' = gap /\ wait' = wait /\ saved' = saved /\ fresh' = fresh
      /\ pc' = pc /\ decision' = decision /\ published' = published /\ acts' = acts
      /\ lost' = TRUE /\ pos' = q /\ since' = (IF pos < since THEN since ELSE q)
      /\ boot' = [boot EXCEPT !.whole = FALSE]
  BY DEF CandleLost, Advance
<1> HIDE DEF q
<1>5. TypeOK'
  <2>1. boot' \in [rebuilt : BOOLEAN, whole : BOOLEAN]
    BY <1>1, <1>4, TypeFacts
  <2>2. since' \in Nat /\ pos' \in Nat /\ published' \in Nat
    BY <1>1, <1>2, <1>4, TypeFacts
  <2>3. {pos', since', published'} \subseteq Nat
    BY <2>2
  <2>4. pc' \in {"down", "idle", "submit"} /\ lost' \in BOOLEAN
    BY <1>1, <1>4
  <2> QED
    BY <1>1, <1>4, <2>1, <2>3, <2>4, TypeFacts DEF TypeOK
<1>6. Sound(model, TRUE)
  BY DEF IInv, Sound, Claim, Paused
<1>7. InOrder(model, H, q)
  <2>1. HeldOf(wait) \in Seq(Bars)
    BY <1>1, HeldFacts, TypeFacts
  <2>2. InOrder(model, H, pos)
    BY DEF IInv
  <2>3. \A i \in DOMAIN H : At(H[i]) <= q
    <3> SUFFICES ASSUME NEW i \in DOMAIN H PROVE At(H[i]) <= q
      OBVIOUS
    <3>1. H[i] \in Bars
      BY <2>1
    <3>2. At(H[i]) \in Nat
      BY <3>1 DEF At, Bars
    <3>3. At(H[i]) <= pos
      BY <2>2 DEF InOrder
    <3> QED
      BY <1>2, <3>2, <3>3
  <2> QED
    BY <2>2, <2>3 DEF InOrder
<1>8. Follows(model, H, q, TRUE)
  BY DEF Follows
<1>9. Resumes' /\ InHand' /\ FundedOnEvidence'
  BY <1>1, <1>4 DEF IInv, Resumes, InHand, FundedOnEvidence
<1> QED
  BY <1>3, <1>4, <1>5, <1>6, <1>7, <1>8, <1>9 DEF IInv

LEMMA SettledAlready ==
  ASSUME NEW m \in Models, NEW x \in Nat, m.funded >= x
  PROVE  Settled(m, x) = m
<1>1. m.funded \in Nat
  BY DEF Models
<1>2. ~(m.funded < x)
  BY <1>1
<1>3. [m EXCEPT !.funded = m.funded] = m
  BY DEF Models
<1> QED
  BY <1>2, <1>3 DEF Settled

LEMMA SeeTyped ==
  ASSUME NEW m \in Models, m.origin # "historical", NEW b \in Bars, NEW c
  PROVE  See(m, b, c).model \in Models
<1>1. b.t \in Nat
  BY DEF Bars
<1>2. CASE ~b.daily
  BY <1>2 DEF See, Seen, Observe
<1>3. CASE b.daily
  <2> DEFINE enters == c.verdict = "enter" /\ ~b.warm /\ m.complete /\ m.available
             next == IF c.verdict = "stay" THEN m.origin ELSE IF enters THEN "own" ELSE "none"
             n == See(m, b, c).model
  <2>1. n = m \/ n = [m EXCEPT !.day = b.t] \/ n = [m EXCEPT !.day = b.t, !.origin = next]
    BY <1>3 DEF See, Seen, TakeDaily
  <2>2. next \in {"historical", "own", "none"}
    BY DEF Models
  <2> HIDE DEF next, n, enters
  <2>3. n \in Models
    BY <1>1, <2>1, <2>2 DEF Models
  <2> QED
    BY <2>3 DEF n
<1> QED
  BY <1>2, <1>3

LEMMA BarSeenKeeps ==
  ASSUME IInv, NEW c \in ChoicesOf(<<Bar>>), BarSeen(c)
  PROVE  IInv'
<1> DEFINE k == Checked(Bar)
<1>1. TypeOK /\ model \in Models /\ pc = "idle"
  BY DEF IInv, TypeOK, BarSeen
<1>2. /\ k \in Models /\ k.origin = model.origin
      /\ k.origin # "historical" => k = model
  BY <1>1, CheckedFacts
<1>3. CASE k.origin # "historical"
  <2>1. k = model /\ model.origin # "historical"
    BY <1>2, <1>3
  <2> DEFINE s == See(k, Bar, c)
  <2>2. \/ Done(k, wait, 0)
        \/ Done(s.model, wait, s.act)
    BY DEF BarSeen
  <2>3. CASE Done(k, wait, 0)
    <3> DEFINE act == 0
    <3>1. act = 0 /\ Done(model, wait, act)
      BY <2>1, <2>3
    <3> HIDE DEF act
    <3> QED
      BY <1>1, <2>1, <3>1, OwnKeeps
  <2>4. CASE Done(s.model, wait, s.act)
    <3>1. s = See(model, Bar, c)
      BY <2>1
    <3>2. s.model \in Models
      BY <2>1, <3>1, <1>1, HandFacts, SeeTyped
    <3> DEFINE n == s.model
               a == s.act
    <3>3. \E x : x = See(model, Bar, c) /\ n = x.model /\ a = x.act
      BY <3>1
    <3>4. Done(n, wait, a) /\ n \in Models
      BY <2>4, <3>2
    <3> HIDE DEF n, a, s
    <3> QED
      BY <1>1, <2>1, <3>3, <3>4, OwnKeeps
  <2> QED
    BY <2>2, <2>3, <2>4
<1>4. CASE Waitable /\ wait = NoWait /\ model.available /\ model.funded >= Boundary(Bar.t)
  <2>1. k = model /\ GapAfter(Bar) = 0
    BY <1>4, WaitableFacts
  <2> DEFINE s == See(model, Bar, c)
  <2>2. Done(s.model, wait, s.act)
    BY <2>1 DEF BarSeen
  <2>3. Settled(model, Boundary(Bar.t)) = model
    BY <1>1, <1>4, HandFacts, BoundaryFacts, SettledAlready
  <2>4. s = See(Settled(model, Boundary(Bar.t)), Bar, c) /\ Done(s.model, NoWait, s.act)
    BY <1>4, <2>2, <2>3
  <2> HIDE DEF s
  <2> QED
    BY <1>1, <1>4, <2>4, SeenKeeps
<1> QED
  BY <1>3, <1>4 DEF BarSeen

LEMMA FundingReadKeeps ==
  ASSUME IInv, NEW c \in ChoicesOf(<<Bar>>), FundingRead(c)
  PROVE  IInv'
<1> DEFINE s == See(Settled(model, Boundary(Bar.t)), Bar, c)
<1>1. /\ pc = "idle" /\ Waitable /\ wait = NoWait /\ model.available
      /\ Done(s.model, NoWait, s.act)
  BY DEF FundingRead, Unsettled
<1>2. s = See(Settled(model, Boundary(Bar.t)), Bar, c)
  OBVIOUS
<1> HIDE DEF s
<1> QED
  BY <1>1, <1>2, SeenKeeps

\* A model that needs a rebuild claims nothing.
LEMMA UnmodelledKeeps ==
  ASSUME IInv, BarUnmodelled
  PROVE  IInv'
<1> DEFINE k == Checked(Bar)
           q == NextPos(pos)
           l == lost /\ ~Bar.daily
           w == NoWait
           act == 0
<1>1. /\ TypeOK /\ InTime(model) /\ OnTheGrid(model) /\ lost \in BOOLEAN /\ model \in Models
  BY TypeFacts DEF IInv, Sound
<1>2. /\ k \in Models /\ k.origin = "historical" /\ ~k.complete
      /\ k = model \/ k = [model EXCEPT !.complete = FALSE]
  BY <1>1, CheckedFacts DEF BarUnmodelled
<1>3. k.day = model.day /\ k.funded = model.funded /\ k.priced = model.priced
      /\ k.origin = model.origin
  BY <1>1, <1>2 DEF Models
<1>4. Done(k, w, act) /\ pc = "idle" /\ w = NoWait /\ act \in Nat /\ ~(act # 0)
  BY DEF BarUnmodelled
<1>5. q > 2 * model.day
  BY HandFacts
<1> HIDE DEF k, q
<1>6. \A x : Sound(k, x)
  <2>1. InTime(k) /\ OnTheGrid(k)
    BY <1>1, <1>3 DEF InTime, OnTheGrid
  <2> QED
    BY <1>2, <2>1 DEF Sound, Claim, Abreast, Paused
<1>7. InOrder(k, HeldOf(w), q) /\ Halted(k, w) /\ Follows(k, HeldOf(w), q, l)
  BY <1>2, NothingHeld DEF Follows
<1>8. l \in BOOLEAN /\ l = (lost /\ ~Bar.daily)
  BY <1>1
<1>9. q > 2 * k.day
  BY <1>3, <1>5
<1> HIDE DEF l, w, act
<1> QED
  BY <1>2, <1>4, <1>6, <1>7, <1>8, <1>9, DoneKeeps DEF q

LEMMA FundingLateKeeps ==
  ASSUME IInv, FundingLate
  PROVE  IInv'
<1> DEFINE m == [model EXCEPT !.available = FALSE]
           w == NewWait
<1>1. /\ pc = "idle" /\ Waitable /\ wait = NoWait /\ model.funded < Boundary(Bar.t)
      /\ Held(m, w)
  BY DEF FundingLate, Unsettled
<1>2. m \in Models /\ m = [model EXCEPT !.available = FALSE]
  <2>1. model \in Models
    BY HandFacts
  <2> QED
    BY <2>1 DEF Models
<1>3. w \in Waits /\ w.bars = HeldOf(wait) /\ Len(w.bars) <= MaxBars
  BY <1>1, BoundsType DEF NewWait, Waits, HeldOf
<1> HIDE DEF m, w
<1> QED
  BY <1>1, <1>2, <1>3, HeldKeeps

LEMMA WaitResumedKeeps ==
  ASSUME IInv, WaitResumed
  PROVE  IInv'
<1> DEFINE w == NewWait
<1>1. pc = "idle" /\ Waitable /\ wait = NoWait /\ ~model.available /\ Held(model, w)
  BY DEF WaitResumed
<1>2. model \in Models /\ model = [model EXCEPT !.available = FALSE]
  <2>1. model \in Models
    BY HandFacts
  <2>2. model.available = FALSE
    BY <1>1, <2>1 DEF Models
  <2> QED
    BY <2>1, <2>2 DEF Models
<1>3. w \in Waits /\ w.bars = HeldOf(wait) /\ Len(w.bars) <= MaxBars
  BY <1>1, BoundsType DEF NewWait, Waits, HeldOf
<1> HIDE DEF w
<1> QED
  BY <1>1, <1>2, <1>3, HeldKeeps

LEMMA BarHeldKeeps ==
  ASSUME IInv, BarHeld
  PROVE  IInv'
<1>1. pc = "idle" /\ Waitable /\ wait # NoWait /\ Held(model, wait)
  BY DEF BarHeld
<1>2. model \in Models /\ model = [model EXCEPT !.available = FALSE] /\ ~model.available
  <2>1. model \in Models
    BY HandFacts
  <2>2. model.available = FALSE
    BY <1>1, <2>1 DEF IInv, Halted, Models
  <2> QED
    BY <2>1, <2>2 DEF Models
<1>3. wait \in Waits /\ wait.bars = HeldOf(wait) /\ Len(wait.bars) <= MaxBars
  <2>1. TypeOK
    BY DEF IInv
  <2> QED
    BY <1>1, <2>1, TypeFacts DEF HeldOf
<1> QED
  BY <1>1, <1>2, <1>3, HeldKeeps

LEMMA SubmitKeeps ==
  ASSUME IInv, Submit
  PROVE  IInv'
<1>1. /\ model' = model /\ wait' = wait /\ pos' = pos /\ lost' = lost /\ saved' = saved
      /\ pc' = "idle" /\ acts' = acts \cup {decision} /\ pc = "submit" /\ decision' = NoEntry
  BY DEF Submit, feedVars
<1>2. decision \in Entries /\ Justified(decision)
  BY <1>1 DEF IInv, InHand
<1>3. TypeOK'
  BY <1>1, <1>2 DEF IInv, TypeOK, Submit, feedVars
<1>4. FundedOnEvidence'
  BY <1>1, <1>2 DEF IInv, FundedOnEvidence, Justified
<1>5. Resumes' /\ InHand'
  BY <1>1 DEF Resumes, InHand
<1> QED
  BY <1>1, <1>3, <1>4, <1>5 DEF IInv

LEMMA PublishKeeps ==
  ASSUME IInv, Publish
  PROVE  IInv'
<1>1. /\ model' = model /\ wait' = wait /\ pos' = pos /\ lost' = lost /\ saved' = saved
      /\ pc' = pc /\ acts' = acts /\ decision' = decision
  BY DEF Publish, feedVars
<1>2. TypeOK'
  <2>1. TypeOK
    BY DEF IInv
  <2>2. pos' \in Nat /\ since' \in Nat /\ published' \in Nat
    BY <2>1, ClockType, TypeFacts DEF Publish, feedVars
  <2>3. {pos', since', published'} \subseteq Nat
    BY <2>2
  <2> QED
    BY <2>1, <2>3 DEF TypeOK, Publish, feedVars
<1>3. Resumes' /\ InHand' /\ FundedOnEvidence'
  BY <1>1 DEF IInv, Resumes, InHand, FundedOnEvidence
<1> QED
  BY <1>1, <1>2, <1>3 DEF IInv

LEMMA DowntimeKeeps ==
  ASSUME IInv, Downtime
  PROVE  IInv'
<1>1. /\ model' = model /\ wait' = wait /\ pos' = pos /\ lost' = lost /\ saved' = saved
      /\ pc' = pc /\ acts' = acts /\ decision' = decision
  BY DEF Downtime
<1>2. TypeOK'
  <2>1. TypeOK
    BY DEF IInv
  <2>2. since \in Nat /\ since \div 2 \in Nat
    BY <2>1, TypeFacts, Half
  <2> DEFINE h == since \div 2
  <2>3. since' = since \/ since' = 2 * (h + 1) + 1
    BY DEF Downtime, NextMinutePos
  <2>4. h \in Nat
    BY <2>2
  <2> HIDE DEF h
  <2>5. pos' \in Nat /\ since' \in Nat /\ published' \in Nat
    BY <2>1, <2>2, <2>3, <2>4, TypeFacts DEF Downtime
  <2>6. {pos', since', published'} \subseteq Nat
    BY <2>5
  <2> QED
    BY <2>1, <2>6 DEF TypeOK, Downtime
<1>3. Resumes' /\ InHand' /\ FundedOnEvidence'
  BY <1>1 DEF IInv, Resumes, InHand, FundedOnEvidence
<1> QED
  BY <1>1, <1>2, <1>3 DEF IInv

\* The read in the background leaves the held bars alone.
LEMMA TaskKeeps ==
  ASSUME IInv, NEW from,
         NEW to \in {"none", "running", "ok", "failed", "resting"}, TaskTurns(from, to)
  PROVE  IInv'
<1> DEFINE w == [wait EXCEPT !.task = to]
<1>1. /\ model' = model /\ wait' = w /\ pos' = pos /\ lost' = lost /\ saved' = saved
      /\ pc' = pc /\ acts' = acts /\ decision' = decision /\ wait # NoWait
  BY DEF TaskTurns, feedVars
<1>2. wait \in Waits /\ Len(wait.bars) <= MaxBars /\ TypeOK
  BY <1>1, TypeFacts DEF IInv
<1>3. w \in Waits /\ w.bars = wait.bars
  BY <1>2 DEF Waits
<1> HIDE DEF w
<1>4. w # NoWait
  BY <1>3 DEF NoWait, Waits
<1>5. HeldOf(w) = HeldOf(wait)
  BY <1>1, <1>3, <1>4 DEF HeldOf
<1>6. Halted(model, w)
  BY <1>1 DEF IInv, Halted
<1>7. TypeOK'
  <2>1. wait' \in Waits /\ Len(wait'.bars) <= MaxBars
    BY <1>1, <1>2, <1>3
  <2> QED
    BY <1>2, <2>1 DEF TypeOK, TaskTurns, feedVars
<1>8. Resumes' /\ InHand' /\ FundedOnEvidence'
  BY <1>1 DEF IInv, Resumes, InHand, FundedOnEvidence
<1> QED
  BY <1>1, <1>5, <1>6, <1>7, <1>8 DEF IInv

LEMMA StutterKeeps ==
  ASSUME IInv, UNCHANGED vars
  PROVE  IInv'
<1>1. /\ model' = model /\ wait' = wait /\ pos' = pos /\ lost' = lost /\ saved' = saved
      /\ pc' = pc /\ acts' = acts /\ decision' = decision
  BY DEF vars, feedVars
<1>2. TypeOK'
  BY DEF IInv, TypeOK, vars, feedVars
<1>3. Resumes' /\ InHand' /\ FundedOnEvidence'
  BY <1>1 DEF IInv, Resumes, InHand, FundedOnEvidence
<1> QED
  BY <1>1, <1>2, <1>3 DEF IInv

LEMMA StepIInv == IInv /\ [Next]_vars => IInv'
<1> SUFFICES ASSUME IInv, [Next]_vars PROVE IInv'
  OBVIOUS
<1>1. CASE Crash
  BY <1>1, CrashKeeps
<1>2. CASE Downtime
  BY <1>2, DowntimeKeeps
<1>3. CASE Restart
  BY <1>3, RestartKeeps
<1>4. CASE RestartRebuilding
  BY <1>4, RebuildKeeps
<1>5. CASE CandleLost
  BY <1>5, CandleLostKeeps
<1>6. CASE Feed
  <2>1. ASSUME NEW c \in ChoicesOf(<<Bar>>), BarSeen(c) PROVE IInv'
    BY <2>1, BarSeenKeeps
  <2>2. ASSUME NEW c \in ChoicesOf(<<Bar>>), FundingRead(c) PROVE IInv'
    BY <2>2, FundingReadKeeps
  <2>3. ASSUME NEW c \in ChoicesOf(HeldBars), BarsReplayed(c) PROVE IInv'
    BY <2>3, ReplayedKeeps
  <2>4. CASE BarUnmodelled
    BY <2>4, UnmodelledKeeps
  <2>5. CASE FundingLate
    BY <2>5, FundingLateKeeps
  <2>6. CASE WaitResumed
    BY <2>6, WaitResumedKeeps
  <2>7. CASE BarHeld
    BY <2>7, BarHeldKeeps
  <2> QED
    BY <1>6, <2>1, <2>2, <2>3, <2>4, <2>5, <2>6, <2>7 DEF Feed
<1>7. CASE Submit
  BY <1>7, SubmitKeeps
<1>8. CASE Publish
  BY <1>8, PublishKeeps
<1>9. CASE ReadAnswered
  <2>1. TaskTurns("running", "ok")
    BY <1>9 DEF ReadAnswered
  <2> QED
    BY <2>1, TaskKeeps
<1>10. CASE ReadFails
  <2>1. TaskTurns("running", "failed")
    BY <1>10 DEF ReadFails
  <2> QED
    BY <2>1, TaskKeeps
<1>11. CASE PauseOver
  <2>1. TaskTurns("resting", "none")
    BY <1>11 DEF PauseOver
  <2> QED
    BY <2>1, TaskKeeps
<1>12. CASE UNCHANGED vars
  BY <1>12, StutterKeeps
<1> QED
  BY <1>1, <1>2, <1>3, <1>4, <1>5, <1>6, <1>7, <1>8, <1>9, <1>10, <1>11, <1>12 DEF Next

\* In every reachable state the inductive invariant holds: a model that claims to be complete
\* has been judged on every minute in turn, the held bars are those of the feed behind it, and
\* the snapshot would stand the next restart.
THEOREM Invariance == Spec => []IInv
<1>1. Init => IInv
  BY InitIInv
<1>2. IInv /\ [Next]_vars => IInv'
  BY StepIInv
<1> QED
  BY <1>1, <1>2, PTL DEF Spec

\* Whatever the reads, the restarts and the held bars did, a funded entry was submitted in its
\* late window and on a model judged after just the settlements due (portfolio_live.py,
\* _replay_historical_bars).
THEOREM EntriesFundedOnEvidence == Spec => []FundedOnEvidence
<1>1. IInv => FundedOnEvidence
  BY DEF IInv
<1> QED
  BY <1>1, Invariance, PTL

\* A wait stays in its bound, and a campaign reported complete and funded has missed no minute
\* and no settlement unless a candle of the running day is missing.
THEOREM ModelAlwaysSound == Spec => []ModelIsSound
<1>1. IInv => ModelIsSound
  BY DEF IInv, Sound, Claim, ModelIsSound, ClaimIsSound
<1> QED
  BY <1>1, Invariance, PTL

=============================================================================
