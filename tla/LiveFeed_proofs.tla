---------------------------- MODULE LiveFeed_proofs ----------------------------
(***************************************************************************)
(* Machine-checked proofs about LiveFeed, for every set of spans, every    *)
(* bound on the gaps asked for, every look-back and every clock: the       *)
(* stream is consistent, and it implements BarFeed.                        *)
(***************************************************************************)
EXTENDS LiveFeed, WellFoundedInduction, TLAPS

-----------------------------------------------------------------------------
(* Arithmetic of buckets.                                                  *)

LEMMA Division ==
  ASSUME NEW t \in Nat, NEW s \in Nat \ {0}
  PROVE  t = s * (t \div s) + (t % s) /\ t \div s \in Nat /\ t % s \in 0 .. s - 1
OBVIOUS

LEMMA MultipleRemainder ==
  ASSUME NEW q \in Nat, NEW s \in Nat \ {0}, NEW r \in 0 .. s - 1
  PROVE  (s * q + r) % s = r
OBVIOUS

LEMMA Multiple ==
  ASSUME NEW q \in Nat, NEW s \in Nat \ {0}
  PROVE  (s * q) % s = 0
<1>1. 0 \in 0 .. s - 1 /\ s * q + 0 = s * q
  OBVIOUS
<1>2. (s * q + 0) % s = 0
  BY <1>1, MultipleRemainder
<1> QED
  BY <1>1, <1>2

LEMMA MultiplesApart ==
  ASSUME NEW a \in Nat, NEW b \in Nat, NEW s \in Nat \ {0}, a % s = 0, b % s = 0, a < b
  PROVE  a + s <= b
<1>1. ASSUME NEW q \in Nat, NEW r \in Nat, s * q < s * r
      PROVE  s * q + s <= s * r
  <2>1. q < r
    BY <1>1
  <2>2. q + 1 <= r
    BY <2>1
  <2>3. s * (q + 1) <= s * r
    BY <2>2
  <2> QED
    BY <2>3
<1>2. /\ a = s * (a \div s) /\ b = s * (b \div s)
      /\ a \div s \in Nat /\ b \div s \in Nat
  BY Division
<1> QED
  BY <1>1, <1>2

\* A bucket begins at a multiple of its span and holds its minutes.
LEMMA BucketBounds ==
  ASSUME NEW t \in Nat, NEW s \in Nat \ {0}
  PROVE  /\ BucketStart(t, s) \in Nat
         /\ BucketStart(t, s) % s = 0
         /\ (BucketStart(t, s) + s) % s = 0
         /\ BucketStart(t, s) <= t /\ t < BucketStart(t, s) + s
<1>1. t = s * (t \div s) + (t % s) /\ t \div s \in Nat /\ t % s \in 0 .. s - 1
  BY Division
<1>2. BucketStart(t, s) = s * (t \div s)
  BY <1>1 DEF BucketStart
<1>3. BucketStart(t, s) + s = s * (t \div s + 1) /\ t \div s + 1 \in Nat
  BY <1>1, <1>2
<1>4. BucketStart(t, s) % s = 0 /\ (BucketStart(t, s) + s) % s = 0
  BY <1>1, <1>2, <1>3, Multiple
<1>5. BucketStart(t, s) = t - (t % s) /\ t % s \in Nat /\ t % s < s
  BY <1>1 DEF BucketStart
<1>6. BucketStart(t, s) <= t /\ t < BucketStart(t, s) + s
  BY <1>5
<1>7. BucketStart(t, s) \in Nat
  BY <1>1, <1>2
<1> QED
  BY <1>4, <1>6, <1>7

\* The bucket of a minute is the only one that holds it.
LEMMA BucketUnique ==
  ASSUME NEW t \in Nat, NEW s \in Nat \ {0}, NEW e \in Nat, e % s = 0, t < e, e - s <= t
  PROVE  BucketStart(t, s) = e - s
<1> DEFINE a == BucketStart(t, s)
<1>1. a \in Nat /\ a % s = 0 /\ (a + s) % s = 0 /\ a <= t /\ t < a + s
  BY BucketBounds
<1> HIDE DEF a
<1>2. a + s <= e
  <2>1. a < e
    BY <1>1
  <2> QED
    BY <1>1, <2>1, MultiplesApart
<1>3. ~(a + s < e)
  <2> SUFFICES ASSUME a + s < e PROVE FALSE
    OBVIOUS
  <2>1. a + s \in Nat
    BY <1>1
  <2>2. (a + s) + s <= e
    BY <1>1, <2>1, MultiplesApart
  <2> QED
    BY <1>1, <2>2
<1>4. a = e - s
  BY <1>1, <1>2, <1>3
<1> QED
  BY <1>4 DEF a

\* A later minute is of the same bucket or beyond its end.
LEMMA BucketsInOrder ==
  ASSUME NEW k \in Nat, NEW m \in Nat, NEW s \in Nat \ {0}, k < m
  PROVE  \/ BucketStart(k, s) = BucketStart(m, s)
         \/ BucketStart(k, s) + s <= BucketStart(m, s)
<1> DEFINE a == BucketStart(k, s)
           b == BucketStart(m, s)
<1>1. /\ a \in Nat /\ a % s = 0 /\ (a + s) % s = 0 /\ a <= k /\ k < a + s
      /\ b \in Nat /\ b % s = 0 /\ (b + s) % s = 0 /\ b <= m /\ m < b + s
  BY BucketBounds
<1> HIDE DEF a, b
<1>2. a < b => a + s <= b
  BY <1>1, MultiplesApart
<1>3. b < a => b + s <= a
  BY <1>1, MultiplesApart
<1>4. ~(b + s <= a)
  BY <1>1
<1>5. a = b \/ a + s <= b
  <2>1. a < b \/ a = b \/ b < a
    BY <1>1
  <2> QED
    BY <1>2, <1>3, <1>4, <2>1
<1> QED
  BY <1>5 DEF a, b

\* The least element of a set of minutes.
LEMMA LeastNat ==
  ASSUME NEW T, T \subseteq Nat, T # {}
  PROVE  \E x \in T : \A y \in T : x <= y
<1> DEFINE R == OpToRel(<, Nat)
<1>1. \E x \in T : \A y \in T : ~ (<<y, x>> \in R)
  BY NatLessThanWellFounded, WFMin
<1>2. ASSUME NEW x \in Nat, NEW y \in Nat, ~(<<y, x>> \in R)
      PROVE  x <= y
  <2>1. y < x <=> <<y, x>> \in R
    <3>1. R = {ss \in Nat \X Nat : ss[1] < ss[2]}
      BY DEF OpToRel
    <3>2. <<y, x>> \in Nat \X Nat /\ <<y, x>>[1] = y /\ <<y, x>>[2] = x
      OBVIOUS
    <3> QED
      BY <3>1, <3>2
  <2> HIDE DEF R
  <2> QED
    BY <1>2, <2>1
<1> QED
  BY <1>1, <1>2

LEMMA MinOfMinutes ==
  ASSUME NEW T, T \subseteq Nat, T # {}
  PROVE  Min(T) \in T /\ \A y \in T : Min(T) <= y
BY LeastNat DEF Min

LEMMA MinIs ==
  ASSUME NEW T, T \subseteq Nat, NEW x \in T, \A y \in T : x <= y
  PROVE  Min(T) = x
<1>1. T # {}
  OBVIOUS
<1>2. Min(T) \in T /\ Min(T) <= x
  BY <1>1, MinOfMinutes
<1>3. x <= Min(T) /\ Min(T) \in Nat /\ x \in Nat
  BY <1>2
<1> QED
  BY <1>2, <1>3

-----------------------------------------------------------------------------
(* The inductive invariant.                                                *)

Seen == {b.ts : b \in given}

\* The cursor is the last of the minutes given.
CursorInv ==
  /\ last = None => given = {}
  /\ last # None => last \in Seen
  /\ \A k \in Seen : k <= last

\* The open bucket of a span is that of the cursor and holds the given minutes
\* of its time; it is empty once its last minute came.  A span is in its first
\* bucket as long as that is all that was given.
BucketInv ==
  \A s \in Spans :
    /\ start[s] = IF last = None THEN None ELSE BucketStart(last, s)
    /\ bucket[s] = IF last = None \/ Closes(s, last) THEN {}
                   ELSE {k \in Seen : k >= start[s]}
    /\ s \in first <=> bucket[s] = Seen

\* What was reported is what has ended.
ReportInv == Feed!Reported = Feed!Ended(last, Seen)

WarmInv == warm => \A b \in given : b.warmup

IInv ==
  /\ TypeOK /\ HolesAreEvidenced
  /\ CursorInv /\ BucketInv /\ ReportInv /\ WarmInv

-----------------------------------------------------------------------------
(* One minute m after the cursor, and one span.                            *)

LEMMA SeenType == TypeOK => Seen \subseteq Minutes /\ Seen \subseteq Nat
BY FeedType DEF TypeOK, Seen, Bars, Minutes

LEMMA SpanType == ASSUME NEW s \in Spans PROVE s \in Nat \ {0}
BY FeedType

\* The buckets that have ended, in the words of the reader.
LEMMA EndedAt ==
  ASSUME NEW s, NEW e, NEW m \in Int, NEW seen, seen \subseteq Nat
  PROVE  <<s, e>> \in Feed!Ended(m, seen) <=>
           /\ s \in Spans /\ e \in 1 .. m + 1 /\ e % s = 0
           /\ \E k \in seen : e - s <= k /\ k < e
           /\ \E k \in seen : k <= e - s
<1>1. <<s, e>> \in Feed!Ended(m, seen) <=>
           /\ <<s, e>> \in Spans \X (1 .. m + 1)
           /\ e % s = 0
           /\ ((e - s) .. (e - 1)) \cap seen # {}
           /\ \E k \in seen : k <= e - s
  BY DEF Feed!Ended
<1>2. ASSUME s \in Spans, e \in 1 .. m + 1
      PROVE  ((e - s) .. (e - 1)) \cap seen # {} <=> \E k \in seen : e - s <= k /\ k < e
  <2>1. s \in Nat /\ e \in Nat
    BY <1>2, SpanType
  <2>2. \A k \in seen : k \in (e - s) .. (e - 1) <=> e - s <= k /\ k < e
    BY <2>1
  <2> QED
    BY <2>2
<1> QED
  BY <1>1, <1>2

LEMMA HasEnded ==
  ASSUME NEW s \in Spans, NEW a \in Nat, NEW m \in Nat, NEW seen, seen \subseteq Nat,
         a + s <= m + 1, (a + s) % s = 0,
         \E k \in seen : a <= k /\ k < a + s, \E k \in seen : k <= a
  PROVE  <<s, a + s>> \in Feed!Ended(m, seen)
<1> DEFINE e == a + s
<1>1. s \in Nat \ {0} /\ e \in 1 .. m + 1 /\ e % s = 0 /\ e - s = a
  BY SpanType
<1>2. \E k \in seen : a <= k /\ k < e
  OBVIOUS
<1> HIDE DEF e
<1>3. m \in Int
  OBVIOUS
<1>4. <<s, e>> \in Feed!Ended(m, seen)
  BY <1>1, <1>2, <1>3, EndedAt
<1> QED
  BY <1>4 DEF e

\* Of the bucket that minute m leaves behind or continues.
LEMMA LastBucket ==
  ASSUME IInv, NEW m \in Nat, last < m, NEW s \in Spans, last # None
  PROVE  LET a == BucketStart(last, s)
             b == BucketStart(m, s)
         IN  /\ s \in Nat \ {0} /\ last \in Nat /\ last \in Seen
             /\ a \in Nat /\ b \in Nat
             /\ a <= last /\ last < a + s /\ b <= m /\ m < b + s
             /\ (a + s) % s = 0 /\ (b + s) % s = 0
             /\ a = b \/ a + s <= b
             /\ start[s] = a
             /\ Closes(s, last) <=> last + 1 = a + s
             /\ Closes(s, m) <=> m + 1 = b + s
<1>1. s \in Nat \ {0} /\ last \in Nat /\ last \in Seen /\ start[s] = BucketStart(last, s)
  BY SpanType, FeedType DEF IInv, TypeOK, Minutes, CursorInv, BucketInv
<1> QED
  BY <1>1, BucketBounds, BucketsInOrder DEF Closes

LEMMA LeftIs ==
  ASSUME IInv, NEW m \in Nat, last < m, NEW s \in Spans
  PROVE  Left(s, m) <=>
           last # None /\ last < BucketStart(m, s) /\ last + 1 # BucketStart(last, s) + s
<1>1. CASE last = None
  BY <1>1 DEF Left, IInv, BucketInv
<1>2. CASE last # None
  <2> DEFINE a == BucketStart(last, s)
             b == BucketStart(m, s)
  <2>1. /\ s \in Nat \ {0} /\ last \in Nat /\ last \in Seen /\ a \in Nat /\ b \in Nat
        /\ a <= last /\ last < a + s /\ b <= m /\ m < b + s
        /\ a = b \/ a + s <= b
        /\ start[s] = a
        /\ Closes(s, last) <=> last + 1 = a + s
    BY <1>2, LastBucket
  <2>2. bucket[s] = IF Closes(s, last) THEN {} ELSE {k \in Seen : k >= start[s]}
    BY <1>2 DEF IInv, BucketInv
  <2>3. Left(s, m) <=> start[s] # None /\ start[s] # b /\ bucket[s] # {}
    BY DEF Left
  <2> HIDE DEF a, b
  <2>4. bucket[s] # {} <=> last + 1 # a + s
    BY <2>1, <2>2
  <2>5. start[s] # None
    BY <2>1 DEF None
  <2>6. start[s] # b <=> last < b
    BY <2>1
  <2>7. Left(s, m) <=> last # None /\ last < b /\ last + 1 # a + s
    BY <1>2, <2>3, <2>4, <2>5, <2>6
  <2> QED
    BY <2>7 DEF a, b
<1> QED
  BY <1>1, <1>2

LEMMA FilledIs ==
  ASSUME IInv, NEW m \in Nat, last < m, NEW s \in Spans
  PROVE  Filled(s, m) = {k \in Seen \cup {m} : k >= BucketStart(m, s)}
<1>1. CASE last = None
  <2>1. Seen = {} /\ bucket[s] = {} /\ s \in Nat \ {0}
    BY <1>1, SpanType DEF IInv, CursorInv, BucketInv, Seen
  <2>2. m >= BucketStart(m, s)
    BY <2>1, BucketBounds
  <2> QED
    BY <2>1, <2>2 DEF Filled
<1>2. CASE last # None
  <2> DEFINE a == BucketStart(last, s)
             b == BucketStart(m, s)
  <2>1. /\ s \in Nat \ {0} /\ last \in Nat /\ last \in Seen /\ a \in Nat /\ b \in Nat
        /\ a <= last /\ last < a + s /\ b <= m /\ m < b + s
        /\ a = b \/ a + s <= b
        /\ start[s] = a
        /\ Closes(s, last) <=> last + 1 = a + s
    BY <1>2, LastBucket
  <2>2. bucket[s] = IF Closes(s, last) THEN {} ELSE {k \in Seen : k >= start[s]}
    BY <1>2 DEF IInv, BucketInv
  <2>3. Left(s, m) <=> last < b /\ last + 1 # a + s
    BY <1>2, LeftIs
  <2>4. Filled(s, m) = {m} \cup IF Left(s, m) THEN {} ELSE bucket[s]
    BY DEF Filled
  <2>5. Seen \subseteq Nat /\ \A k \in Seen : k <= last
    BY SeenType DEF IInv, CursorInv
  <2> HIDE DEF a, b
  <2>6. CASE last < b
    <3>1. Filled(s, m) = {m}
      BY <2>1, <2>2, <2>3, <2>4, <2>6
    <3>2. \A k \in Seen : ~(k >= b)
      BY <2>1, <2>5, <2>6
    <3>3. {k \in Seen \cup {m} : k >= b} = {m}
      BY <2>1, <3>2
    <3> QED
      BY <3>1, <3>3 DEF b
  <2>7. CASE ~(last < b)
    <3>1. a = b /\ last + 1 # a + s
      BY <2>1, <2>7
    <3>2. Filled(s, m) = {m} \cup {k \in Seen : k >= b}
      BY <2>1, <2>2, <2>3, <2>4, <2>7, <3>1
    <3> QED
      BY <2>1, <3>2 DEF b
  <2> QED
    BY <2>6, <2>7
<1> QED
  BY <1>1, <1>2

LEMMA FirstIs ==
  ASSUME IInv, NEW m \in Nat, last < m, NEW s \in Spans
  PROVE  s \in first /\ ~Left(s, m) /\ ~Closes(s, m)
           <=> (IF Closes(s, m) THEN {} ELSE Filled(s, m)) = Seen \cup {m}
<1>1. s \in first <=> bucket[s] = Seen
  BY DEF IInv, BucketInv
<1>2. ASSUME s \in first, ~Left(s, m), ~Closes(s, m)
      PROVE  Filled(s, m) = Seen \cup {m}
  BY <1>1, <1>2 DEF Filled
<1>3. ASSUME Filled(s, m) = Seen \cup {m}
      PROVE  s \in first /\ ~Left(s, m)
  <2>1. CASE last = None
    BY <1>1, <2>1 DEF IInv, CursorInv, BucketInv, Seen, Left
  <2>2. CASE last # None
    <3> DEFINE a == BucketStart(last, s)
               b == BucketStart(m, s)
    <3>1. /\ s \in Nat \ {0} /\ last \in Nat /\ last \in Seen /\ a \in Nat /\ b \in Nat
          /\ a <= last /\ last < a + s /\ b <= m /\ m < b + s
          /\ a = b \/ a + s <= b
          /\ start[s] = a
          /\ Closes(s, last) <=> last + 1 = a + s
      BY <2>2, LastBucket
    <3>2. bucket[s] = IF Closes(s, last) THEN {} ELSE {k \in Seen : k >= start[s]}
      BY <2>2 DEF IInv, BucketInv
    <3>3. Left(s, m) <=> last < b /\ last + 1 # a + s
      BY <2>2, LeftIs
    <3>4. Seen \cup {m} = {k \in Seen \cup {m} : k >= b}
      BY <1>3, FilledIs
    <3> HIDE DEF a, b
    <3>5. \A k \in Seen : k >= b
      BY <3>4
    <3>6. last >= b /\ a = b /\ last + 1 # a + s
      BY <3>1, <3>5
    <3>7. bucket[s] = Seen
      BY <3>1, <3>2, <3>5, <3>6
    <3> QED
      BY <1>1, <3>1, <3>3, <3>6, <3>7
  <2> QED
    BY <2>1, <2>2
<1> QED
  BY <1>2, <1>3

\* The bars that minute m completes are those of buckets that have ended by it
\* and were not reported.
LeftAt(s, e) == Left(s, e) /\ Reportable(s, bucket[s], start[s])
ClosedAt(s, m) ==
  Closes(s, m) /\ (~FirstAfter(s, m) \/ Min(Filled(s, m)) = BucketStart(m, s))

LEMMA LeftHasEnded ==
  ASSUME IInv, NEW m \in Nat, last < m, NEW s \in Spans, LeftAt(s, m)
  PROVE  <<s, start[s] + s>> \in Feed!Ended(m, Seen \cup {m}) \ Feed!Ended(last, Seen)
<1> DEFINE a == BucketStart(last, s)
           b == BucketStart(m, s)
<1>1. last # None /\ last < b /\ last + 1 # a + s
  BY LeftIs DEF LeftAt
<1>2. /\ s \in Nat \ {0} /\ last \in Nat /\ last \in Seen /\ a \in Nat /\ b \in Nat
      /\ a <= last /\ last < a + s /\ b <= m /\ m < b + s
      /\ (a + s) % s = 0
      /\ a = b \/ a + s <= b
      /\ start[s] = a
      /\ Closes(s, last) <=> last + 1 = a + s
  BY <1>1, LastBucket
<1>3. bucket[s] = {k \in Seen : k >= a}
  BY <1>1, <1>2 DEF IInv, BucketInv
<1>4. Seen \subseteq Nat
  BY SeenType DEF IInv
<1>5. s \notin first \/ Min(bucket[s]) = a
  BY <1>2 DEF LeftAt, Reportable
<1>6. s \in first <=> bucket[s] = Seen
  BY DEF IInv, BucketInv
<1> HIDE DEF a, b
<1>7. \E k \in Seen : k <= a
  <2>1. CASE s \notin first
    <3>1. ~ \A k \in Seen : k >= a
      BY <1>3, <1>6, <2>1
    <3> QED
      BY <1>2, <1>4, <3>1
  <2>2. CASE Min(bucket[s]) = a
    <3>1. bucket[s] \subseteq Nat /\ bucket[s] # {}
      BY <1>2, <1>3, <1>4
    <3>2. a \in Seen
      BY <1>3, <2>2, <3>1, MinOfMinutes
    <3> QED
      BY <1>2, <3>2
  <2> QED
    BY <1>5, <2>1, <2>2
<1>8. /\ a + s \in 1 .. m + 1 /\ a + s > last + 1
      /\ a + s - s <= last /\ last < a + s
      /\ a + s - s = a
  BY <1>1, <1>2
<1>9. <<s, a + s>> \in Feed!Ended(m, Seen \cup {m})
  <2>1. Seen \cup {m} \subseteq Nat /\ \E k \in Seen \cup {m} : a <= k /\ k < a + s
    BY <1>1, <1>2, <1>4
  <2>2. \E k \in Seen \cup {m} : k <= a
    BY <1>7
  <2>3. a \in Nat /\ a + s <= m + 1 /\ (a + s) % s = 0
    BY <1>1, <1>2, <1>8
  <2> QED
    BY <2>1, <2>2, <2>3, HasEnded
<1>10. <<s, a + s>> \notin Feed!Ended(last, Seen)
  <2>1. a + s \notin 1 .. last + 1
    BY <1>2, <1>8
  <2>2. last \in Int
    BY <1>2
  <2> QED
    BY <1>4, <2>1, <2>2, EndedAt
<1> QED
  BY <1>2, <1>9, <1>10

LEMMA ClosedHasEnded ==
  ASSUME IInv, NEW m \in Nat, last < m, last \in Int, NEW s \in Spans, ClosedAt(s, m)
  PROVE  <<s, BucketStart(m, s) + s>> \in Feed!Ended(m, Seen \cup {m}) \ Feed!Ended(last, Seen)
<1> DEFINE b == BucketStart(m, s)
<1>1. s \in Nat \ {0} /\ b \in Nat /\ b <= m /\ (b + s) % s = 0 /\ m + 1 = b + s
  BY SpanType, BucketBounds DEF ClosedAt, Closes
<1>2. Seen \subseteq Nat
  BY SeenType DEF IInv
<1>3. \E k \in Seen \cup {m} : k <= b
  <2>1. CASE Min(Filled(s, m)) = b
    <3>1. Filled(s, m) = {k \in Seen \cup {m} : k >= b}
      BY FilledIs
    <3> HIDE DEF b
    <3>2. Filled(s, m) \subseteq Nat /\ Filled(s, m) # {}
      BY <1>1, <1>2, <3>1
    <3>3. b \in Seen \cup {m}
      BY <2>1, <3>1, <3>2, MinOfMinutes
    <3> QED
      BY <1>1, <3>3
  <2>2. CASE ~FirstAfter(s, m)
    <3>1. s \notin first \/ Left(s, m)
      BY <2>2 DEF FirstAfter
    <3>2. last # None
      BY <3>1 DEF IInv, CursorInv, BucketInv, Seen, Left
    <3> DEFINE a == BucketStart(last, s)
    <3>3. /\ last \in Nat /\ last \in Seen /\ a \in Nat
          /\ a <= last /\ last < a + s
          /\ a = b \/ a + s <= b
          /\ start[s] = a
          /\ Closes(s, last) <=> last + 1 = a + s
      BY <3>2, LastBucket
    <3>4. Left(s, m) => last < b
      BY LeftIs
    <3>5. bucket[s] = IF Closes(s, last) THEN {} ELSE {k \in Seen : k >= a}
      BY <3>2, <3>3 DEF IInv, BucketInv
    <3>6. s \in first <=> bucket[s] = Seen
      BY DEF IInv, BucketInv
    <3> HIDE DEF a, b
    <3>7. CASE last < b
      BY <1>1, <3>3, <3>7
    <3>8. CASE ~(last < b)
      <4>1. a = b /\ bucket[s] = {k \in Seen : k >= a}
        BY <1>1, <3>3, <3>5, <3>8
      <4>2. bucket[s] # Seen
        BY <3>1, <3>4, <3>6, <3>8
      <4>3. ~ \A k \in Seen : k >= a
        BY <4>1, <4>2
      <4>4. PICK k \in Seen : ~(k >= a)
        BY <4>3
      <4>5. k \in Nat /\ b \in Nat /\ a = b
        BY <1>1, <1>2, <4>1
      <4> QED
        BY <4>4, <4>5
    <3> QED
      BY <3>7, <3>8
  <2> QED
    BY <2>1, <2>2 DEF ClosedAt
<1> HIDE DEF b
<1>4. /\ b + s \in 1 .. m + 1 /\ b + s - s = b /\ b <= m /\ m < b + s
  BY <1>1
<1>5. <<s, b + s>> \in Feed!Ended(m, Seen \cup {m})
  <2>1. Seen \cup {m} \subseteq Nat /\ \E k \in Seen \cup {m} : b <= k /\ k < b + s
    BY <1>1, <1>2, <1>4
  <2>2. \E k \in Seen \cup {m} : k <= b
    BY <1>3
  <2>3. b \in Nat /\ b + s <= m + 1 /\ (b + s) % s = 0
    BY <1>1, <1>2, <1>4
  <2> QED
    BY <2>1, <2>2, <2>3, HasEnded
<1>6. <<s, b + s>> \notin Feed!Ended(last, Seen)
  <2>1. b + s \notin 1 .. last + 1
    BY <1>1
  <2> QED
    BY <1>1, <1>2, <2>1, EndedAt
<1> QED
  BY <1>5, <1>6 DEF b

LEMMA EndedIsCompleted ==
  ASSUME IInv, NEW m \in Nat, last < m, last \in Int, NEW s, NEW e,
         <<s, e>> \in Feed!Ended(m, Seen \cup {m}) \ Feed!Ended(last, Seen)
  PROVE  /\ s \in Spans
         /\ \/ LeftAt(s, m) /\ e = start[s] + s
            \/ ClosedAt(s, m) /\ e = BucketStart(m, s) + s
<1>1. Seen \subseteq Nat /\ (\A k \in Seen : k <= last) /\ Seen \cup {m} \subseteq Nat /\ m \in Int
  BY SeenType DEF IInv, CursorInv
<1>2. /\ s \in Spans /\ e \in 1 .. m + 1 /\ e % s = 0
      /\ \E k \in Seen \cup {m} : e - s <= k /\ k < e
      /\ \E k \in Seen \cup {m} : k <= e - s
  BY <1>1, EndedAt
<1>3. s \in Nat \ {0} /\ e \in Nat /\ e <= m + 1
  BY <1>2, SpanType
<1> DEFINE b == BucketStart(m, s)
<1>4. b \in Nat /\ b <= m /\ m < b + s
  BY <1>3, BucketBounds
<1>5. PICK j \in Seen \cup {m} : j <= e - s
  BY <1>2
<1>6. s \in first <=> bucket[s] = Seen
  BY <1>2 DEF IInv, BucketInv
<1>7. CASE e = m + 1
  <2>1. m < e /\ e - s <= m
    BY <1>3, <1>7
  <2>2. b = e - s
    BY <1>2, <1>3, <2>1, BucketUnique
  <2>3. Closes(s, m)
    BY <1>3, <1>4, <1>7, <2>2 DEF Closes
  <2>4. Filled(s, m) = {k \in Seen \cup {m} : k >= b}
    BY <1>2, FilledIs
  <2> HIDE DEF b
  <2>5. ASSUME FirstAfter(s, m)
        PROVE  Min(Filled(s, m)) = b
    <3>1. Filled(s, m) = Seen \cup {m}
      BY <1>6, <2>5 DEF Filled, FirstAfter
    <3>2. j >= b /\ j \in Filled(s, m)
      BY <1>5, <2>4, <3>1
    <3>3. j = b
      BY <1>1, <1>3, <1>4, <1>5, <2>2, <3>2
    <3>4. Filled(s, m) \subseteq Nat /\ b \in Filled(s, m) /\ \A k \in Filled(s, m) : b <= k
      BY <1>1, <2>4, <3>2, <3>3
    <3> QED
      BY <3>4, MinIs
  <2>6. ClosedAt(s, m)
    BY <2>3, <2>5 DEF ClosedAt, b
  <2>7. e = b + s
    BY <1>3, <1>4, <2>2
  <2> QED
    BY <1>2, <2>6, <2>7 DEF b
<1>8. CASE e # m + 1
  <2>1. e <= m
    BY <1>3, <1>8
  <2>2. PICK k \in Seen : e - s <= k /\ k < e
    BY <1>2, <1>3, <2>1
  <2>3. j \in Seen
    BY <1>3, <1>5, <2>1
  <2>4. ~(e <= last + 1)
    <3>1. SUFFICES ASSUME e <= last + 1 PROVE FALSE
      OBVIOUS
    <3>2. e \in 1 .. last + 1
      BY <1>2, <1>3, <3>1
    <3>3. <<s, e>> \in Feed!Ended(last, Seen)
      BY <1>1, <1>2, <1>5, <2>2, <2>3, <3>2, EndedAt
    <3> QED
      BY <3>3
  <2>5. last # None /\ last \in Nat /\ k <= last
    BY <1>1, <2>2 DEF IInv, CursorInv, Seen, TypeOK, Minutes
  <2>6. last < e /\ e - s <= last
    BY <1>1, <1>3, <2>2, <2>4, <2>5
  <2> DEFINE a == BucketStart(last, s)
  <2>7. a = e - s
    BY <1>2, <1>3, <2>5, <2>6, BucketUnique
  <2>8. a \in Nat /\ start[s] = a /\ (Closes(s, last) <=> last + 1 = a + s) /\ (a = b \/ a + s <= b)
    BY <1>2, <2>5, LastBucket
  <2>9. Left(s, m) <=> last # None /\ last < b /\ last + 1 # a + s
    BY <1>2, LeftIs
  <2>10. bucket[s] = IF Closes(s, last) THEN {} ELSE {i \in Seen : i >= a}
    BY <1>2, <2>5, <2>8 DEF IInv, BucketInv
  <2> HIDE DEF a, b
  <2>11. e = a + s /\ a \in Nat /\ last + 1 # a + s /\ last < b
    BY <1>3, <1>4, <2>1, <2>4, <2>5, <2>6, <2>7, <2>8
  <2>12. ASSUME s \in first
         PROVE  Min(bucket[s]) = a
    <3>1. bucket[s] = Seen /\ bucket[s] = {i \in Seen : i >= a}
      BY <1>6, <2>8, <2>10, <2>11, <2>12
    <3>2. j >= a
      BY <2>3, <3>1
    <3>3. j = a
      BY <1>1, <1>3, <1>5, <2>3, <2>7, <2>11, <3>2
    <3>4. bucket[s] \subseteq Nat /\ a \in bucket[s] /\ \A i \in bucket[s] : a <= i
      BY <1>1, <2>3, <3>1, <3>3
    <3> QED
      BY <3>4, MinIs
  <2>13. LeftAt(s, m)
    BY <2>5, <2>8, <2>9, <2>11, <2>12 DEF LeftAt, Reportable
  <2> QED
    BY <1>2, <2>8, <2>11, <2>13
<1> QED
  BY <1>7, <1>8

\* An aggregate of the minutes given in its bucket is the reader's bar.
LEMMA AggregateIsBar ==
  ASSUME NEW bars, bars \subseteq Bars, NEW s \in Nat \ {0}, NEW from \in Nat, NEW mins,
         mins = {k \in {b.ts : b \in bars} : from <= k /\ k < from + s}
  PROVE  AggregateBucket(s, mins, from, bars)
           = Feed!BarOf(s, from + s, {b.ts : b \in bars},
                        {b.ts : b \in {x \in bars : ~x.warmup}})
<1> DEFINE seen == {b.ts : b \in bars}
           alive == {b.ts : b \in {x \in bars : ~x.warmup}}
           part == from .. from + s - 1
<1>1. seen \subseteq Nat
  BY FeedType DEF Bars, Minutes
<1>2. (from + s - s) .. (from + s - 1) = part
  OBVIOUS
<1>3. mins = seen \cap part
  BY <1>1
<1>4. mins = part <=> part \subseteq seen
  BY <1>3
<1>5. (\A b \in bars : b.ts \in mins => b.warmup) <=> part \cap alive = {}
  BY <1>3
<1>6. AggregateBucket(s, mins, from, bars)
        = [span |-> s, end |-> from + s, complete |-> mins = part,
           warmup |-> \A b \in bars : b.ts \in mins => b.warmup]
  BY DEF AggregateBucket, BucketIsComplete
<1>7. Feed!BarOf(s, from + s, seen, alive)
        = [span |-> s, end |-> from + s, complete |-> part \subseteq seen,
           warmup |-> part \cap alive = {}]
  BY <1>2 DEF Feed!BarOf
<1>8. (mins = part) = (part \subseteq seen)
  BY <1>4
<1>9. (\A b \in bars : b.ts \in mins => b.warmup) = (part \cap alive = {})
  BY <1>5
<1> QED
  BY <1>6, <1>7, <1>8, <1>9

-----------------------------------------------------------------------------
(* A minute is yielded.                                                    *)

LiveOf(bars) == {b.ts : b \in {x \in bars : ~x.warmup}}
Bar(x, bars) == Feed!BarOf(x[1], x[2], {b.ts : b \in bars}, LiveOf(bars))

\* What minute m completes is what the reader's specification wants of it.
LEMMA CompletedAreBars ==
  ASSUME IInv, NEW m \in Nat, last < m, last \in Int,
         NEW bars, bars \subseteq Bars, {b.ts : b \in bars} = Seen \cup {m}
  PROVE  /\ Completed(m, bars)
              = {Bar(x, bars) : x \in Feed!Ended(m, Seen \cup {m}) \ Feed!Ended(last, Seen)}
         /\ Completed(m, bars) \subseteq LongBars
<1> DEFINE new == Feed!Ended(m, Seen \cup {m}) \ Feed!Ended(last, Seen)
<1>1. Seen \subseteq Nat /\ (\A k \in Seen : k <= last)
  BY SeenType DEF IInv, CursorInv
<1>2. ASSUME NEW s \in Spans, LeftAt(s, m)
      PROVE  /\ AggregateBucket(s, bucket[s], start[s], bars) = Bar(<<s, start[s] + s>>, bars)
             /\ <<s, start[s] + s>> \in new
             /\ start[s] + s \in Nat
  <2> DEFINE a == BucketStart(last, s)
             b == BucketStart(m, s)
  <2>1. last # None /\ last < b /\ last + 1 # a + s
    BY <1>2, LeftIs DEF LeftAt
  <2>2. /\ s \in Nat \ {0} /\ last \in Nat /\ a \in Nat /\ b \in Nat
        /\ last < a + s /\ b <= m /\ a <= last
        /\ a = b \/ a + s <= b
        /\ start[s] = a
        /\ Closes(s, last) <=> last + 1 = a + s
    BY <2>1, LastBucket
  <2>3. bucket[s] = {k \in Seen : k >= a}
    BY <2>1, <2>2 DEF IInv, BucketInv
  <2> HIDE DEF a, b
  <2>4. bucket[s] = {k \in Seen \cup {m} : a <= k /\ k < a + s}
    <3>1. ~(m < a + s)
      BY <2>1, <2>2
    <3>2. \A k \in Seen : k \in Nat /\ k <= last
      BY <1>1
    <3>3. last \in Nat /\ a \in Nat /\ s \in Nat /\ last < a + s
      BY <2>2
    <3>4. \A k \in Seen : k < a + s /\ (k >= a <=> a <= k)
      BY <3>2, <3>3
    <3> QED
      BY <2>3, <3>1, <3>4
  <2>5. AggregateBucket(s, bucket[s], a, bars)
          = Feed!BarOf(s, a + s, {x.ts : x \in bars}, {x.ts : x \in {y \in bars : ~y.warmup}})
    BY <2>2, <2>4, AggregateIsBar
  <2>6. AggregateBucket(s, bucket[s], a, bars) = Bar(<<s, a + s>>, bars)
    BY <2>5 DEF Bar, LiveOf
  <2>7. <<s, start[s] + s>> \in new
    BY <1>2, LeftHasEnded
  <2> QED
    BY <2>2, <2>6, <2>7
<1>3. ASSUME NEW s \in Spans, ClosedAt(s, m)
      PROVE  /\ AggregateBucket(s, Filled(s, m), BucketStart(m, s), bars)
                  = Bar(<<s, BucketStart(m, s) + s>>, bars)
             /\ <<s, BucketStart(m, s) + s>> \in new
             /\ BucketStart(m, s) + s \in Nat
  <2> DEFINE b == BucketStart(m, s)
  <2>1. s \in Nat \ {0} /\ b \in Nat /\ b <= m /\ m < b + s
    BY SpanType, BucketBounds
  <2>2. Filled(s, m) = {k \in Seen \cup {m} : k >= b}
    BY FilledIs
  <2>3. <<s, b + s>> \in new
    BY <1>3, ClosedHasEnded
  <2> HIDE DEF b, new
  <2>4. Filled(s, m) = {k \in Seen \cup {m} : b <= k /\ k < b + s}
    <3>1. \A k \in Seen \cup {m} : k < b + s /\ (k >= b <=> b <= k)
      BY <1>1, <2>1
    <3> QED
      BY <2>2, <3>1
  <2>5. AggregateBucket(s, Filled(s, m), b, bars)
          = Feed!BarOf(s, b + s, {x.ts : x \in bars}, {x.ts : x \in {y \in bars : ~y.warmup}})
    BY <2>1, <2>4, AggregateIsBar
  <2>6. AggregateBucket(s, Filled(s, m), b, bars) = Bar(<<s, b + s>>, bars)
    BY <2>5 DEF Bar, LiveOf
  <2> QED
    BY <2>1, <2>3, <2>6 DEF b
<1> DEFINE A == {AggregateBucket(s, bucket[s], start[s], bars) : s \in {x \in Spans : LeftAt(x, m)}}
           C == {AggregateBucket(s, Filled(s, m), BucketStart(m, s), bars) :
                   s \in {x \in Spans : ClosedAt(x, m)}}
<1>4. Completed(m, bars) = A \cup C
  BY DEF Completed, LeftAt, ClosedAt
<1>5. ASSUME NEW y \in A \cup C
      PROVE  y \in {Bar(x, bars) : x \in new} /\ y \in LongBars
  <2> HIDE DEF new
  <2>1. \E s \in Spans, e \in Nat : y = Bar(<<s, e>>, bars) /\ <<s, e>> \in new
    BY <1>2, <1>3, <1>5
  <2>2. PICK s \in Spans, e \in Nat : y = Bar(<<s, e>>, bars) /\ <<s, e>> \in new
    BY <2>1
  <2>3. y \in LongBars
    BY <2>2 DEF Bar, Feed!BarOf, LongBars
  <2> QED
    BY <2>2, <2>3
<1>6. ASSUME NEW x \in new
      PROVE  Bar(x, bars) \in A \cup C
  <2>1. PICK s, e : x = <<s, e>>
    BY <1>6 DEF Feed!Ended
  <2>2. /\ s \in Spans
        /\ \/ LeftAt(s, m) /\ e = start[s] + s
           \/ ClosedAt(s, m) /\ e = BucketStart(m, s) + s
    BY <1>6, <2>1, EndedIsCompleted
  <2> HIDE DEF new
  <2> QED
    BY <1>2, <1>3, <2>1, <2>2
<1> HIDE DEF A, C, new
<1>7. A \cup C = {Bar(x, bars) : x \in new}
  <2>1. \A y \in {Bar(x, bars) : x \in new} : y \in A \cup C
    BY <1>6
  <2>2. \A y \in A \cup C : y \in {Bar(x, bars) : x \in new}
    BY <1>5
  <2> QED
    BY <2>1, <2>2
<1> QED
  BY <1>4, <1>5, <1>7 DEF new

FeedStep == [Feed!Next]_(Feed!feed)

LEMMA YieldStep ==
  ASSUME IInv, NEW c \in Candles, ~(c.ts <= last), last' = c.ts, Aggregate(c),
         page' \subseteq page, UNCHANGED <<now, published, pc, end, warm>>
  PROVE  IInv' /\ FeedStep
<1> DEFINE m == c.ts
           bar == [ts |-> c.ts, final |-> c.final, warmup |-> warm, gap |-> Evidence(c.ts)]
<1>1. m \in Minutes /\ m \in Nat /\ last \in Int /\ last < m /\ Minutes \subseteq Nat
  BY FeedType DEF Candles, Minutes, IInv, TypeOK, None
<1>2. /\ bar \in Bars /\ bar.ts = m /\ bar.warmup = warm /\ bar.gap = Evidence(m)
  BY <1>1 DEF Bars, Candles, IInv, TypeOK, Evidence
<1>3. /\ base' = m
      /\ start' = [s \in Spans |-> BucketStart(m, s)]
      /\ bucket' = [s \in Spans |-> IF Closes(s, m) THEN {} ELSE Filled(s, m)]
      /\ first' = {s \in first : ~Left(s, m) /\ ~Closes(s, m)}
      /\ given' = given \cup {bar}
      /\ made' = made \cup Completed(m, given')
  BY DEF Aggregate
<1> HIDE DEF m, bar
<1>4. Seen' = Seen \cup {m} /\ given' \subseteq Bars /\ {b.ts : b \in given'} = Seen \cup {m}
  BY <1>2, <1>3 DEF Seen, IInv, TypeOK
<1>5. /\ Seen \subseteq Minutes /\ Seen \subseteq Nat
      /\ \A k \in Seen : k <= last
      /\ last # None => last \in Seen
      /\ last = None => given = {}
  BY SeenType DEF IInv, CursorInv
<1>6. Completed(m, given')
        = {Bar(x, given') : x \in Feed!Ended(m, Seen') \ Feed!Reported}
      /\ Completed(m, given') \subseteq LongBars
  <2>1. Feed!Reported = Feed!Ended(last, Seen)
    BY DEF IInv, ReportInv
  <2>2. /\ Completed(m, given')
             = {Bar(x, given') : x \in Feed!Ended(m, Seen \cup {m}) \ Feed!Ended(last, Seen)}
        /\ Completed(m, given') \subseteq LongBars
    BY <1>1, <1>4, CompletedAreBars
  <2> QED
    BY <1>4, <2>1, <2>2
<1>7. TypeOK'
  <2>1. start' \in [Spans -> Minutes \cup {None}]
    <3>1. ASSUME NEW s \in Spans PROVE BucketStart(m, s) \in Minutes
      <4>1. BucketStart(m, s) \in Nat /\ BucketStart(m, s) <= m
        BY <1>1, SpanType, BucketBounds
      <4> QED
        BY <1>1, <4>1, FeedType DEF Minutes
    <3> QED
      BY <1>3, <3>1
  <2>2. bucket' \in [Spans -> SUBSET Minutes]
    <3>1. ASSUME NEW s \in Spans PROVE Filled(s, m) \subseteq Minutes
      <4>1. Filled(s, m) = {k \in Seen \cup {m} : k >= BucketStart(m, s)}
        BY <1>1, FilledIs
      <4> QED
        BY <1>1, <1>5, <4>1
    <3> QED
      BY <1>3, <3>1
  <2>3. first' \subseteq Spans /\ made' \subseteq LongBars
    BY <1>3, <1>6 DEF IInv, TypeOK
  <2>4. last' = m /\ base' = m
    BY <1>3 DEF m
  <2> QED
    BY <1>1, <1>4, <2>1, <2>2, <2>3, <2>4 DEF IInv, TypeOK
<1>8. HolesAreEvidenced'
  <2>1. SUFFICES ASSUME NEW a \in given', NEW b \in given', a.ts < b.ts,
                        \A d \in given' : d.ts <= a.ts \/ d.ts >= b.ts
                 PROVE  b.gap <=> b.ts # a.ts + 1
    BY DEF HolesAreEvidenced
  <2>2. a.ts \in Seen \cup {m} /\ b.ts \in Seen \cup {m}
    BY <1>4
  <2>3. b.ts <= m /\ a.ts \in Nat /\ b.ts \in Nat
    <3>1. \A k \in Seen \cup {m} : k <= m /\ k \in Nat
      BY <1>1, <1>5
    <3> QED
      BY <2>2, <3>1
  <2>4. a # bar
    BY <1>1, <1>2, <2>1, <2>3
  <2>5. a \in given
    BY <1>3, <2>4
  <2>6. CASE b = bar
    <3>1. last # None /\ last \in Seen /\ a.ts <= last
      BY <1>5, <2>5 DEF Seen
    <3>2. PICK d \in given : d.ts = last
      BY <3>1 DEF Seen
    <3>3. last <= a.ts \/ last >= m
      BY <1>2, <1>3, <2>1, <2>6, <3>2
    <3>4. a.ts = last
      BY <1>1, <2>3, <3>1, <3>3
    <3>5. b.gap <=> m # last + 1
      BY <1>2, <2>6, <3>1 DEF Evidence, IInv, TypeOK
    <3> QED
      BY <1>2, <2>6, <3>4, <3>5
  <2>7. CASE b # bar
    <3>1. b \in given /\ \A d \in given : d.ts <= a.ts \/ d.ts >= b.ts
      BY <1>3, <2>1, <2>7
    <3> QED
      BY <2>1, <2>5, <3>1 DEF IInv, HolesAreEvidenced
  <2> QED
    BY <2>6, <2>7
<1>9. CursorInv'
  <2>1. last' = m /\ m # None
    BY <1>1 DEF m, None
  <2>2. \A k \in Seen \cup {m} : k <= m
    BY <1>1, <1>5
  <2> QED
    BY <1>4, <2>1, <2>2 DEF CursorInv
<1>10. BucketInv'
  <2>1. SUFFICES ASSUME NEW s \in Spans
                 PROVE  /\ start'[s] = BucketStart(m, s)
                        /\ bucket'[s] = IF Closes(s, m) THEN {}
                                        ELSE {k \in Seen' : k >= start'[s]}
                        /\ s \in first' <=> bucket'[s] = Seen'
    <3>1. last' = m /\ m # None
      BY <1>1 DEF m, None
    <3>2. \A s \in Spans : Closes(s, last)' <=> Closes(s, m)
      BY <3>1 DEF Closes, BucketStart
    <3>3. \A s \in Spans : BucketStart(last, s)' = BucketStart(m, s)
      BY <3>1 DEF BucketStart
    <3> QED
      BY <3>1, <3>2, <3>3 DEF BucketInv
  <2>2. /\ start'[s] = BucketStart(m, s)
        /\ bucket'[s] = IF Closes(s, m) THEN {} ELSE Filled(s, m)
    BY <1>3
  <2>3. Filled(s, m) = {k \in Seen \cup {m} : k >= BucketStart(m, s)}
    BY <1>1, FilledIs
  <2>4. s \in first' <=> bucket'[s] = Seen'
    <3>1. s \in first' <=> s \in first /\ ~Left(s, m) /\ ~Closes(s, m)
      BY <1>3
    <3> QED
      BY <1>1, <1>4, <2>2, <3>1, FirstIs
  <2> QED
    BY <1>4, <2>2, <2>3, <2>4
<1>11. ReportInv'
  <2> DEFINE new == Feed!Ended(m, Seen') \ Feed!Reported
             S == {Bar(x, given') : x \in new}
  <2>1. made' = made \cup S
    BY <1>3, <1>6
  <2>2. \A x \in new : <<Bar(x, given').span, Bar(x, given').end>> = x
    <3>1. ASSUME NEW x \in new PROVE <<Bar(x, given').span, Bar(x, given').end>> = x
      <4>1. PICK s, e : x = <<s, e>>
        BY <3>1 DEF Feed!Ended
      <4> HIDE DEF new
      <4> QED
        BY <4>1 DEF Bar, Feed!BarOf
    <3> QED
      BY <3>1
  <2>3. Feed!Reported \subseteq Feed!Ended(m, Seen')
    <3>1. ASSUME NEW s, NEW e, <<s, e>> \in Feed!Ended(last, Seen)
          PROVE  <<s, e>> \in Feed!Ended(m, Seen \cup {m})
      <4>1. /\ s \in Spans /\ e \in 1 .. last + 1 /\ e % s = 0
            /\ \E k \in Seen : e - s <= k /\ k < e
            /\ \E k \in Seen : k <= e - s
        BY <1>1, <1>5, <3>1, EndedAt
      <4>2. e \in 1 .. m + 1
        BY <1>1, <4>1
      <4>3. Seen \cup {m} \subseteq Nat /\ m \in Int
        BY <1>1, <1>5
      <4> QED
        BY <4>1, <4>2, <4>3, EndedAt
    <3>2. \A x \in Feed!Ended(last, Seen) : \E s, e : x = <<s, e>>
      BY DEF Feed!Ended
    <3>3. Feed!Reported = Feed!Ended(last, Seen)
      BY DEF IInv, ReportInv
    <3>4. \A x \in Feed!Ended(last, Seen) : x \in Feed!Ended(m, Seen \cup {m})
      BY <3>1, <3>2
    <3> QED
      BY <1>4, <3>3, <3>4
  <2>4. Feed!Reported' = {<<b.span, b.end>> : b \in made'}
    BY DEF Feed!Reported
  <2>5. Feed!Reported = {<<b.span, b.end>> : b \in made}
    BY DEF Feed!Reported
  <2> HIDE DEF new
  <2>6. {<<b.span, b.end>> : b \in S} = new
    BY <2>2
  <2> HIDE DEF S
  <2>7. Feed!Reported' = Feed!Reported \cup new
    BY <2>1, <2>4, <2>5, <2>6
  <2>8. Feed!Reported' = Feed!Ended(m, Seen')
    BY <2>3, <2>7 DEF new
  <2>9. last' = m
    BY DEF m
  <2> QED
    BY <2>8, <2>9 DEF ReportInv, Feed!Ended
<1>12. WarmInv'
  BY <1>2, <1>3 DEF IInv, WarmInv, TypeOK
<1>13. FeedStep
  <2>1. \A k \in Seen : k < m
    BY <1>1, <1>5
  <2>2. LiveOf(given') = IF ~warm THEN LiveOf(given) \cup {m} ELSE LiveOf(given)
    BY <1>2, <1>3 DEF LiveOf
  <2>3. warm => LiveOf(given) = {}
    BY DEF IInv, WarmInv, LiveOf
  <2>4. warm \in BOOLEAN
    BY DEF IInv, TypeOK
  <2> QED
    BY <1>3, <1>4, <1>6, <2>1, <2>2, <2>3, <2>4
    DEF FeedStep, Feed!Next, Feed!See, Seen, LiveOf, Bar
<1> QED
  BY <1>7, <1>8, <1>9, <1>10, <1>11, <1>12, <1>13 DEF IInv

-----------------------------------------------------------------------------
(* The other steps.                                                        *)

\* A step that yields nothing keeps the reader's view.
LEMMA QuietStep ==
  ASSUME IInv, TypeOK', UNCHANGED <<last, bucketVars, history>>, warm' => warm
  PROVE  IInv' /\ FeedStep
<1> USE DEF bucketVars, history
<1>1. Seen' = Seen
  BY DEF Seen
<1>2. HolesAreEvidenced' /\ CursorInv' /\ WarmInv'
  BY <1>1 DEF IInv, HolesAreEvidenced, CursorInv, WarmInv
<1>3. BucketInv'
  BY <1>1 DEF IInv, BucketInv, Closes, BucketStart
<1>4. ReportInv'
  BY <1>1 DEF IInv, ReportInv, Feed!Reported, Feed!Ended
<1>5. FeedStep
  BY DEF FeedStep, Feed!feed
<1> QED
  BY <1>2, <1>3, <1>4, <1>5 DEF IInv

LEMMA AnswerType ==
  ASSUME TypeOK, NEW from, NEW to, NEW forming \in BOOLEAN
  PROVE  Answer(from, to, forming) \subseteq Candles
<1>1. published \subseteq Minutes /\ now \in Minutes
  BY FeedType DEF TypeOK, Minutes
<1>2. ASSUME NEW m \in published PROVE [ts |-> m, final |-> TRUE] \in Candles
  BY <1>1 DEF Candles
<1>3. [ts |-> now, final |-> FALSE] \in Candles
  BY <1>1 DEF Candles
<1> QED
  BY <1>2, <1>3 DEF Answer

LEMMA NextCandleIs ==
  ASSUME TypeOK, page # {}
  PROVE  NextCandle \in page
<1> DEFINE T == {c.ts : c \in page}
<1>1. T \subseteq Nat /\ T # {} /\ \A c \in page : c.ts \in Nat
  BY FeedType DEF TypeOK, Candles, Minutes
<1>2. PICK x \in T : \A y \in T : x <= y
  BY <1>1, LeastNat
<1>3. \E c \in page : \A d \in page : c.ts <= d.ts
  BY <1>2
<1> QED
  BY <1>3 DEF NextCandle

LEMMA VenueInv ==
  ASSUME IInv, Tick \/ Publish
  PROVE  IInv' /\ FeedStep
<1>1. TypeOK'
  <2>1. CASE Tick
    <3>1. now' \in Minutes /\ published \subseteq 0 .. now' - 1 /\ end <= now'
      BY <2>1, FeedType DEF Tick, IInv, TypeOK, Minutes
    <3> QED
      BY <2>1, <3>1 DEF Tick, IInv, TypeOK, streamVars, bucketVars, history
  <2>2. CASE Publish
    BY <2>2 DEF Publish, IInv, TypeOK, streamVars, bucketVars, history
  <2> QED
    BY <2>1, <2>2
<1> QED
  BY <1>1, QuietStep DEF Tick, Publish, streamVars

LEMMA CrashInv ==
  ASSUME IInv, Crash
  PROVE  IInv' /\ FeedStep
<1> USE DEF Crash
<1>1. Seen' = {} /\ given' = {} /\ made' = {}
  BY DEF Seen
<1>2. TypeOK'
  BY FeedType DEF IInv, TypeOK, Minutes
<1>3. HolesAreEvidenced' /\ CursorInv' /\ WarmInv'
  BY <1>1 DEF HolesAreEvidenced, CursorInv, WarmInv
<1>4. BucketInv'
  BY <1>1 DEF BucketInv
<1>5. ReportInv'
  <2>1. Feed!Reported' = {}
    BY <1>1 DEF Feed!Reported
  <2>2. Feed!Ended(last, Seen)' = {}
    BY <1>1 DEF Feed!Ended
  <2> QED
    BY <2>1, <2>2 DEF ReportInv
<1>6. FeedStep
  BY <1>1 DEF FeedStep, Feed!Next, Feed!Restart
<1> QED
  BY <1>2, <1>3, <1>4, <1>5, <1>6 DEF IInv

LEMMA ReceivedInv ==
  ASSUME IInv, NEW from, NEW forming \in BOOLEAN, Received(from, forming)
  PROVE  IInv' /\ FeedStep
<1>1. page' \subseteq Candles
  BY AnswerType DEF Received, IInv
<1>2. TypeOK'
  BY <1>1 DEF Received, IInv, TypeOK, bucketVars, history
<1> QED
  BY <1>2, QuietStep DEF Received

LEMMA StreamInv ==
  ASSUME IInv, Stream
  PROVE  IInv' /\ FeedStep
<1> USE DEF streamVars, bucketVars, history
<1>1. CASE Start \/ PollFails \/ Wake
  <2>1. TypeOK'
    <3>1. CASE Start \/ Wake
      <4>1. end' = now /\ now' = now /\ now \in Nat
        BY <3>1, FeedType DEF Start, Wake, IInv, TypeOK, Minutes
      <4>2. end' \in Minutes /\ end' <= now'
        BY <4>1 DEF IInv, TypeOK
      <4>3. /\ UNCHANGED <<now, published, warm, page, last, bucketVars, history>>
            /\ pc' \in {"history", "poll"}
        BY <3>1 DEF Start, Wake
      <4> QED
        BY <4>2, <4>3 DEF IInv, TypeOK
    <3>2. CASE PollFails
      BY <3>2 DEF PollFails, IInv, TypeOK
    <3> QED
      BY <1>1, <3>1, <3>2
  <2> QED
    BY <1>1, <2>1, QuietStep DEF Start, PollFails, Wake
<1>2. CASE HistoryRead
  <2>1. PICK forming \in BOOLEAN : Received(0, forming)
    BY <1>2 DEF HistoryRead
  <2> QED
    BY <2>1, ReceivedInv
<1>3. CASE PollRead
  <2>1. PICK forming \in BOOLEAN : Received(PollFrom, forming)
    BY <1>3 DEF PollRead
  <2> QED
    BY <2>1, ReceivedInv
<1>4. CASE Backfill
  <2>1. PICK answered \in SUBSET Asked :
          page' = page \cup
            {c \in UNION {Answer(g[1], IF g[2] < end THEN g[2] ELSE end, FALSE) : g \in answered} :
               \A d \in page : d.ts # c.ts}
    BY <1>4 DEF Backfill
  <2>2. \A from, to : Answer(from, to, FALSE) \subseteq Candles
    <3>1. PICK forming \in BOOLEAN : forming = FALSE
      OBVIOUS
    <3> QED
      BY <3>1, AnswerType DEF IInv
  <2> DEFINE more == UNION {Answer(g[1], IF g[2] < end THEN g[2] ELSE end, FALSE) : g \in answered}
  <2>3. more \subseteq Candles
    BY <2>2
  <2>4. page' = page \cup {c \in more : \A d \in page : d.ts # c.ts}
    BY <2>1, Zenon
  <2> HIDE DEF more
  <2>5. page' \subseteq Candles
    BY <2>3, <2>4 DEF IInv, TypeOK
  <2>6. TypeOK'
    BY <1>4, <2>5 DEF Backfill, IInv, TypeOK
  <2> QED
    BY <1>4, <2>6, QuietStep DEF Backfill
<1>5. CASE Yield
  <2> DEFINE c == NextCandle
  <2>1. c \in page /\ c \in Candles
    BY <1>5, NextCandleIs DEF Yield, IInv, TypeOK
  <2>2. /\ page' = page \ {c} /\ UNCHANGED <<now, published, pc, end, warm>>
        /\ \/ UNCHANGED <<last, bucketVars, history>>
           \/ ~(c.ts <= last) /\ last' = c.ts /\ Aggregate(c)
    BY <1>5, Zenon DEF Yield
  <2> HIDE DEF c
  <2>3. CASE UNCHANGED <<last, bucketVars, history>>
    <3>1. page' \subseteq Candles /\ UNCHANGED <<now, published, pc, end, warm>>
      BY <2>2 DEF IInv, TypeOK
    <3>2. TypeOK'
      BY <2>3, <3>1 DEF IInv, TypeOK
    <3> QED
      BY <2>2, <2>3, <3>2, QuietStep
  <2>4. CASE ~(c.ts <= last) /\ last' = c.ts /\ Aggregate(c)
    BY <2>1, <2>2, <2>4, YieldStep
  <2> QED
    BY <2>2, <2>3, <2>4
<1>6. CASE PageDone
  <2>1. TypeOK'
    BY <1>6 DEF PageDone, IInv, TypeOK
  <2> QED
    BY <1>6, <2>1, QuietStep DEF PageDone
<1> QED
  BY <1>1, <1>2, <1>3, <1>4, <1>5, <1>6 DEF Stream

LEMMA StepKeeps == IInv /\ [Next]_vars => IInv' /\ FeedStep
<1> SUFFICES ASSUME IInv, [Next]_vars PROVE IInv' /\ FeedStep
  OBVIOUS
<1>1. CASE UNCHANGED vars
  <2>1. TypeOK'
    BY <1>1 DEF vars, streamVars, bucketVars, history, IInv, TypeOK
  <2> QED
    BY <1>1, <2>1, QuietStep DEF vars, streamVars, bucketVars, history
<1>2. CASE Next
  BY <1>2, VenueInv, CrashInv, StreamInv DEF Next
<1> QED
  BY <1>1, <1>2

LEMMA InitIInv == ASSUME Init PROVE IInv
<1> USE DEF Init
<1>1. Seen = {} /\ given = {} /\ made = {}
  BY DEF Seen
<1>2. TypeOK
  BY FeedType DEF TypeOK, Minutes
<1>3. HolesAreEvidenced /\ CursorInv /\ WarmInv /\ BucketInv
  BY <1>1 DEF HolesAreEvidenced, CursorInv, WarmInv, BucketInv
<1>4. ReportInv
  <2>1. Feed!Reported = {} /\ Feed!Ended(last, Seen) = {}
    BY <1>1 DEF Feed!Reported, Feed!Ended
  <2> QED
    BY <2>1 DEF ReportInv
<1> QED
  BY <1>2, <1>3, <1>4 DEF IInv

-----------------------------------------------------------------------------
(* The theorems.                                                           *)

\* The inductive invariant holds.
THEOREM Invariance == Spec => []IInv
BY InitIInv, StepKeeps, PTL DEF Spec

\* Whatever is missing or late at the venue, the cursor is the last minute
\* given, no candle is of the future, and every minute that was skipped is
\* evidenced on the next one (_iter_live_bars and evidence_gap in
\* data/multitimeframe.py).
THEOREM StreamStaysConsistent == Spec => []StreamIsConsistent
<1>1. IInv => StreamIsConsistent
  BY DEF IInv, StreamIsConsistent
<1> QED
  BY <1>1, Invariance, PTL

\* LiveFeed implements BarFeed: minutes in order and once, and every longer
\* bar that ends, once and marked complete exactly when none of its minutes is
\* missing (_stream_incremental).
THEOREM FeedImplemented == Spec => FeedIsKept
<1>1. Init => Feed!Init
  BY DEF Init, Feed!Init
<1>2. IInv /\ [Next]_vars => [Feed!Next]_(Feed!feed)
  BY StepKeeps DEF FeedStep
<1> QED
  BY <1>1, <1>2, Invariance, PTL DEF Spec, FeedIsKept, Feed!Spec

=============================================================================
