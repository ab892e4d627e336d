--------------------------- MODULE RiskGuard_proofs ---------------------------
(***************************************************************************)
(* What the guard promises, for every number of slots, every limit, every  *)
(* length of the day and the window and every sequence of results.         *)
(*                                                                         *)
(* The loss breaker follows from BInv: the books are never dated after     *)
(* today and an entry between check and send is not on a tripped day.      *)
(*                                                                         *)
(* The limits follow from LInv.  The aggregate cap and the margin cap are  *)
(* sums over slots, so the lemmas on sums come first; the caps leave an    *)
(* entry some room, and the invariant says that the room is still there at *)
(* the send, because only the slot of the entry in hand changes meanwhile. *)
(* The order limit compares two queues that are trimmed at different times *)
(* and under different stamps: Interleaved says how the stamps that are    *)
(* counted keep up with the sends.                                         *)
(***************************************************************************)
EXTENDS RiskGuard, FiniteSetTheorems, WellFoundedInduction, TLAPS

\* The stages between the breaker's check and the send.
Admitted == {"sizing", "cash", "flip", "inventory"}

Clock == now \in 0..LastTick

\* No row of the ledger is dated after today, and no unnoticed close is.
Books ==
  /\ price \in Prices
  /\ booked \in [Days -> Int]
  /\ gone \in [Slots -> Days \cup {NoDay}]
  /\ \A d \in Days : d > Today => booked[d] = 0
  /\ \A s \in Slots : gone[s] <= Today

\* An entry on its way that closed nothing itself is not on a tripped day.
Watched == stage \in Admitted /\ ~flipped => ~Tripped

BInv == Clock /\ Books /\ Watched

LEMMA ConstantFacts ==
  /\ DayTicks \in Nat /\ DayTicks > 0
  /\ MaxLoss \in Nat /\ MaxLoss > 0
  /\ LastTick \in Nat
  /\ \A p \in Prices : p \in Nat /\ p > 0
BY BoundsType

\* Integer division by a positive number is monotone.
LEMMA DivMonotone ==
  ASSUME NEW m \in Nat, NEW n \in Nat, NEW k \in Nat, k > 0, m <= n
  PROVE  m \div k \in Nat /\ n \div k \in Nat /\ m \div k <= n \div k
<1> DEFINE q == m \div k
           r == n \div k
<1>1. q \in Int /\ r \in Int
  OBVIOUS
<1>2. q * k <= m /\ m < q * k + k /\ r * k <= n /\ n < r * k + k
  OBVIOUS
<1>3. q >= 0 /\ r >= 0
  OBVIOUS
<1>4. q <= r
  <2> SUFFICES ASSUME r + 1 <= q PROVE FALSE
    BY <1>1
  <2>1. (r + 1) * k <= q * k
    BY <1>1
  <2>2. (r + 1) * k = r * k + k
    BY <1>1
  <2> QED
    BY <1>1, <1>2, <2>1, <2>2
<1> QED
  BY <1>1, <1>3, <1>4

LEMMA TodayType ==
  ASSUME Clock
  PROVE  Today \in Days /\ Today \in Nat
BY ConstantFacts, DivMonotone, now <= LastTick DEF Clock, Today, Days

-----------------------------------------------------------------------------
(* Steps that leave the books alone leave the verdict alone.               *)

LEMMA VerdictKept ==
  ASSUME UNCHANGED <<now, price, booked>>
  PROVE  Today' = Today /\ Tripped' = Tripped
BY DEF Today, Tripped, Tally

LEMMA BooksKept ==
  ASSUME Clock, Books, UNCHANGED <<now, price, booked, gone>>
  PROVE  Clock' /\ Books'
BY DEF Clock, Books, Today

\* A row booked on a day that has begun leaves later days empty.
LEMMA BookKeepsBooks ==
  ASSUME NEW d \in Days, NEW x, d <= Today, Clock, Books, Book(d, x)
  PROVE  /\ booked' \in [Days -> Int]
         /\ \A e \in Days : e > Today => booked'[e] = 0
<1>1. booked' = [booked EXCEPT ![d] = booked[d] + x] /\ booked[d] + x \in Int
  BY ConstantFacts, BoundsType DEF Book
<1>2. booked' \in [Days -> Int]
  BY <1>1 DEF Books
<1>3. ASSUME NEW e \in Days, e > Today PROVE booked'[e] = 0
  <2>1. Today \in Nat /\ d \in Int
    BY TodayType DEF Days
  <2>2. e # d
    BY <1>3, <2>1 DEF Days
  <2> QED
    BY <1>1, <1>3, <2>2 DEF Books
<1> QED
  BY <1>2, <1>3

\* Every step keeps the clock in its range and the ledger free of rows and
\* closes dated after today (guard.py:124, live_executor.py:826).
LEMMA StepKeepsBooks ==
  ASSUME Clock, Books, Next
  PROVE  Clock' /\ Books'
<1> USE DEF Clock
<1>0. Today \in Days /\ Today \in Nat
  BY TodayType
<1>1. CASE Tick
  <2>1. now' = now + 1 /\ now' \in 0..LastTick
    BY <1>1, ConstantFacts DEF Tick
  <2>2. Today <= Today'
    BY <2>1, ConstantFacts, DivMonotone DEF Today
  <2>3. Today' \in Nat
    BY <2>1, ConstantFacts, DivMonotone DEF Today
  <2>4. UNCHANGED <<price, booked, gone>>
    BY <1>1 DEF Tick
  <2>5. \A d \in Days : d > Today' => booked'[d] = 0
    BY <1>0, <2>2, <2>3, <2>4 DEF Books, Days
  <2>6. \A s \in Slots : gone'[s] <= Today'
    BY <1>0, <2>2, <2>3, <2>4 DEF Books, Days, NoDay
  <2> QED
    BY <2>1, <2>4, <2>5, <2>6 DEF Books
<1>2. CASE \E p \in Prices : NextBar(p)
  BY <1>2 DEF NextBar, Books, Today
<1>3. ASSUME NEW s \in Slots, VenueCloses(s) PROVE Clock' /\ Books'
  <2>1. gone' = [gone EXCEPT ![s] = Today] /\ UNCHANGED <<now, price, booked>>
    BY <1>3 DEF VenueCloses
  <2>2. gone' \in [Slots -> Days \cup {NoDay}]
    BY <2>1, <1>0 DEF Books
  <2>3. \A o \in Slots : gone'[o] <= Today
    BY <2>1, <1>0 DEF Books
  <2> QED
    BY <2>1, <2>2, <2>3 DEF Books, Today
<1>4. ASSUME NEW s \in Slots, NEW x \in Results, ClosureBooked(s, x)
      PROVE  Clock' /\ Books'
  <2>1. Book(gone[s], x) /\ gone[s] \in Days /\ gone[s] <= Today
    BY <1>4 DEF ClosureBooked, Books
  <2>2. gone' = [gone EXCEPT ![s] = NoDay] /\ UNCHANGED <<now, price>>
    BY <1>4 DEF ClosureBooked
  <2>3. gone' \in [Slots -> Days \cup {NoDay}]
    BY <2>2 DEF Books
  <2>4. \A o \in Slots : gone'[o] <= Today
    BY <2>2, <1>0 DEF Books, NoDay
  <2> QED
    BY <2>1, <2>2, <2>3, <2>4, BookKeepsBooks DEF Books, Today
<1>5. ASSUME NEW x, Book(Today, x), UNCHANGED <<now, price, gone>>
      PROVE  Clock' /\ Books'
  BY <1>0, <1>5, BookKeepsBooks DEF Books, Today
<1>6. CASE \E x \in Results : FundingBooked(x) \/ ExitAccepted(x) \/ FlipAccepted(x)
  BY <1>5, <1>6 DEF FundingBooked, ExitAccepted, FlipAccepted, Closed
<1>7. CASE \E fee \in Fees : EntryFilled(fee)
  BY <1>5, <1>7 DEF EntryFilled
<1>8. CASE Crash \/ ExitFails \/ EntryRejected \/ ExecutorDeclines
  BY <1>8, BooksKept DEF Crash, ExitFails, EntryRejected, ExecutorDeclines
<1>9. CASE \E s \in Slots : SubmitExit(s)
  BY <1>9, BooksKept DEF SubmitExit
<1>10. CASE \E i \in Entries : i.due <= i.ts /\ (EntryRateLimited(i) \/ EntryAdmitted(i))
  BY <1>10, BooksKept DEF EntryRateLimited, EntryAdmitted, handVars
<1>11. CASE \E ask \in Asks : EntrySized(ask)
  BY <1>11, BooksKept DEF EntrySized
<1>12. CASE FlipBegins \/ EntryBegins \/ EntrySent
  BY <1>12, BooksKept DEF FlipBegins, EntryBegins, EntrySent
<1>13. CASE EntryRefused \/ EntryUnanswered
  BY <1>13, BooksKept DEF EntryRefused, EntryUnanswered
<1> QED
  BY <1>1, <1>2, <1>3, <1>4, <1>6, <1>7, <1>8, <1>9, <1>10, <1>11, <1>12, <1>13
  DEF Next

\* An admitted entry stays above the limit while it waits, midnight included:
\* the new day's ledger is empty (guard.py:127).
LEMMA StepKeepsWatch ==
  ASSUME BInv, Next
  PROVE  Watched'
<1> USE DEF Watched, Admitted
<1>1. CASE Tick
  <2>1. now' = now + 1 /\ now' \in 0..LastTick /\ UNCHANGED <<price, booked, stage, flipped>>
    BY <1>1, ConstantFacts DEF Tick, handVars, BInv, Clock
  <2>2. Today <= Today' /\ Today \in Nat /\ Today' \in Nat
    BY <2>1, ConstantFacts, DivMonotone DEF Today, BInv, Clock
  <2>3. Today' \in Days
    BY <2>1, ConstantFacts, DivMonotone, now' <= LastTick DEF Today, Days
  <2>4. CASE Today' = Today
    BY <2>1, <2>4 DEF Tripped, Tally, BInv
  <2>5. CASE Today' # Today
    <3>1. Today' > Today
      BY <2>2, <2>5
    <3>2. booked'[Today'] = 0
      BY <2>1, <2>3, <3>1 DEF BInv, Books
    <3>3. price' \in Nat
      BY <2>1, ConstantFacts DEF BInv, Books
    <3>4. Tally' = 0
      <4>1. \A n \in Nat : 0 * n = 0
        OBVIOUS
      <4>2. Tally' = 0 * price'
        BY <3>2 DEF Tally, Today
      <4> QED
        BY <3>3, <4>1, <4>2
    <3> QED
      BY <3>4, ConstantFacts DEF Tripped
  <2> QED
    BY <2>4, <2>5
<1>2. CASE \E p \in Prices : NextBar(p)
  BY <1>2 DEF NextBar, handVars
<1>3. CASE \E s \in Slots : VenueCloses(s)
  BY <1>3, VerdictKept DEF VenueCloses, handVars, BInv
<1>4. CASE \E s \in Slots, x \in Results : ClosureBooked(s, x)
  BY <1>4 DEF ClosureBooked, handVars
<1>5. CASE \E x \in Results : FundingBooked(x)
  BY <1>5 DEF FundingBooked, handVars
<1>6. CASE \E x \in Results : FlipAccepted(x)
  BY <1>6 DEF FlipAccepted
<1>7. CASE \/ Crash \/ ExitFails \/ EntryRejected \/ ExecutorDeclines
           \/ EntryRefused \/ EntryUnanswered
           \/ (\E x \in Results : ExitAccepted(x)) \/ (\E fee \in Fees : EntryFilled(fee))
  <2>1. Returns
    BY <1>7 DEF Crash, ExitFails, EntryRejected, ExecutorDeclines, EntryRefused,
                EntryUnanswered, ExitAccepted, EntryFilled
  <2> QED
    BY <2>1 DEF Returns
<1>8. CASE \E s \in Slots : SubmitExit(s)
  BY <1>8 DEF SubmitExit
<1>9. CASE \E i \in Entries : i.due <= i.ts /\ EntryRateLimited(i)
  BY <1>9 DEF EntryRateLimited, handVars
<1>10. CASE \E i \in Entries : i.due <= i.ts /\ EntryAdmitted(i)
  BY <1>10, VerdictKept DEF EntryAdmitted
<1>11. CASE \E ask \in Asks : EntrySized(ask)
  BY <1>11, VerdictKept DEF EntrySized, BInv
<1>12. CASE FlipBegins \/ EntryBegins
  BY <1>12, VerdictKept DEF FlipBegins, EntryBegins, BInv
<1>13. CASE EntrySent
  BY <1>13 DEF EntrySent
<1> QED
  BY <1>1, <1>2, <1>3, <1>4, <1>5, <1>6, <1>7, <1>8, <1>9, <1>10, <1>11, <1>12,
     <1>13 DEF Next

-----------------------------------------------------------------------------

\* The ledger has no row after today and an entry that is waiting is not on a
\* tripped day, unless it closed a position itself (guard.py:235).
THEOREM BreakerInvariant == Spec => []BInv
<1>1. Init => BInv
  <2> SUFFICES ASSUME Init PROVE BInv
    OBVIOUS
  <2>1. Clock
    BY ConstantFacts DEF Init, Clock
  <2>2. Today \in Nat /\ Today \in Days
    BY <2>1, TodayType
  <2>3. Books
    BY <2>2 DEF Init, Books, NoDay, Days
  <2>4. Watched
    BY DEF Init, Watched, Admitted
  <2> QED
    BY <2>1, <2>3, <2>4 DEF BInv
<1>2. BInv /\ [Next]_vars => BInv'
  <2> SUFFICES ASSUME BInv, [Next]_vars PROVE BInv'
    OBVIOUS
  <2>1. CASE Next
    BY <2>1, StepKeepsBooks, StepKeepsWatch DEF BInv
  <2>2. CASE UNCHANGED vars
    BY <2>2 DEF vars, BInv, Clock, Books, Watched, Today, Tripped, Tally
  <2> QED
    BY <2>1, <2>2
<1> QED
  BY <1>1, <1>2, PTL DEF Spec

\* No entry that closed nothing itself is sent on a day whose ledger stands at
\* the loss limit, whatever happens in the awaits (guard.py:235).
THEOREM BreakerTheorem == Spec => BreakerHolds
<1>1. BInv /\ [Next]_vars => (Sending /\ ~flipped => ~Tripped)
  <2> SUFFICES ASSUME BInv, [Next]_vars, Sending, ~flipped PROVE ~Tripped
    OBVIOUS
  <2>1. stage' # stage /\ stage' = "send"
    BY DEF Sending
  <2>2. Next
    BY <2>1 DEF vars
  <2>3. EntrySent
    BY <2>1, <2>2 DEF Next, Tick, Crash, NextBar, VenueCloses, SubmitExit, ClosureBooked,
      FundingBooked, ExitAccepted, FlipAccepted, ExitFails, EntryRateLimited,
      EntryAdmitted, EntryRejected, ExecutorDeclines, EntrySized, FlipBegins,
      EntryBegins, EntryFilled, EntryRefused, EntryUnanswered, Returns, handVars
  <2> QED
    BY <2>3 DEF EntrySent, BInv, Watched, Admitted
<1> QED
  BY <1>1, BreakerInvariant, PTL DEF Spec, BreakerHolds

-----------------------------------------------------------------------------
(* Sums over a finite set.  Induction is by least counterexample.          *)

\* A set of natural numbers has a least one.
LEMMA LeastNat ==
  ASSUME NEW T, T \subseteq Nat, T # {}
  PROVE  \E x \in T : \A y \in T : x <= y
<1> DEFINE R == OpToRel(<, Nat)
<1>1. \E x \in T : \A y \in T : ~ (<<y, x>> \in R)
  BY NatLessThanWellFounded, WFMin
<1>2. ASSUME NEW x \in Nat, NEW y \in Nat, ~(<<y, x>> \in R)
      PROVE  x <= y
  <2>1. y < x <=> <<y, x>> \in R
    <3>1. R = {ss \in Nat \X Nat : ss[1] < ss[2]}
      BY DEF OpToRel
    <3>2. <<y, x>> \in Nat \X Nat /\ <<y, x>>[1] = y /\ <<y, x>>[2] = x
      OBVIOUS
    <3> QED
      BY <3>1, <3>2
  <2> HIDE DEF R
  <2> QED
    BY <1>2, <2>1
<1> QED
  BY <1>1, <1>2

\* What SumFunctionOnSet unfolds to.

Pick(T) == CHOOSE x \in T : TRUE
Adds(g, w, T) == IF T = {} THEN 0 ELSE w[Pick(T)] + g[T \ {Pick(T)}]
IsSum(g, w, S) == g = [T \in SUBSET S |-> Adds(g, w, T)]

LEMMA SumUnfolds ==
  ASSUME NEW w, NEW S
  PROVE  SumFunctionOnSet(w, S) = (CHOOSE g : IsSum(g, w, S))[S]
BY DEF SumFunctionOnSet, FoldFunctionOnSet, MapThenFoldSet, IsSum, Adds, Pick

LEMMA PickFacts ==
  ASSUME NEW T, IsFiniteSet(T), T # {}
  PROVE  /\ Pick(T) \in T /\ IsFiniteSet(T \ {Pick(T)})
         /\ Cardinality(T) \in Nat /\ Cardinality(T \ {Pick(T)}) \in Nat
         /\ Cardinality(T \ {Pick(T)}) = Cardinality(T) - 1
<1>1. Pick(T) \in T
  BY DEF Pick
<1> QED
  BY <1>1, FS_RemoveElement, FS_CardinalityType, FS_EmptySet

LEMMA SumExists ==
  ASSUME NEW w, NEW S, IsFiniteSet(S)
  PROVE  \E g : IsSum(g, w, S)
<1> DEFINE Up(g, n) == \A T \in SUBSET S : Cardinality(T) <= n => g[T] = Adds(g, w, T)
           bad == {n \in Nat : ~ \E g : Up(g, n)}
<1>1. ASSUME NEW T \in SUBSET S, T # {}
      PROVE  /\ T \ {Pick(T)} \in SUBSET S
             /\ Cardinality(T) \in Nat /\ Cardinality(T \ {Pick(T)}) = Cardinality(T) - 1
  BY <1>1, FS_Subset, PickFacts
<1>2. ASSUME NEW n \in Nat, n \in bad, \A k \in bad : n <= k
      PROVE  FALSE
  <2>1. CASE n = 0
    <3> DEFINE g == [T \in SUBSET S |-> 0]
    <3>1. ASSUME NEW T \in SUBSET S, Cardinality(T) <= 0 PROVE g[T] = Adds(g, w, T)
      <4>1. T = {}
        BY <3>1, FS_Subset, FS_EmptySet, FS_CardinalityType
      <4> QED
        BY <4>1 DEF Adds
    <3>2. Up(g, n)
      BY <2>1, <3>1
    <3> HIDE DEF g, Up
    <3> QED
      BY <1>2, <3>2
  <2>2. CASE n # 0
    <3>1. n - 1 \in Nat /\ n - 1 \notin bad
      BY <1>2, <2>2
    <3>2. PICK g : Up(g, n - 1)
      BY <3>1
    <3> DEFINE h == [T \in SUBSET S |-> IF Cardinality(T) <= n - 1 THEN g[T] ELSE Adds(g, w, T)]
    <3>3. ASSUME NEW T \in SUBSET S, Cardinality(T) <= n PROVE h[T] = Adds(h, w, T)
      <4>1. h[T] = Adds(g, w, T)
        BY <3>2
      <4>2. CASE T = {}
        BY <4>1, <4>2 DEF Adds
      <4>3. CASE T # {}
        <5>1. h[T \ {Pick(T)}] = g[T \ {Pick(T)}]
          BY <1>1, <3>3, <4>3
        <5> HIDE DEF h
        <5> QED
          BY <4>1, <4>3, <5>1 DEF Adds
      <4> QED
        BY <4>2, <4>3
    <3>4. Up(h, n)
      BY <3>3
    <3> HIDE DEF h, Up
    <3> QED
      BY <1>2, <3>4
  <2> QED
    BY <2>1, <2>2
<1>3. bad = {}
  <2> SUFFICES ASSUME bad # {} PROVE FALSE
    OBVIOUS
  <2>1. bad \subseteq Nat
    OBVIOUS
  <2> HIDE DEF bad
  <2> QED
    BY <1>2, <2>1, LeastNat
<1>4. Cardinality(S) \in Nat
  BY FS_CardinalityType
<1>5. PICK g : Up(g, Cardinality(S))
  BY <1>3, <1>4
<1> DEFINE h == [T \in SUBSET S |-> Adds(g, w, T)]
<1>6. ASSUME NEW T \in SUBSET S PROVE h[T] = g[T]
  BY <1>5, FS_Subset
<1>7. ASSUME NEW T \in SUBSET S PROVE h[T] = Adds(h, w, T)
  <2>1. T # {} => h[T \ {Pick(T)}] = g[T \ {Pick(T)}]
    BY <1>1, <1>6
  <2>2. h[T] = Adds(g, w, T)
    OBVIOUS
  <2> HIDE DEF h
  <2> QED
    BY <2>1, <2>2 DEF Adds
<1>8. IsSum(h, w, S)
  BY <1>7 DEF IsSum
<1> QED
  BY <1>8

\* Two sums agree on what they both add up.
LEMMA SumUnique ==
  ASSUME NEW w, NEW v, NEW S, NEW R \in SUBSET S, IsFiniteSet(S), NEW g, NEW h,
         IsSum(g, w, S), IsSum(h, v, R), \A x \in R : w[x] = v[x]
  PROVE  \A T \in SUBSET R : g[T] = h[T]
<1> DEFINE bad == {n \in Nat : \E T \in SUBSET R : Cardinality(T) = n /\ g[T] # h[T]}
<1>1. ASSUME NEW T \in SUBSET R
      PROVE  T \in SUBSET S /\ IsFiniteSet(T) /\ Cardinality(T) \in Nat
  BY FS_Subset, FS_CardinalityType
<1>2. ASSUME NEW n \in Nat, n \in bad, \A k \in bad : n <= k
      PROVE  FALSE
  <2>1. PICK T \in SUBSET R : Cardinality(T) = n /\ g[T] # h[T]
    BY <1>2
  <2>2. g[T] = Adds(g, w, T) /\ h[T] = Adds(h, v, T)
    BY <1>1 DEF IsSum
  <2>3. T # {}
    BY <2>1, <2>2 DEF Adds
  <2>4. /\ T \ {Pick(T)} \in SUBSET R /\ Pick(T) \in R
        /\ Cardinality(T \ {Pick(T)}) = n - 1 /\ n - 1 \in Nat
    BY <1>1, <2>1, <2>3, PickFacts
  <2>5. n - 1 \notin bad
    BY <1>2
  <2>6. g[T \ {Pick(T)}] = h[T \ {Pick(T)}]
    BY <2>4, <2>5
  <2> QED
    BY <2>1, <2>2, <2>3, <2>4, <2>6 DEF Adds
<1>3. bad = {}
  <2> SUFFICES ASSUME bad # {} PROVE FALSE
    OBVIOUS
  <2>1. bad \subseteq Nat
    OBVIOUS
  <2> HIDE DEF bad
  <2> QED
    BY <1>2, <2>1, LeastNat
<1> QED
  BY <1>1, <1>3

LEMMA SumValue ==
  ASSUME NEW w, NEW S, IsFiniteSet(S)
  PROVE  SumFunctionOnSet(w, S) =
           IF S = {} THEN 0 ELSE w[Pick(S)] + SumFunctionOnSet(w, S \ {Pick(S)})
<1> DEFINE g == CHOOSE f : IsSum(f, w, S)
           R == S \ {Pick(S)}
           h == CHOOSE f : IsSum(f, w, R)
<1>1. SumFunctionOnSet(w, S) = g[S] /\ SumFunctionOnSet(w, R) = h[R]
  BY SumUnfolds
<1>2. IsFiniteSet(R)
  BY FS_Subset
<1>3. IsSum(g, w, S) /\ IsSum(h, w, R)
  BY <1>2, SumExists
<1> HIDE DEF g, h
<1>4. g[S] = Adds(g, w, S)
  BY <1>3 DEF IsSum
<1>5. R \in SUBSET S /\ R \in SUBSET R
  OBVIOUS
<1> HIDE DEF R
<1>6. g[R] = h[R]
  BY <1>3, <1>5, SumUnique
<1> QED
  BY <1>1, <1>4, <1>6 DEF Adds, R

\* The element that is taken first does not matter.
LEMMA SumRemoves ==
  ASSUME NEW S, IsFiniteSet(S), NEW w \in [S -> Int]
  PROVE  /\ SumFunctionOnSet(w, {}) = 0
         /\ \A T \in SUBSET S : SumFunctionOnSet(w, T) \in Int
         /\ \A T \in SUBSET S : \A x \in T :
              SumFunctionOnSet(w, T) = w[x] + SumFunctionOnSet(w, T \ {x})
<1> DEFINE Sum(T) == SumFunctionOnSet(w, T)
           wrong(T) == \/ Sum(T) \notin Int
                       \/ \E x \in T : Sum(T) # w[x] + Sum(T \ {x})
           bad == {n \in Nat : \E T \in SUBSET S : Cardinality(T) = n /\ wrong(T)}
<1>0. Sum({}) = 0
  BY SumValue, FS_EmptySet
<1>1. ASSUME NEW T \in SUBSET S
      PROVE  IsFiniteSet(T) /\ Cardinality(T) \in Nat
  BY FS_Subset, FS_CardinalityType
<1>2. ASSUME NEW T \in SUBSET S, NEW x \in T
      PROVE  /\ T \ {x} \in SUBSET S
             /\ Cardinality(T \ {x}) = Cardinality(T) - 1 /\ Cardinality(T) - 1 \in Nat
  <2>1. Cardinality(T \ {x}) = Cardinality(T) - 1 /\ IsFiniteSet(T \ {x})
    BY <1>1, FS_RemoveElement
  <2>2. Cardinality(T \ {x}) \in Nat
    BY <2>1, FS_CardinalityType
  <2> QED
    BY <2>1, <2>2
<1> HIDE DEF Sum
<1>3. ASSUME NEW n \in Nat, n \in bad, \A k \in bad : n <= k
      PROVE  FALSE
  <2>1. PICK T \in SUBSET S : Cardinality(T) = n /\ wrong(T)
    BY <1>3
  <2>2. T # {}
    BY <1>0, <2>1
  <2> DEFINE p == Pick(T)
  <2>3. p \in T /\ Sum(T) = w[p] + Sum(T \ {p})
    BY <1>1, <2>2, SumValue DEF Pick, Sum
  <2> HIDE DEF p
  <2>4. ASSUME NEW R \in SUBSET S, Cardinality(R) = n - 1
        PROVE  ~wrong(R)
    <3>1. n - 1 \in Nat /\ n - 1 \notin bad
      BY <1>1, <1>3, <2>4
    <3> QED
      BY <2>4, <3>1
  <2>5. ASSUME NEW x \in T PROVE ~wrong(T \ {x})
    BY <1>2, <2>1, <2>4
  <2>6. \A x \in T : w[x] \in Int
    OBVIOUS
  <2>7. Sum(T) \in Int
    BY <2>3, <2>5, <2>6
  <2>8. ASSUME NEW x \in T, x # p PROVE Sum(T) = w[x] + Sum(T \ {x})
    <3>1. (T \ {p}) \ {x} = (T \ {x}) \ {p}
      OBVIOUS
    <3>2. Sum(T \ {p}) = w[x] + Sum((T \ {p}) \ {x})
      BY <2>3, <2>5, <2>8
    <3>3. Sum(T \ {x}) = w[p] + Sum((T \ {x}) \ {p})
      BY <2>3, <2>5, <2>8
    <3>4. Sum((T \ {p}) \ {x}) \in Int
      <4> DEFINE R == (T \ {p}) \ {x}
      <4>0. T \ {p} \in SUBSET S /\ x \in T \ {p} /\ Cardinality(T \ {p}) = n - 1
        BY <1>2, <2>1, <2>3, <2>8
      <4>1. R \in SUBSET S /\ Cardinality(R) = (n - 1) - 1 /\ (n - 1) - 1 \in Nat
        BY <1>2, <4>0
      <4>2. (n - 1) - 1 \notin bad
        BY <1>3, <4>1
      <4> HIDE DEF R
      <4>3. Sum(R) \in Int
        BY <4>1, <4>2
      <4> QED
        BY <4>3 DEF R
    <3>5. Sum(T) = w[p] + (w[x] + Sum((T \ {p}) \ {x}))
      BY <2>3, <3>2
    <3>6. Sum(T \ {x}) = w[p] + Sum((T \ {p}) \ {x})
      BY <3>1, <3>3
    <3>7. w[p] \in Int /\ w[x] \in Int
      BY <2>3, <2>6
    <3> QED
      BY <3>4, <3>5, <3>6, <3>7
  <2> QED
    BY <2>1, <2>3, <2>7, <2>8
<1>4. bad = {}
  <2> SUFFICES ASSUME bad # {} PROVE FALSE
    OBVIOUS
  <2>1. bad \subseteq Nat
    OBVIOUS
  <2> HIDE DEF bad
  <2> QED
    BY <1>3, <2>1, LeastNat
<1>5. \A T \in SUBSET S : ~wrong(T)
  BY <1>1, <1>4
<1> QED
  BY <1>0, <1>5 DEF Sum

\* A sum grows with its terms, and does not fall below nothing when they do not.
LEMMA SumMonotone ==
  ASSUME NEW S, IsFiniteSet(S), NEW w \in [S -> Int], NEW v \in [S -> Int],
         \A x \in S : w[x] <= v[x]
  PROVE  SumFunctionOnSet(w, S) <= SumFunctionOnSet(v, S)
<1> DEFINE Sum(T) == SumFunctionOnSet(w, T)
           Bound(T) == SumFunctionOnSet(v, T)
           bad == {n \in Nat : \E T \in SUBSET S : Cardinality(T) = n /\ ~(Sum(T) <= Bound(T))}
<1>0. /\ Sum({}) = 0 /\ Bound({}) = 0
      /\ \A T \in SUBSET S : Sum(T) \in Int /\ Bound(T) \in Int
      /\ \A T \in SUBSET S : \A x \in T :
           Sum(T) = w[x] + Sum(T \ {x}) /\ Bound(T) = v[x] + Bound(T \ {x})
  BY SumRemoves
<1>1. ASSUME NEW T \in SUBSET S
      PROVE  IsFiniteSet(T) /\ Cardinality(T) \in Nat
  BY FS_Subset, FS_CardinalityType
<1> HIDE DEF Sum, Bound
<1>2. ASSUME NEW n \in Nat, n \in bad, \A k \in bad : n <= k
      PROVE  FALSE
  <2>1. PICK T \in SUBSET S : Cardinality(T) = n /\ ~(Sum(T) <= Bound(T))
    BY <1>2
  <2>2. T # {}
    <3> SUFFICES ASSUME T = {} PROVE FALSE
      OBVIOUS
    <3>1. Sum(T) = 0 /\ Bound(T) = 0
      BY <1>0
    <3> QED
      BY <2>1, <3>1
  <2>3. PICK x \in T : TRUE
    BY <2>2
  <2>4. T \ {x} \in SUBSET S /\ Cardinality(T \ {x}) = n - 1 /\ n - 1 \in Nat
    <3>1. Cardinality(T \ {x}) = Cardinality(T) - 1 /\ IsFiniteSet(T \ {x})
      BY <1>1, FS_RemoveElement
    <3> QED
      BY <2>1, <3>1, FS_CardinalityType
  <2>5. n - 1 \notin bad
    BY <1>2
  <2>6. Sum(T \ {x}) <= Bound(T \ {x})
    BY <2>4, <2>5
  <2>7. w[x] <= v[x] /\ w[x] \in Int /\ v[x] \in Int
    BY <2>3
  <2> QED
    BY <1>0, <2>1, <2>4, <2>6, <2>7
<1>3. bad = {}
  <2> SUFFICES ASSUME bad # {} PROVE FALSE
    OBVIOUS
  <2>1. bad \subseteq Nat
    OBVIOUS
  <2> HIDE DEF bad
  <2> QED
    BY <1>2, <2>1, LeastNat
<1>4. Cardinality(S) \in Nat /\ S \in SUBSET S
  BY FS_CardinalityType
<1>5. Sum(S) <= Bound(S)
  BY <1>3, <1>4
<1> QED
  BY <1>5 DEF Sum, Bound

\* The sum over a smaller set, of another function that agrees there.
LEMMA SumAgrees ==
  ASSUME NEW S, IsFiniteSet(S), NEW R \in SUBSET S, NEW w, NEW v, \A x \in R : w[x] = v[x]
  PROVE  SumFunctionOnSet(w, R) = SumFunctionOnSet(v, R)
<1> DEFINE g == CHOOSE f : IsSum(f, w, R)
           h == CHOOSE f : IsSum(f, v, R)
<1>1. IsFiniteSet(R) /\ R \in SUBSET R
  BY FS_Subset
<1>2. SumFunctionOnSet(w, R) = g[R] /\ SumFunctionOnSet(v, R) = h[R]
  BY SumUnfolds
<1>3. IsSum(g, w, R) /\ IsSum(h, v, R)
  BY <1>1, SumExists
<1> HIDE DEF g, h
<1> QED
  BY <1>1, <1>2, <1>3, SumUnique

\* A sum of nothing but zeros.
LEMMA SumVanishes ==
  ASSUME NEW S, IsFiniteSet(S), NEW w \in [S -> Int], \A x \in S : w[x] = 0
  PROVE  SumFunctionOnSet(w, S) = 0
<1> DEFINE Sum(T) == SumFunctionOnSet(w, T)
           bad == {n \in Nat : \E T \in SUBSET S : Cardinality(T) = n /\ Sum(T) # 0}
<1>0. /\ Sum({}) = 0
      /\ \A T \in SUBSET S : Sum(T) \in Int
      /\ \A T \in SUBSET S : \A x \in T : Sum(T) = w[x] + Sum(T \ {x})
  BY SumRemoves
<1>1. ASSUME NEW T \in SUBSET S
      PROVE  IsFiniteSet(T) /\ Cardinality(T) \in Nat
  BY FS_Subset, FS_CardinalityType
<1> HIDE DEF Sum
<1>2. ASSUME NEW n \in Nat, n \in bad, \A k \in bad : n <= k
      PROVE  FALSE
  <2>1. PICK T \in SUBSET S : Cardinality(T) = n /\ Sum(T) # 0
    BY <1>2
  <2>2. T # {}
    <3> SUFFICES ASSUME T = {} PROVE FALSE
      OBVIOUS
    <3>1. Sum(T) = 0
      BY <1>0
    <3> QED
      BY <2>1, <3>1
  <2>3. PICK x \in T : TRUE
    BY <2>2
  <2>4. T \ {x} \in SUBSET S /\ Cardinality(T \ {x}) = n - 1 /\ n - 1 \in Nat
    <3>1. Cardinality(T \ {x}) = Cardinality(T) - 1 /\ IsFiniteSet(T \ {x})
      BY <1>1, FS_RemoveElement
    <3> QED
      BY <2>1, <3>1, FS_CardinalityType
  <2>5. n - 1 \notin bad
    BY <1>2
  <2>6. Sum(T \ {x}) = 0
    BY <2>4, <2>5
  <2>7. w[x] = 0
    BY <2>3
  <2> QED
    BY <1>0, <2>1, <2>6, <2>7
<1>3. bad = {}
  <2> SUFFICES ASSUME bad # {} PROVE FALSE
    OBVIOUS
  <2>1. bad \subseteq Nat
    OBVIOUS
  <2> HIDE DEF bad
  <2> QED
    BY <1>2, <2>1, LeastNat
<1>4. Cardinality(S) \in Nat /\ S \in SUBSET S
  BY FS_CardinalityType
<1>5. Sum(S) = 0
  BY <1>3, <1>4
<1> QED
  BY <1>5 DEF Sum

-----------------------------------------------------------------------------
(* What the guard lets through stays within the limits.                    *)

\* The intent in hand is one for a slot, at a leverage that can be divided by, and what it
\* opens replaces nothing.
Hands ==
  /\ stage # "idle" => intent.slot \in Slots
  /\ intent.lev # 0
  /\ stage \in {"inventory", "send"} => pos[intent.slot].qty = 0

\* Stages in which the caps have been applied.
Sized == {"cash", "flip", "inventory", "send"}

\* What the caps left of the ask still fits beside the other positions, whatever has been
\* awaited since, and an entry that is sent is all that is unresolved.
NotionalFits == stage \in Sized => OpenNotional(intent.slot) + size <= MaxTotal
MarginFits ==
  stage \in Sized =>
    OpenMargin(intent.slot) * 1000 * intent.lev + size * (1001 + intent.lev) * Sats
      <= MaxMargin * Sats * 1000 * intent.lev
SentAlone == stage = "send" => unresolved = size

\* All stamps of r but those of the last 1 + e sends q are matched, from the end: one that is
\* no earlier than the send before.
Interleaved(q, r, e) ==
  /\ Len(q) <= Len(r) + 1 + e
  /\ \A k \in 1 .. Len(q) - 1 - e : r[Len(r) - Len(q) + 1 + e + k] >= q[k]

\* The sends are those of the window, in order; each but the last two has left a stamp that
\* is still counted, and the stamp of the entry in hand is not before the sends before it.
Rated ==
  /\ \A i, j \in 1 .. Len(sends) : i < j => sends[i] <= sends[j]
  /\ \A i \in 1 .. Len(sends) : now - Window < sends[i] /\ sends[i] <= now
  /\ Interleaved(sends, recent, IF stage = "send" THEN 1 ELSE 0)
  /\ stage \in Admitted =>
       /\ \A i \in 1 .. Len(sends) : sends[i] <= stamp
       /\ Len(sends) <= MaxOrders
  /\ stage = "send" => \A i \in 1 .. Len(sends) - 1 : sends[i] <= stamp
  /\ SubmissionsBounded

LInv == TypeOK /\ Hands /\ ExposureBounded /\ NotionalFits /\ MarginFits /\ SentAlone /\ Rated

-----------------------------------------------------------------------------
(* The window of stamps.                                                   *)

LEMMA SinceFacts ==
  ASSUME NEW T, NEW q \in Seq(T), T \subseteq Int, NEW t \in Int
  PROVE  \E d \in 0 .. Len(q) :
           /\ Since(q, t) = SubSeq(q, d + 1, Len(q))
           /\ \A j \in 1 .. d : q[j] < t
           /\ d < Len(q) => q[d + 1] >= t
<1> DEFINE K == {k \in 1 .. Len(q) + 1 : \A j \in 1 .. k - 1 : q[j] < t}
           R == {n \in 0 .. Len(q) : Len(q) + 1 - n \in K}
<1>0. Len(q) \in Nat
  OBVIOUS
<1>1. 1 \in K
  BY <1>0
<1>2. Len(q) \in R /\ R \subseteq Nat
  BY <1>0, <1>1
<1> HIDE DEF R
<1>3. PICK n \in R : \A m \in R : n <= m
  BY <1>2, LeastNat
<1> DEFINE m == Len(q) + 1 - n
<1>4. m \in K /\ n \in 0 .. Len(q)
  BY <1>3 DEF R
<1>5. \A k \in K : k <= m
  <2> SUFFICES ASSUME NEW k \in K PROVE k <= m
    OBVIOUS
  <2>1. k \in 1 .. Len(q) + 1
    OBVIOUS
  <2>2. Len(q) + 1 - (Len(q) + 1 - k) = k /\ Len(q) + 1 - k \in 0 .. Len(q)
    BY <1>0, <2>1
  <2>3. Len(q) + 1 - k \in R
    BY <2>2 DEF R
  <2>4. n <= Len(q) + 1 - k
    BY <1>3, <2>3
  <2> QED
    BY <1>0, <1>4, <2>1, <2>4
<1>6. m \in 1 .. Len(q) + 1 /\ \A j \in 1 .. m - 1 : q[j] < t
  BY <1>4
<1>7. Max(K) = m
  <2>1. K \subseteq Int
    OBVIOUS
  <2>2. m \in Int
    BY <1>6
  <2> DEFINE c == Max(K)
  <2> HIDE DEF K, m
  <2>3. m \in K /\ \A k \in K : m >= k
    BY <1>4, <1>5, <2>1, <2>2
  <2>4. c \in K /\ \A k \in K : c >= k
    BY <2>3 DEF Max
  <2>5. c >= m /\ m >= c /\ c \in Int
    BY <2>1, <2>3, <2>4
  <2> HIDE DEF c
  <2>6. c = m
    BY <2>2, <2>5
  <2> QED
    BY <2>6 DEF c
<1>8. Since(q, t) = SubSeq(q, m, Len(q))
  BY <1>7 DEF Since
<1>9. m <= Len(q) => q[m] >= t
  <2> SUFFICES ASSUME m <= Len(q), ~(q[m] >= t) PROVE FALSE
    OBVIOUS
  <2>0. ~(q[m] >= t)
    OBVIOUS
  <2>1. q[m] \in Int /\ q[m] < t
    <3>1. m \in 1 .. Len(q)
      BY <1>6
    <3> HIDE DEF m
    <3>2. q[m] \in T
      BY <3>1
    <3>3. q[m] \in Int
      BY <3>2
    <3> QED
      BY <2>0, <3>3
  <2>2. m + 1 \in 1 .. Len(q) + 1
    BY <1>0, <1>6
  <2>3. \A j \in 1 .. (m + 1) - 1 : q[j] < t
    BY <1>6, <2>1
  <2>4. m + 1 \in K
    BY <2>2, <2>3
  <2> HIDE DEF K
  <2>5. m + 1 <= m
    BY <1>5, <2>4
  <2> QED
    BY <1>6, <2>5
<1> HIDE DEF m, K
<1> DEFINE d == m - 1
<1>10. d \in 0 .. Len(q) /\ d + 1 = m
  BY <1>0, <1>6
<1>11. Since(q, t) = SubSeq(q, d + 1, Len(q))
  BY <1>8, <1>10
<1>12. \A j \in 1 .. d : q[j] < t
  BY <1>6
<1>13. d < Len(q) => q[d + 1] >= t
  <2> SUFFICES ASSUME d < Len(q) PROVE q[m] >= t
    BY <1>10
  <2>1. m <= Len(q)
    BY <1>0, <1>6
  <2> QED
    BY <1>9, <2>1
<1> HIDE DEF d
<1> QED
  BY <1>10, <1>11, <1>12, <1>13

LEMMA SuffixFacts ==
  ASSUME NEW T, NEW q \in Seq(T), NEW d \in 0 .. Len(q)
  PROVE  LET p == SubSeq(q, d + 1, Len(q))
         IN  /\ p \in Seq(T) /\ Len(p) = Len(q) - d
             /\ \A k \in 1 .. Len(p) : p[k] = q[d + k]
<1>1. Len(q) \in Nat
  OBVIOUS
<1>2. CASE d < Len(q)
  BY <1>1, <1>2
<1>3. CASE d = Len(q)
  BY <1>1, <1>3
<1> QED
  BY <1>1, <1>2, <1>3

\* The oldest sends leave the window.
LEMMA InterleavedLater ==
  ASSUME NEW T, NEW q \in Seq(T), NEW r \in Seq(T), NEW e \in {0, 1}, T \subseteq Int,
         Interleaved(q, r, e), NEW d \in 0 .. Len(q)
  PROVE  Interleaved(SubSeq(q, d + 1, Len(q)), r, e)
<1> DEFINE p == SubSeq(q, d + 1, Len(q))
<1>1. Len(p) = Len(q) - d /\ \A k \in 1 .. Len(p) : p[k] = q[d + k]
  BY SuffixFacts
<1>2. Len(q) \in Nat /\ Len(r) \in Nat
  OBVIOUS
<1> HIDE DEF p
<1>3. Len(p) <= Len(r) + 1 + e
  BY <1>1, <1>2 DEF Interleaved
<1>4. ASSUME NEW k \in 1 .. Len(p) - 1 - e
      PROVE  r[Len(r) - Len(p) + 1 + e + k] >= p[k]
  <2>1. d + k \in 1 .. Len(q) - 1 - e /\ k \in 1 .. Len(p)
    BY <1>1, <1>2
  <2>2. r[Len(r) - Len(q) + 1 + e + (d + k)] >= q[d + k]
    BY <2>1 DEF Interleaved
  <2>3. Len(r) - Len(q) + 1 + e + (d + k) = Len(r) - Len(p) + 1 + e + k
    BY <1>1, <1>2
  <2> QED
    BY <1>1, <2>1, <2>2, <2>3
<1> QED
  BY <1>3, <1>4 DEF Interleaved, p

\* Stamps older than every send leave the window.
LEMMA InterleavedTrimmed ==
  ASSUME NEW T, NEW q \in Seq(T), NEW r \in Seq(T), T \subseteq Int, NEW t \in Int,
         Interleaved(q, r, 0), NEW d \in 0 .. Len(r),
         \A j \in 1 .. d : r[j] < t, \A k \in 1 .. Len(q) : q[k] >= t
  PROVE  Interleaved(q, SubSeq(r, d + 1, Len(r)), 0)
<1> DEFINE p == SubSeq(r, d + 1, Len(r))
<1>1. Len(p) = Len(r) - d /\ \A k \in 1 .. Len(p) : p[k] = r[d + k]
  BY SuffixFacts
<1>2. Len(q) \in Nat /\ Len(r) \in Nat /\ Len(q) <= Len(r) + 1
  BY DEF Interleaved
<1> HIDE DEF p
<1>3. ASSUME NEW k \in 1 .. Len(q) - 1
      PROVE  /\ r[Len(r) - Len(q) + 1 + k] >= q[k] /\ Len(r) - Len(q) + 1 + k > d
             /\ Len(r) - Len(q) + 1 + k \in 1 .. Len(r)
  <2> DEFINE i == Len(r) - Len(q) + 1 + k
  <2>1. i \in 1 .. Len(r)
    BY <1>2
  <2>2. k \in 1 .. Len(q) - 1 - 0 /\ Len(r) - Len(q) + 1 + 0 + k = i
    BY <1>2
  <2>3. r[Len(r) - Len(q) + 1 + 0 + k] >= q[k]
    BY <2>2 DEF Interleaved
  <2>4. r[i] >= q[k]
    BY <2>2, <2>3
  <2>5. q[k] \in Int /\ q[k] >= t /\ r[i] \in Int
    <3>1. k \in 1 .. Len(q)
      BY <1>2
    <3> HIDE DEF i
    <3>2. q[k] \in T /\ r[i] \in T /\ q[k] >= t
      BY <2>1, <3>1
    <3> QED
      BY <3>2
  <2>6. ~(r[i] < t)
    BY <2>4, <2>5
  <2> HIDE DEF i
  <2>7. i > d
    BY <2>1, <2>6
  <2> QED
    BY <2>1, <2>4, <2>7 DEF i
<1>4. Len(q) <= Len(p) + 1 + 0
  <2>1. CASE Len(q) <= 1
    BY <1>1, <1>2, <2>1
  <2>2. CASE Len(q) > 1
    <3>1. 1 \in 1 .. Len(q) - 1
      BY <1>2, <2>2
    <3>2. Len(r) - Len(q) + 1 + 1 > d
      BY <1>3, <3>1
    <3> QED
      BY <1>1, <1>2, <3>2
  <2> QED
    BY <1>2, <2>1, <2>2
<1>5. ASSUME NEW k \in 1 .. Len(q) - 1 - 0
      PROVE  p[Len(p) - Len(q) + 1 + 0 + k] >= q[k]
  <2> DEFINE i == Len(r) - Len(q) + 1 + k
  <2>1. r[i] >= q[k] /\ i > d /\ i \in 1 .. Len(r)
    BY <1>2, <1>3, <1>5
  <2>2. i - d \in 1 .. Len(p) /\ d + (i - d) = i
    BY <1>1, <1>2, <2>1
  <2>3. p[i - d] = r[i]
    BY <1>1, <2>2
  <2>4. i - d = Len(p) - Len(q) + 1 + 0 + k
    BY <1>1, <1>2
  <2> QED
    BY <2>1, <2>3, <2>4
<1> QED
  BY <1>4, <1>5 DEF Interleaved, p

\* An entry is sent.
LEMMA InterleavedSent ==
  ASSUME NEW T, NEW q \in Seq(T), NEW r \in Seq(T), NEW x \in T, Interleaved(q, r, 0)
  PROVE  Interleaved(Append(q, x), r, 1)
<1> DEFINE p == Append(q, x)
<1>1. Len(p) = Len(q) + 1 /\ (\A k \in 1 .. Len(q) : p[k] = q[k]) /\ Len(q) \in Nat /\ Len(r) \in Nat
  OBVIOUS
<1> HIDE DEF p
<1>2. Len(p) <= Len(r) + 1 + 1
  BY <1>1 DEF Interleaved
<1>3. ASSUME NEW k \in 1 .. Len(p) - 1 - 1
      PROVE  r[Len(r) - Len(p) + 1 + 1 + k] >= p[k]
  <2>1. k \in 1 .. Len(q) - 1 - 0 /\ k \in 1 .. Len(q)
    BY <1>1
  <2>2. r[Len(r) - Len(q) + 1 + 0 + k] >= q[k]
    BY <2>1 DEF Interleaved
  <2>3. Len(r) - Len(q) + 1 + 0 + k = Len(r) - Len(p) + 1 + 1 + k
    BY <1>1
  <2> QED
    BY <1>1, <2>1, <2>2, <2>3
<1> QED
  BY <1>2, <1>3 DEF Interleaved, p

\* What was sent is counted under a stamp that is not before the sends before it.
LEMMA InterleavedCounted ==
  ASSUME NEW T, NEW q \in Seq(T), NEW r \in Seq(T), NEW x \in T, T \subseteq Int,
         Interleaved(q, r, 1), \A k \in 1 .. Len(q) - 1 : q[k] <= x
  PROVE  Interleaved(q, Append(r, x), 0)
<1> DEFINE p == Append(r, x)
<1>1. /\ Len(p) = Len(r) + 1 /\ (\A k \in 1 .. Len(r) : p[k] = r[k]) /\ p[Len(r) + 1] = x
      /\ Len(q) \in Nat /\ Len(r) \in Nat
  OBVIOUS
<1> HIDE DEF p
<1>2. Len(q) <= Len(p) + 1 + 0
  BY <1>1 DEF Interleaved
<1>3. ASSUME NEW k \in 1 .. Len(q) - 1 - 0
      PROVE  p[Len(p) - Len(q) + 1 + 0 + k] >= q[k]
  <2>0. q[k] \in Int /\ x \in Int /\ q[k] <= x
    <3>1. k \in 1 .. Len(q) /\ k \in 1 .. Len(q) - 1
      BY <1>1
    <3>2. q[k] \in T
      BY <3>1
    <3> QED
      BY <3>1, <3>2
  <2>1. CASE k = Len(q) - 1
    <3>1. Len(p) - Len(q) + 1 + 0 + k = Len(r) + 1
      BY <1>1, <2>1
    <3> QED
      BY <1>1, <2>0, <3>1
  <2>2. CASE k # Len(q) - 1
    <3>1. k \in 1 .. Len(q) - 1 - 1
      BY <1>1, <2>2
    <3>2. r[Len(r) - Len(q) + 1 + 1 + k] >= q[k]
      BY <3>1 DEF Interleaved
    <3>3. /\ Len(r) - Len(q) + 1 + 1 + k = Len(p) - Len(q) + 1 + 0 + k
          /\ Len(r) - Len(q) + 1 + 1 + k \in 1 .. Len(r)
      BY <1>1, <3>1 DEF Interleaved
    <3> QED
      BY <1>1, <3>2, <3>3
  <2> QED
    BY <2>1, <2>2
<1> QED
  BY <1>2, <1>3 DEF Interleaved, p

\* An entry that is counted without having been sent.
LEMMA InterleavedDeclined ==
  ASSUME NEW T, NEW q \in Seq(T), NEW r \in Seq(T), NEW x \in T, T \subseteq Int,
         Interleaved(q, r, 0), \A k \in 1 .. Len(q) : q[k] <= x,
         \A i, j \in 1 .. Len(q) : i < j => q[i] <= q[j]
  PROVE  Interleaved(q, Append(r, x), 0)
<1>1. Len(q) \in Nat /\ Len(r) \in Nat
  OBVIOUS
<1>2. Interleaved(q, r, 1)
  <2>1. Len(q) <= Len(r) + 1 + 1
    BY <1>1 DEF Interleaved
  <2>2. ASSUME NEW k \in 1 .. Len(q) - 1 - 1
        PROVE  r[Len(r) - Len(q) + 1 + 1 + k] >= q[k]
    <3>1. k + 1 \in 1 .. Len(q) - 1 - 0 /\ k + 1 \in 1 .. Len(q) /\ k \in 1 .. Len(q)
      BY <1>1
    <3>2. r[Len(r) - Len(q) + 1 + 0 + (k + 1)] >= q[k + 1]
      BY <3>1 DEF Interleaved
    <3>3. /\ Len(r) - Len(q) + 1 + 0 + (k + 1) = Len(r) - Len(q) + 1 + 1 + k
          /\ Len(r) - Len(q) + 1 + 1 + k \in 1 .. Len(r)
      BY <1>1, <3>1 DEF Interleaved
    <3>4. q[k] <= q[k + 1] /\ q[k] \in T /\ q[k + 1] \in T
      BY <3>1
    <3>5. r[Len(r) - Len(q) + 1 + 1 + k] \in T
      BY <3>3
    <3>6. \A y \in T : y \in Int
      OBVIOUS
    <3> DEFINE a == r[Len(r) - Len(q) + 1 + 1 + k]
               b == q[k + 1]
               c == q[k]
    <3>7. a >= b
      BY <3>2, <3>3
    <3>8. a \in Int /\ b \in Int /\ c \in Int /\ c <= b
      BY <3>4, <3>5, <3>6
    <3> HIDE DEF a, b, c
    <3>9. a >= c
      BY <3>7, <3>8
    <3> QED
      BY <3>9 DEF a, c
  <2> QED
    BY <2>1, <2>2 DEF Interleaved
<1>3. \A k \in 1 .. Len(q) - 1 : q[k] <= x
  BY <1>1
<1> QED
  BY <1>2, <1>3, InterleavedCounted

-----------------------------------------------------------------------------
(* Types.                                                                  *)

LEMMA CapFacts ==
  /\ MaxPosition \in Nat /\ MaxTotal \in Nat /\ MaxMargin \in Nat /\ Window \in Nat /\ Window > 0
  /\ MaxLeverage \in Nat /\ MaxLeverage > 0 /\ MaxOrders \in Nat /\ MaxOrders > 0
  /\ MaxBooked \in Nat /\ LastTick \in Nat /\ Sats \in Nat /\ Sats > 0
  /\ IsFiniteSet(Slots) /\ NoSlot \notin Slots
  /\ \A l \in Leverages : l \in Nat /\ l > 0
  /\ \A ask \in Asks : ask \in Nat
  /\ \A fee \in Fees : fee \in Nat
<1>1. /\ \A x \in {MaxPosition, MaxTotal, MaxMargin, MaxEntryAge} : x \in Nat
      /\ \A x \in {MaxLeverage, Window} : x \in Nat /\ x > 0
  BY CapsType
<1>2. /\ MaxPosition \in Nat /\ MaxTotal \in Nat /\ MaxMargin \in Nat
      /\ Window \in Nat /\ Window > 0 /\ MaxLeverage \in Nat /\ MaxLeverage > 0
  BY <1>1
<1>3. /\ \A x \in {MaxLoss, MaxOrders, DayTicks} : x \in Nat /\ x > 0
      /\ \A x \in {LastTick, MaxBooked} : x \in Nat
  BY BoundsType
<1>4. /\ \A l \in Leverages : l \in Nat /\ l > 0
      /\ \A ask \in Asks : ask \in Nat
      /\ \A fee \in Fees : fee \in Nat
  BY BoundsType
<1>5. MaxOrders \in Nat /\ MaxOrders > 0 /\ MaxBooked \in Nat /\ LastTick \in Nat
  BY <1>3
<1> QED
  BY <1>2, <1>4, <1>5, SlotsType DEF Sats

LEMMA LesserFacts ==
  ASSUME NEW m \in Int, NEW n \in Int
  PROVE  /\ Lesser(m, n) \in Int /\ Lesser(m, n) <= m /\ Lesser(m, n) <= n
         /\ m > 0 /\ n > 0 => Lesser(m, n) > 0
BY DEF Lesser

LEMMA ClockFacts ==
  ASSUME TypeOK
  PROVE  Clock /\ Today \in Days /\ Today \in Nat /\ now \in Nat /\ price \in Nat /\ price > 0
         /\ Today # NoDay
BY TodayType, ConstantFacts DEF TypeOK, Clock, NoDay

LEMMA BookTyped ==
  ASSUME TypeOK, NEW d \in Days, NEW x, Book(d, x)
  PROVE  booked' \in [Days -> -MaxBooked..MaxBooked]
BY DEF Book, TypeOK

LEMMA ReturnsTyped ==
  ASSUME Returns
  PROVE  /\ stage' = "idle" /\ stage' \in Stages /\ size' \in 0..MaxPosition
         /\ intent' \in [slot : Slots \cup {NoSlot}, ts : Nat, due : Nat, lev : Nat]
         /\ intent'.lev # 0 /\ stamp' \in 0..LastTick /\ flipped' \in BOOLEAN
<1>1. /\ stage' = "idle" /\ size' = 0 /\ stamp' = 0 /\ flipped' = FALSE
      /\ intent' = [slot |-> NoSlot, ts |-> 0, due |-> 0, lev |-> 1]
  BY DEF Returns, NoIntent
<1>2. 0 \in 0..MaxPosition /\ 0 \in 0..LastTick /\ FALSE \in BOOLEAN
  BY CapFacts
<1>3. /\ intent' \in [slot : Slots \cup {NoSlot}, ts : Nat, due : Nat, lev : Nat]
      /\ intent'.lev # 0
  BY <1>1
<1>4. stage' \in Stages
  BY <1>1 DEF Stages
<1> QED
  BY <1>1, <1>2, <1>3, <1>4

LEMMA CountedTyped ==
  ASSUME TypeOK, Counted
  PROVE  recent' \in Seq(0..LastTick)
BY DEF Counted, TypeOK

LEMMA SinceTyped ==
  ASSUME NEW q \in Seq(0..LastTick), NEW t \in Int
  PROVE  Since(q, t) \in Seq(0..LastTick)
<1>1. 0..LastTick \subseteq Int
  OBVIOUS
<1>2. PICK d \in 0 .. Len(q) : Since(q, t) = SubSeq(q, d + 1, Len(q))
  BY <1>1, SinceFacts
<1> QED
  BY <1>2, SuffixFacts

\* A position that is given up.
LEMMA ClosedTyped ==
  ASSUME TypeOK, NEW s \in Slots, pos' = [pos EXCEPT ![s] = Flat]
  PROVE  /\ pos' \in [Slots -> [qty : 0..MaxPosition, coll : Nat]]
         /\ pos'[s].qty = 0 /\ \A o \in Slots \ {s} : pos'[o] = pos[o]
BY CapFacts DEF TypeOK, Flat

LEMMA CollateralTyped ==
  ASSUME NEW q \in Nat, NEW l \in Nat, l # 0, price \in Nat, price > 0
  PROVE  Collateral(q, l) \in Nat
<1> DEFINE n == q * Sats
           d == price * l
<1>1. n \in Nat /\ d \in Nat /\ d > 0
  BY CapFacts
<1> HIDE DEF n, d
<1>2. n \div d \in Nat
  BY <1>1, DivMonotone
<1> QED
  BY <1>2 DEF Collateral, n, d

\* What is open beside a slot.
LEMMA QuantitiesTyped ==
  ASSUME TypeOK
  PROVE  /\ Quantities \in [Slots -> Int]
         /\ \A s \in Slots : Quantities[s] = pos[s].qty /\ pos[s].qty \in Nat
BY CapFacts DEF Quantities, TypeOK

LEMMA OthersFinite ==
  ASSUME NEW s
  PROVE  Others(s) \in SUBSET Slots /\ IsFiniteSet(Others(s))
BY CapFacts, FS_Subset DEF Others

LEMMA OpenTyped ==
  ASSUME TypeOK, NEW s
  PROVE  OpenNotional(s) \in Int /\ OpenMargin(s) \in Int
<1> DEFINE w == [o \in Others(s) |-> pos[o].coll * price]
<1>1. Others(s) \in SUBSET Slots /\ IsFiniteSet(Others(s))
  BY OthersFinite
<1>2. OpenNotional(s) \in Int
  BY <1>1, CapFacts, QuantitiesTyped, SumRemoves DEF OpenNotional
<1>3. ASSUME NEW o \in Others(s) PROVE pos[o].coll * price \in Int
  <2>1. pos[o].coll \in Int /\ price \in Int
    BY <1>1, ClockFacts DEF TypeOK
  <2> QED
    BY <2>1
<1>4. w \in [Others(s) -> Int] /\ DOMAIN w = Others(s)
  BY <1>3
<1>5. OpenMargin(s) = SumFunctionOnSet(w, Others(s))
  BY <1>4 DEF OpenMargin, SumFunction
<1> HIDE DEF w
<1>6. Others(s) \in SUBSET Others(s)
  OBVIOUS
<1>7. SumFunctionOnSet(w, Others(s)) \in Int
  BY <1>1, <1>4, <1>6, SumRemoves
<1> QED
  BY <1>2, <1>5, <1>7

\* The margin room is what the caps leave, rounded down.
LEMMA RoomFacts ==
  ASSUME TypeOK, NEW s, NEW lev \in Nat
  PROVE  /\ MarginRoom(s, lev) \in Int
         /\ MarginRoom(s, lev) * ((1001 + lev) * Sats)
              <= (MaxMargin * Sats - OpenMargin(s)) * 1000 * lev
<1> DEFINE n == (MaxMargin * Sats - OpenMargin(s)) * 1000 * lev
           d == (1001 + lev) * Sats
<1>1. OpenMargin(s) \in Int
  BY OpenTyped
<1>2. n \in Int
  <2>1. MaxMargin * Sats - OpenMargin(s) \in Int
    BY <1>1, CapFacts
  <2> QED
    BY <2>1
<1>3. d \in Nat /\ d > 0
  BY DEF Sats
<1>4. MarginRoom(s, lev) = n \div d
  BY DEF MarginRoom
<1> HIDE DEF n, d
<1>5. n \div d \in Int /\ (n \div d) * d <= n
  BY <1>2, <1>3
<1> QED
  BY <1>4, <1>5 DEF n, d

OwnTypes ==
  /\ TypeOK /\ Hands
  /\ stage = "send" => unresolved = size

\* Every step keeps the types, and an intent in hand is one for a slot.
LEMMA StepTyped ==
  ASSUME OwnTypes, Next
  PROVE  TypeOK' /\ Hands'
<1> USE DEF OwnTypes
<1>0. /\ Today \in Days /\ Today # NoDay /\ now \in Nat /\ price \in Nat /\ price > 0
      /\ intent.lev \in Nat /\ size \in Nat /\ unresolved \in Nat
  BY ClockFacts DEF TypeOK
<1>1. CASE Tick
  <2>1. now' \in 0..LastTick /\ now' \in Nat
    BY <1>0, <1>1, CapFacts DEF Tick, TypeOK
  <2>2. now' - Window + 1 \in Int
    BY <2>1, CapFacts
  <2>3. sends' \in Seq(0..LastTick)
    BY <1>1, <2>2, SinceTyped DEF Tick, TypeOK
  <2> QED
    BY <1>1, <2>1, <2>3 DEF Tick, TypeOK, Hands, handVars
<1>2. CASE \E p \in Prices : NextBar(p)
  BY <1>2 DEF NextBar, TypeOK, Hands, handVars
<1>3. ASSUME NEW s \in Slots, VenueCloses(s) PROVE TypeOK' /\ Hands'
  <2>1. gone' \in [Slots -> Days \cup {NoDay}]
    BY <1>0, <1>3 DEF VenueCloses, TypeOK
  <2>2. \A o \in Slots : pos'[o].qty = 0 => gone'[o] = NoDay
    BY <1>3 DEF VenueCloses, TypeOK
  <2> QED
    BY <1>3, <2>1, <2>2 DEF VenueCloses, TypeOK, Hands, handVars
<1>4. ASSUME NEW s \in Slots, NEW x \in Results, ClosureBooked(s, x)
      PROVE  TypeOK' /\ Hands'
  <2>1. gone[s] \in Days /\ Book(gone[s], x) /\ pos' = [pos EXCEPT ![s] = Flat]
    BY <1>4 DEF ClosureBooked, TypeOK
  <2>2. booked' \in [Days -> -MaxBooked..MaxBooked]
    BY <2>1, BookTyped
  <2>3. gone' \in [Slots -> Days \cup {NoDay}] /\ gone'[s] = NoDay
        /\ \A o \in Slots \ {s} : gone'[o] = gone[o]
    BY <1>4 DEF ClosureBooked, TypeOK
  <2>4. /\ pos' \in [Slots -> [qty : 0..MaxPosition, coll : Nat]]
        /\ \A o \in Slots \ {s} : pos'[o] = pos[o]
    BY <2>1, ClosedTyped
  <2>5. \A o \in Slots : pos'[o].qty = 0 => gone'[o] = NoDay
    BY <2>3, <2>4 DEF TypeOK
  <2> QED
    BY <1>4, <2>2, <2>3, <2>4, <2>5 DEF ClosureBooked, TypeOK, Hands, handVars
<1>5. ASSUME NEW x \in Results, FundingBooked(x) PROVE TypeOK' /\ Hands'
  <2>1. booked' \in [Days -> -MaxBooked..MaxBooked]
    BY <1>0, <1>5, BookTyped DEF FundingBooked
  <2> QED
    BY <1>5, <2>1 DEF FundingBooked, TypeOK, Hands, handVars
<1>6. ASSUME NEW x \in Results, ExitAccepted(x) PROVE TypeOK' /\ Hands'
  <2>1. Returns /\ Closed(intent.slot, x) /\ intent.slot \in Slots
    BY <1>6 DEF ExitAccepted, Hands
  <2>2. booked' \in [Days -> -MaxBooked..MaxBooked]
    BY <1>0, <2>1, BookTyped DEF Closed
  <2>3. /\ pos' \in [Slots -> [qty : 0..MaxPosition, coll : Nat]]
        /\ \A o \in Slots \ {intent.slot} : pos'[o] = pos[o]
    BY <2>1, ClosedTyped DEF Closed
  <2>4. \A o \in Slots : pos'[o].qty = 0 => gone[o] = NoDay
    BY <2>1, <2>3 DEF TypeOK, Closed
  <2> QED
    BY <1>6, <2>1, <2>2, <2>3, <2>4, ReturnsTyped DEF ExitAccepted, TypeOK, Hands
<1>7. ASSUME NEW x \in Results, FlipAccepted(x) PROVE TypeOK' /\ Hands'
  <2>1. Closed(intent.slot, x) /\ intent.slot \in Slots /\ stage' = "inventory" /\ flipped' = TRUE
        /\ UNCHANGED intent
    BY <1>7 DEF FlipAccepted, Hands
  <2>2. booked' \in [Days -> -MaxBooked..MaxBooked]
    BY <1>0, <2>1, BookTyped DEF Closed
  <2>3. /\ pos' \in [Slots -> [qty : 0..MaxPosition, coll : Nat]] /\ pos'[intent.slot].qty = 0
        /\ \A o \in Slots \ {intent.slot} : pos'[o] = pos[o]
    BY <2>1, ClosedTyped DEF Closed
  <2>4. \A o \in Slots : pos'[o].qty = 0 => gone[o] = NoDay
    BY <2>1, <2>3 DEF TypeOK, Closed
  <2> QED
    BY <1>7, <2>1, <2>2, <2>3, <2>4 DEF FlipAccepted, TypeOK, Hands, Stages
<1>8. ASSUME NEW fee \in Fees, EntryFilled(fee) PROVE TypeOK' /\ Hands'
  <2>1. Returns /\ Counted /\ Book(Today, -fee) /\ intent.slot \in Slots /\ stage = "send"
    BY <1>8 DEF EntryFilled, Hands
  <2>2. booked' \in [Days -> -MaxBooked..MaxBooked] /\ recent' \in Seq(0..LastTick)
    BY <1>0, <2>1, BookTyped, CountedTyped
  <2>3. Collateral(size, intent.lev) \in Nat
    BY <1>0, CollateralTyped DEF Hands
  <2>4. pos' = [pos EXCEPT ![intent.slot] = [qty |-> size, coll |-> Collateral(size, intent.lev)]]
    BY <1>8 DEF EntryFilled
  <2>5. /\ pos' \in [Slots -> [qty : 0..MaxPosition, coll : Nat]]
        /\ \A o \in Slots \ {intent.slot} : pos'[o] = pos[o]
    BY <2>1, <2>3, <2>4 DEF TypeOK
  <2>6. gone[intent.slot] = NoDay
    BY <2>1 DEF Hands, TypeOK
  <2>7. \A o \in Slots : pos'[o].qty = 0 => gone[o] = NoDay
    BY <2>5, <2>6 DEF TypeOK
  <2>8. unresolved' = 0
    BY <1>0, <1>8, <2>1 DEF EntryFilled
  <2> QED
    BY <1>8, <2>1, <2>2, <2>5, <2>7, <2>8, ReturnsTyped DEF EntryFilled, TypeOK, Hands
<1>9. CASE ExitFails \/ EntryRejected
  BY <1>9, ReturnsTyped DEF ExitFails, EntryRejected, TypeOK, Hands
<1>10. CASE Crash
  <2>1. recent' \in Seq(0..LastTick) /\ sends' \in Seq(0..LastTick)
    BY <1>10 DEF Crash
  <2> QED
    BY <1>10, <2>1, ReturnsTyped DEF Crash, TypeOK, Hands
<1>11. CASE ExecutorDeclines \/ EntryUnanswered
  BY <1>11, ReturnsTyped, CountedTyped DEF ExecutorDeclines, EntryUnanswered, TypeOK, Hands
<1>12. CASE EntryRefused
  <2>1. unresolved' = 0
    BY <1>0, <1>12 DEF EntryRefused
  <2>2. Returns /\ Counted /\ UNCHANGED <<now, price, booked, pos, gone, sends>>
    BY <1>12 DEF EntryRefused
  <2> QED
    BY <2>1, <2>2, ReturnsTyped, CountedTyped DEF TypeOK, Hands
<1>13. ASSUME NEW s \in Slots, SubmitExit(s) PROVE TypeOK' /\ Hands'
  <2>1. intent' = [slot |-> s, ts |-> 0, due |-> 0, lev |-> 1]
    BY <1>13 DEF SubmitExit, NoIntent
  <2>2. /\ intent' \in [slot : Slots \cup {NoSlot}, ts : Nat, due : Nat, lev : Nat]
        /\ intent'.slot = s /\ intent'.lev # 0
    BY <2>1
  <2>3. stage' = "exit" /\ stage' \in Stages
    BY <1>13 DEF SubmitExit, Stages
  <2> QED
    BY <1>13, <2>2, <2>3 DEF SubmitExit, TypeOK, Hands
<1>14. ASSUME NEW i \in Entries, EntryRateLimited(i) \/ EntryAdmitted(i) PROVE TypeOK' /\ Hands'
  <2>1. InWindow(recent) \in Seq(0..LastTick)
    BY <1>0, CapFacts, SinceTyped DEF InWindow, TypeOK
  <2>2. i \in [slot : Slots \cup {NoSlot}, ts : Nat, due : Nat, lev : Nat]
        /\ i.slot \in Slots /\ i.lev # 0
    BY <1>0, CapFacts DEF Entries
  <2> QED
    BY <1>14, <2>1, <2>2 DEF EntryRateLimited, EntryAdmitted, TypeOK, Hands, Stages, handVars
<1>15. ASSUME NEW ask \in Asks, EntrySized(ask) PROVE TypeOK' /\ Hands'
  <2>1. Capped(ask) \in 0..MaxPosition
    <3> DEFINE a == Lesser(ask, MaxPosition)
               b == Lesser(a, MaxTotal - OpenNotional(intent.slot))
               c == MarginRoom(intent.slot, CappedLeverage(intent.lev))
    <3>1. Capped(ask) = Lesser(b, c) /\ Capped(ask) > 0
      BY <1>15 DEF EntrySized, Capped
    <3>2. ask \in Int /\ MaxPosition \in Int /\ MaxTotal \in Int
      BY CapFacts
    <3>3. a \in Int /\ a <= MaxPosition
      BY <3>2, LesserFacts
    <3>4. OpenNotional(intent.slot) \in Int /\ c \in Int
      <4>1. CappedLeverage(intent.lev) \in Nat
        BY <1>0, CapFacts DEF CappedLeverage, Lesser
      <4> QED
        BY <4>1, OpenTyped, RoomFacts
    <3> HIDE DEF a, c
    <3>5. b \in Int /\ b <= a
      <4>1. MaxTotal - OpenNotional(intent.slot) \in Int
        BY <3>2, <3>4
      <4> QED
        BY <3>3, <4>1, LesserFacts
    <3> HIDE DEF b
    <3>6. Lesser(b, c) \in Int /\ Lesser(b, c) <= b
      BY <3>4, <3>5, LesserFacts
    <3> QED
      BY <3>1, <3>2, <3>3, <3>5, <3>6
  <2>2. CappedLeverage(intent.lev) \in Nat /\ CappedLeverage(intent.lev) # 0
    BY <1>0, CapFacts DEF CappedLeverage, Lesser, Hands
  <2> DEFINE l == CappedLeverage(intent.lev)
             z == Capped(ask)
  <2>3. size' = z /\ intent' = [intent EXCEPT !.lev = l] /\ stage' = "cash"
    BY <1>15 DEF EntrySized
  <2> HIDE DEF l, z
  <2>4. intent' \in [slot : Slots \cup {NoSlot}, ts : Nat, due : Nat, lev : Nat]
        /\ intent'.slot = intent.slot /\ intent'.lev # 0
    BY <2>2, <2>3 DEF TypeOK, l
  <2>5. size' \in 0..MaxPosition
    BY <2>1, <2>3 DEF z
  <2> QED
    BY <1>15, <2>3, <2>4, <2>5 DEF EntrySized, TypeOK, Hands, Stages
<1>16. CASE FlipBegins \/ EntryBegins
  BY <1>16 DEF FlipBegins, EntryBegins, TypeOK, Hands, Stages
<1>17. CASE EntrySent
  <2>1. sends' \in Seq(0..LastTick)
    BY <1>17 DEF EntrySent, TypeOK
  <2> QED
    BY <1>0, <1>17, <2>1 DEF EntrySent, TypeOK, Hands, Stages
<1> QED
  BY <1>1, <1>2, <1>3, <1>4, <1>5, <1>6, <1>7, <1>8, <1>9, <1>10, <1>11, <1>12, <1>13,
     <1>14, <1>15, <1>16, <1>17 DEF Next
-----------------------------------------------------------------------------
(* Exposure.                                                               *)

Holding == [Slots -> [qty : 0..MaxPosition, coll : Nat]]

\* What is open of positions p when g is gone.
Live(p, g) == [s \in Slots |-> IF g[s] = NoDay THEN p[s].qty ELSE 0]
Exposure(p, g) == SumFunctionOnSet(Live(p, g), Slots)

LEMMA LiveTyped ==
  ASSUME NEW p \in Holding, NEW g
  PROVE  /\ Live(p, g) \in [Slots -> Int] /\ Exposure(p, g) \in Int
         /\ \A s \in Slots : Live(p, g)[s] <= p[s].qty /\ p[s].qty \in Nat
<1>1. \A s \in Slots : p[s].qty \in Nat
  BY CapFacts DEF Holding
<1>2. Live(p, g) \in [Slots -> Int] /\ \A s \in Slots : Live(p, g)[s] <= p[s].qty
  BY <1>1 DEF Live
<1>3. Slots \in SUBSET Slots /\ IsFiniteSet(Slots)
  BY CapFacts
<1>4. Exposure(p, g) \in Int
  BY <1>2, <1>3, SumRemoves DEF Exposure
<1> QED
  BY <1>1, <1>2, <1>4

LEMMA ExposureIs ==
  /\ ExposureBounded <=> unresolved + Exposure(pos, gone) <= MaxTotal
  /\ ExposureBounded' <=> unresolved' + Exposure(pos', gone') <= MaxTotal
BY DEF ExposureBounded, SumFunction, Live, Exposure

\* A step that opens nothing leaves the exposure bounded.
LEMMA NothingOpens ==
  ASSUME TypeOK, TypeOK', ExposureBounded, unresolved' <= unresolved,
         \A s \in Slots : Live(pos', gone')[s] <= Live(pos, gone)[s]
  PROVE  ExposureBounded'
<1>0. pos \in Holding /\ pos' \in Holding
  BY DEF TypeOK, Holding
<1>1. Live(pos, gone) \in [Slots -> Int] /\ Exposure(pos, gone) \in Int
  BY <1>0, LiveTyped
<1>2. Live(pos', gone') \in [Slots -> Int] /\ Exposure(pos', gone') \in Int
  BY <1>0, LiveTyped
<1>3. Exposure(pos', gone') <= Exposure(pos, gone)
  BY <1>1, <1>2, CapFacts, SumMonotone DEF Exposure
<1>4. unresolved + Exposure(pos, gone) <= MaxTotal
  BY ExposureIs
<1>5. unresolved \in Int /\ unresolved' \in Int /\ MaxTotal \in Int
  BY CapFacts DEF TypeOK
<1>6. unresolved' + Exposure(pos', gone') <= MaxTotal
  BY <1>1, <1>2, <1>3, <1>4, <1>5
<1> QED
  BY <1>6, ExposureIs

\* Beside a slot without a position, what is live is among what is open.
LEMMA ExposureBeside ==
  ASSUME NEW p \in Holding, NEW g, NEW s \in Slots, NEW w \in [Slots -> Int],
         \A o \in Others(s) : w[o] = p[o].qty
  PROVE  Exposure(p, g) <= p[s].qty + SumFunctionOnSet(w, Others(s))
<1> DEFINE v == [o \in Slots |-> p[o].qty]
<1>1. /\ Live(p, g) \in [Slots -> Int]
      /\ \A o \in Slots : Live(p, g)[o] <= p[o].qty /\ p[o].qty \in Nat
  BY LiveTyped
<1>2. v \in [Slots -> Int] /\ \A o \in Slots : v[o] = p[o].qty
  BY <1>1
<1> HIDE DEF v
<1>3. IsFiniteSet(Slots) /\ Slots \in SUBSET Slots
  BY CapFacts
<1>4. Exposure(p, g) <= SumFunctionOnSet(v, Slots)
  BY <1>1, <1>2, <1>3, SumMonotone DEF Exposure
<1>5. SumFunctionOnSet(v, Slots) = v[s] + SumFunctionOnSet(v, Slots \ {s})
  BY <1>2, <1>3, SumRemoves
<1>6. Others(s) = Slots \ {s} /\ Others(s) \in SUBSET Slots
  BY DEF Others
<1>7. SumFunctionOnSet(v, Others(s)) = SumFunctionOnSet(w, Others(s))
  BY <1>2, <1>3, <1>6, SumAgrees
<1> QED
  BY <1>2, <1>4, <1>5, <1>6, <1>7

\* The steps at a venue or in the books, and those of the guard before it sends.
LEMMA QuietExposure ==
  ASSUME OwnTypes, ExposureBounded, NotionalFits, Next, TypeOK'
  PROVE  ExposureBounded'
<1> USE DEF OwnTypes
<1>0. pos \in Holding /\ pos' \in Holding /\ unresolved \in Int
  <2>1. pos \in Holding /\ unresolved \in Nat
    BY DEF TypeOK, Holding
  <2>2. pos' \in Holding
    BY DEF TypeOK, Holding
  <2> QED
    BY <2>1, <2>2
<1>1. ASSUME NEW s \in Slots, VenueCloses(s) PROVE ExposureBounded'
  <2>1. /\ pos' = pos /\ unresolved' = unresolved
        /\ \A o \in Slots : gone'[o] = gone[o] \/ gone'[o] # NoDay
    BY <1>1, ClockFacts DEF VenueCloses, TypeOK
  <2>2. \A o \in Slots : Live(pos', gone')[o] <= Live(pos, gone)[o]
    BY <1>0, <2>1, CapFacts DEF Live, Holding
  <2> QED
    BY <1>0, <2>1, <2>2, NothingOpens
<1>2. ASSUME NEW s \in Slots, pos' = [pos EXCEPT ![s] = Flat], unresolved' = unresolved,
             \A o \in Slots : o # s => gone'[o] = gone[o]
      PROVE  ExposureBounded'
  <2>1. pos'[s].qty = 0 /\ \A o \in Slots \ {s} : pos'[o] = pos[o]
    BY <1>2, ClosedTyped
  <2>2. \A o \in Slots : Live(pos', gone')[o] <= Live(pos, gone)[o]
    BY <1>0, <1>2, <2>1, CapFacts DEF Live, Holding
  <2>3. unresolved' <= unresolved
    BY <1>0, <1>2
  <2> QED
    BY <2>2, <2>3, NothingOpens
<1>3. ASSUME NEW s \in Slots, NEW x \in Results, ClosureBooked(s, x) PROVE ExposureBounded'
  BY <1>2, <1>3 DEF ClosureBooked, TypeOK
<1>4. ASSUME NEW x \in Results, ExitAccepted(x) \/ FlipAccepted(x) PROVE ExposureBounded'
  <2>1. intent.slot \in Slots
    BY <1>4 DEF ExitAccepted, FlipAccepted, Hands
  <2> QED
    BY <1>2, <1>4, <2>1 DEF ExitAccepted, FlipAccepted, Closed
<1>5. CASE EntrySent
  <2>1. /\ intent.slot \in Slots /\ pos[intent.slot].qty = 0 /\ unresolved = 0
        /\ OpenNotional(intent.slot) + size <= MaxTotal /\ size \in Int
        /\ unresolved' = size /\ UNCHANGED <<pos, gone>>
    BY <1>5, CapFacts DEF EntrySent, Hands, NotionalFits, Sized, Admissible, TypeOK
  <2>2. /\ Quantities \in [Slots -> Int]
        /\ \A o \in Others(intent.slot) : Quantities[o] = pos[o].qty
    BY QuantitiesTyped DEF Others
  <2>3. Exposure(pos, gone) <= pos[intent.slot].qty + SumFunctionOnSet(Quantities, Others(intent.slot))
    BY <1>0, <2>1, <2>2, ExposureBeside
  <2>4. OpenNotional(intent.slot) \in Int /\ Exposure(pos, gone) \in Int /\ MaxTotal \in Int
    BY <1>0, OpenTyped, LiveTyped, CapFacts
  <2>5. Exposure(pos, gone) <= OpenNotional(intent.slot)
    BY <2>1, <2>3, <2>4 DEF OpenNotional
  <2>6. unresolved' + Exposure(pos', gone') <= MaxTotal
    BY <2>1, <2>4, <2>5
  <2> QED
    BY <2>6, ExposureIs
<1>6. ASSUME NEW fee \in Fees, EntryFilled(fee) PROVE ExposureBounded'
  <2>1. /\ intent.slot \in Slots /\ unresolved' = 0
        /\ OpenNotional(intent.slot) + size <= MaxTotal /\ size \in Int /\ gone' = gone
        /\ pos' = [pos EXCEPT ![intent.slot] =
                     [qty |-> size, coll |-> Collateral(size, intent.lev)]]
    BY <1>6, CapFacts DEF EntryFilled, Hands, NotionalFits, Sized, TypeOK
  <2>2. pos'[intent.slot].qty = size /\ \A o \in Others(intent.slot) : pos'[o] = pos[o]
    BY <1>0, <2>1 DEF Holding, Others
  <2>3. /\ Quantities \in [Slots -> Int]
        /\ \A o \in Others(intent.slot) : Quantities[o] = pos'[o].qty
    BY <2>2, QuantitiesTyped DEF Others
  <2>4. Exposure(pos', gone') <= pos'[intent.slot].qty + SumFunctionOnSet(Quantities, Others(intent.slot))
    BY <1>0, <2>1, <2>3, ExposureBeside
  <2>5. OpenNotional(intent.slot) \in Int /\ Exposure(pos', gone') \in Int /\ MaxTotal \in Int
    BY <1>0, OpenTyped, LiveTyped, CapFacts
  <2>6. unresolved' + Exposure(pos', gone') <= MaxTotal
    BY <2>1, <2>2, <2>4, <2>5 DEF OpenNotional
  <2> QED
    BY <2>6, ExposureIs
<1>7. CASE EntryRefused
  <2>1. unresolved' = 0 /\ unresolved \in Nat /\ UNCHANGED <<pos, gone>>
    BY <1>7 DEF EntryRefused, TypeOK
  <2>2. \A o \in Slots : Live(pos', gone')[o] <= Live(pos, gone)[o]
    BY <1>0, <2>1, CapFacts DEF Live, Holding
  <2> QED
    BY <2>1, <2>2, NothingOpens
<1>8. CASE UNCHANGED <<unresolved, pos, gone>>
  BY <1>8, ExposureIs
<1>9. \/ UNCHANGED <<unresolved, pos, gone>>
      \/ \E s \in Slots : VenueCloses(s)
      \/ \E s \in Slots : \E x \in Results : ClosureBooked(s, x)
      \/ \E x \in Results : ExitAccepted(x) \/ FlipAccepted(x)
      \/ EntrySent \/ EntryRefused
      \/ \E fee \in Fees : EntryFilled(fee)
  BY DEF Next, Tick, Crash, NextBar, SubmitExit, FundingBooked, ExitFails, EntryRateLimited,
         EntryAdmitted, EntryRejected, ExecutorDeclines, EntrySized, FlipBegins, EntryBegins,
         EntryUnanswered
<1> QED
  BY <1>1, <1>3, <1>4, <1>5, <1>6, <1>7, <1>8, <1>9

-----------------------------------------------------------------------------
(* The caps.                                                               *)

LEMMA BesideKept ==
  ASSUME TypeOK, intent'.slot = intent.slot,
         \A o \in Others(intent.slot) : pos'[o] = pos[o]
  PROVE  /\ OpenNotional(intent.slot)' = OpenNotional(intent.slot)
         /\ price' = price => OpenMargin(intent.slot)' = OpenMargin(intent.slot)
<1> DEFINE R == Others(intent.slot)
<1>1. R \in SUBSET Slots /\ Others(intent'.slot) = R
  BY OthersFinite
<1>2. \A o \in R : Quantities'[o] = Quantities[o]
  BY <1>1 DEF Quantities
<1>3. SumFunctionOnSet(Quantities', R) = SumFunctionOnSet(Quantities, R)
  BY <1>1, <1>2, CapFacts, SumAgrees
<1>4. OpenNotional(intent.slot)' = SumFunctionOnSet(Quantities', R)
  BY <1>1 DEF OpenNotional
<1>5. ASSUME price' = price PROVE OpenMargin(intent.slot)' = OpenMargin(intent.slot)
  <2>1. [o \in R |-> pos'[o].coll * price'] = [o \in R |-> pos[o].coll * price]
    BY <1>5
  <2>2. OpenMargin(intent.slot)' = SumFunction([o \in R |-> pos'[o].coll * price'])
    BY <1>1 DEF OpenMargin
  <2> QED
    BY <2>1, <2>2 DEF OpenMargin
<1> QED
  BY <1>3, <1>4, <1>5 DEF OpenNotional

\* What the caps leave fits.
LEMMA CappedFits ==
  ASSUME TypeOK, Hands, NEW ask \in Asks
  PROVE  LET l == CappedLeverage(intent.lev)
         IN  /\ OpenNotional(intent.slot) + Capped(ask) <= MaxTotal
             /\ OpenMargin(intent.slot) * 1000 * l + Capped(ask) * (1001 + l) * Sats
                  <= MaxMargin * Sats * 1000 * l
<1> DEFINE l == CappedLeverage(intent.lev)
           a == Lesser(ask, MaxPosition)
           b == Lesser(a, MaxTotal - OpenNotional(intent.slot))
           c == MarginRoom(intent.slot, l)
           d == (1001 + l) * Sats
           z == Capped(ask)
           m == OpenMargin(intent.slot)
<1>1. ask \in Int /\ MaxPosition \in Int /\ MaxTotal \in Int /\ MaxMargin \in Int
  BY CapFacts
<1>2. l \in Nat
  BY CapFacts DEF CappedLeverage, Lesser, TypeOK
<1>3. OpenNotional(intent.slot) \in Int /\ m \in Int
  BY OpenTyped
<1>4. c \in Int /\ c * d <= (MaxMargin * Sats - m) * 1000 * l
  BY <1>2, RoomFacts
<1>5. z = Lesser(b, c)
  BY DEF Capped
<1>6. d \in Nat
  BY <1>2 DEF Sats
<1> HIDE DEF l, c, z, m
<1>7. a \in Int
  BY <1>1, LesserFacts
<1> HIDE DEF a
<1>8. b \in Int /\ b <= MaxTotal - OpenNotional(intent.slot)
  <2>1. MaxTotal - OpenNotional(intent.slot) \in Int
    BY <1>1, <1>3
  <2> QED
    BY <1>7, <2>1, LesserFacts
<1> HIDE DEF b
<1>9. z \in Int /\ z <= b /\ z <= c
  BY <1>4, <1>5, <1>8, LesserFacts
<1>10. OpenNotional(intent.slot) + z <= MaxTotal
  BY <1>1, <1>3, <1>8, <1>9
<1>11. z * d <= c * d
  <2>1. d >= 0 /\ c - z >= 0 /\ d \in Int /\ c - z \in Int
    BY <1>4, <1>6, <1>9
  <2> HIDE DEF d
  <2>2. (c - z) * d >= 0
    BY <2>1
  <2>3. (c - z) * d = c * d - z * d
    BY <1>4, <1>9, <2>1
  <2> QED
    BY <1>4, <1>9, <2>1, <2>2, <2>3
<1>12. m * 1000 * l + z * (1001 + l) * Sats <= MaxMargin * Sats * 1000 * l
  <2>1. z * d <= (MaxMargin * Sats - m) * 1000 * l
    <3>1. z * d \in Int /\ c * d \in Int /\ (MaxMargin * Sats - m) * 1000 * l \in Int
      <4>1. MaxMargin * Sats - m \in Int
        BY <1>1, <1>3 DEF Sats
      <4> QED
        BY <1>2, <1>4, <1>6, <1>9, <4>1
    <3> HIDE DEF d
    <3> QED
      BY <1>4, <1>11, <3>1
  <2>2. z * d = z * (1001 + l) * Sats
    BY <1>2, <1>9 DEF Sats
  <2>3. (MaxMargin * Sats - m) * 1000 * l = MaxMargin * Sats * 1000 * l - m * 1000 * l
    BY <1>1, <1>2, <1>3 DEF Sats
  <2>4. m * 1000 * l \in Int /\ z * (1001 + l) * Sats \in Int /\ MaxMargin * Sats * 1000 * l \in Int
    BY <1>1, <1>2, <1>3, <1>9 DEF Sats
  <2> QED
    BY <2>1, <2>2, <2>3, <2>4
<1> QED
  BY <1>10, <1>12 DEF l, z, m

\* While an entry waits, the room it was given is not taken.
LEMMA StepFits ==
  ASSUME OwnTypes, NotionalFits, MarginFits, Next
  PROVE  NotionalFits' /\ MarginFits' /\ SentAlone'
<1> USE DEF OwnTypes
<1>1. CASE stage' \notin Sized
  BY <1>1 DEF NotionalFits, MarginFits, SentAlone, Sized
<1>2. ASSUME stage \in Sized, UNCHANGED <<price, size, intent>>,
             \A o \in Others(intent.slot) : pos'[o] = pos[o],
             stage' = "send" => unresolved' = size
      PROVE  NotionalFits' /\ MarginFits' /\ SentAlone'
  <2>1. /\ OpenNotional(intent.slot)' = OpenNotional(intent.slot)
        /\ OpenMargin(intent.slot)' = OpenMargin(intent.slot)
    BY <1>2, BesideKept
  <2>2. NotionalFits'
    BY <1>2, <2>1 DEF NotionalFits
  <2>3. MarginFits'
    BY <1>2, <2>1 DEF MarginFits
  <2> QED
    BY <1>2, <2>2, <2>3 DEF SentAlone
<1>3. ASSUME NEW ask \in Asks, EntrySized(ask) PROVE NotionalFits' /\ MarginFits' /\ SentAlone'
  <2> DEFINE l == CappedLeverage(intent.lev)
  <2>1. /\ OpenNotional(intent.slot) + Capped(ask) <= MaxTotal
        /\ OpenMargin(intent.slot) * 1000 * l + Capped(ask) * (1001 + l) * Sats
             <= MaxMargin * Sats * 1000 * l
    BY CappedFits
  <2>2. /\ size' = Capped(ask) /\ intent' = [intent EXCEPT !.lev = l] /\ stage' = "cash"
        /\ UNCHANGED <<pos, price>>
    BY <1>3 DEF EntrySized
  <2> HIDE DEF l
  <2>3. intent'.slot = intent.slot /\ intent'.lev = l
    BY <2>2 DEF TypeOK
  <2>4. /\ OpenNotional(intent.slot)' = OpenNotional(intent.slot)
        /\ OpenMargin(intent.slot)' = OpenMargin(intent.slot)
    BY <2>2, <2>3, BesideKept
  <2>5. NotionalFits'
    BY <2>1, <2>2, <2>4 DEF NotionalFits
  <2>6. MarginFits'
    BY <2>1, <2>2, <2>3, <2>4 DEF MarginFits
  <2> QED
    BY <2>2, <2>5, <2>6 DEF SentAlone
<1>4. CASE EntrySent
  BY <1>2, <1>4 DEF EntrySent, Admissible, Sized, TypeOK
<1>5. ASSUME NEW x \in Results, FlipAccepted(x) PROVE NotionalFits' /\ MarginFits' /\ SentAlone'
  <2>1. intent.slot \in Slots
    BY <1>5 DEF FlipAccepted, Hands
  <2>2. \A o \in Others(intent.slot) : pos'[o] = pos[o]
    BY <1>5, <2>1, ClosedTyped DEF FlipAccepted, Closed, Others
  <2> QED
    BY <1>2, <1>5, <2>2 DEF FlipAccepted, Sized
<1>6. CASE stage' \in Sized /\ stage \in Sized
           /\ UNCHANGED <<price, size, intent, pos, unresolved>> /\ (stage' = "send" => stage = "send")
  BY <1>2, <1>6
<1>7. \/ stage' \notin Sized
      \/ \E ask \in Asks : EntrySized(ask)
      \/ EntrySent \/ \E x \in Results : FlipAccepted(x)
      \/ /\ stage' \in Sized /\ stage \in Sized
         /\ UNCHANGED <<price, size, intent, pos, unresolved>> /\ (stage' = "send" => stage = "send")
  BY DEF Next, Tick, Crash, NextBar, VenueCloses, SubmitExit, ClosureBooked,
      FundingBooked, ExitAccepted, ExitFails, EntryRateLimited,
      EntryAdmitted, EntryRejected, ExecutorDeclines, FlipBegins,
      EntryBegins, EntryFilled, EntryRefused, EntryUnanswered, Returns, handVars, Sized
<1> QED
  BY <1>1, <1>3, <1>4, <1>5, <1>6, <1>7
-----------------------------------------------------------------------------
(* The order window.                                                       *)

LEMMA StampsTyped ==
  ASSUME TypeOK
  PROVE  /\ sends \in Seq(0..LastTick) /\ recent \in Seq(0..LastTick) /\ 0..LastTick \subseteq Int
         /\ Len(sends) \in Nat /\ Len(recent) \in Nat /\ now \in Int /\ stamp \in Int
         /\ Window \in Int /\ Window > 0 /\ MaxOrders \in Int /\ now \in 0..LastTick /\ stamp \in 0..LastTick
         /\ \A i \in 1 .. Len(sends) : sends[i] \in Int
<1>1. sends \in Seq(0..LastTick) /\ recent \in Seq(0..LastTick) /\ 0..LastTick \subseteq Int
  BY DEF TypeOK
<1>2. ASSUME NEW i \in 1 .. Len(sends) PROVE sends[i] \in Int
  <2>1. sends[i] \in 0..LastTick
    <3> DEFINE T == 0..LastTick
    <3>1. sends \in Seq(T)
      BY <1>1
    <3> HIDE DEF T
    <3>2. sends[i] \in T
      BY <3>1
    <3> QED
      BY <3>2 DEF T
  <2> QED
    BY <2>1
<1>3. now \in 0..LastTick /\ stamp \in 0..LastTick
  BY DEF TypeOK
<1> QED
  BY <1>1, <1>2, <1>3, CapFacts

\* A step that neither sends nor counts.
LEMMA QuietRated ==
  ASSUME Rated, UNCHANGED <<now, sends, recent>>,
         \/ UNCHANGED <<stage, stamp>>
         \/ /\ stage # "send" /\ stage' # "send"
            /\ stage' \in Admitted => stage \in Admitted /\ stamp' = stamp
  PROVE  Rated'
<1>1. (stage' = "send") <=> (stage = "send")
  OBVIOUS
<1>2. Interleaved(sends', recent', IF stage' = "send" THEN 1 ELSE 0)
  BY <1>1 DEF Rated
<1>3. stage' \in Admitted =>
        /\ \A i \in 1 .. Len(sends') : sends'[i] <= stamp'
        /\ Len(sends') <= MaxOrders
  BY DEF Rated
<1>4. stage' = "send" => \A i \in 1 .. Len(sends') - 1 : sends'[i] <= stamp'
  BY DEF Rated
<1>5. SubmissionsBounded'
  BY DEF Rated, SubmissionsBounded
<1> QED
  BY <1>2, <1>3, <1>4, <1>5 DEF Rated

\* Time passes.
LEMMA TickRated ==
  ASSUME TypeOK, Rated, Tick
  PROVE  Rated'
<1> DEFINE t == now' - Window + 1
           e == IF stage = "send" THEN 1 ELSE 0
<1>0. /\ sends \in Seq(0..LastTick) /\ recent \in Seq(0..LastTick) /\ 0..LastTick \subseteq Int
      /\ Len(sends) \in Nat /\ now \in Int /\ Window \in Int /\ stamp \in Int /\ MaxOrders \in Int
      /\ \A i \in 1 .. Len(sends) : sends[i] \in Int
  BY StampsTyped
<1>1. /\ now' = now + 1 /\ sends' = Since(sends, t)
      /\ recent' = recent /\ stage' = stage /\ stamp' = stamp
  BY DEF Tick, handVars
<1>2. t \in Int /\ t = now - Window + 2
  BY <1>0, <1>1
<1>3. PICK d \in 0 .. Len(sends) :
        /\ Since(sends, t) = SubSeq(sends, d + 1, Len(sends))
        /\ d < Len(sends) => sends[d + 1] >= t
  BY <1>0, <1>2, SinceFacts
<1> HIDE DEF t
<1>4. sends' = SubSeq(sends, d + 1, Len(sends))
  BY <1>1, <1>3
<1>5. Len(sends') = Len(sends) - d /\ \A k \in 1 .. Len(sends') : sends'[k] = sends[d + k]
  BY <1>0, <1>4, SuffixFacts
<1>6. \A k \in 1 .. Len(sends') : d + k \in 1 .. Len(sends)
  BY <1>0, <1>5
<1>7. Interleaved(sends', recent', e)
  <2>1. e \in {0, 1} /\ Interleaved(sends, recent, e)
    BY DEF Rated
  <2> HIDE DEF e
  <2> QED
    BY <1>0, <1>1, <1>4, <2>1, InterleavedLater
<1>8. \A i, j \in 1 .. Len(sends') : i < j => sends'[i] <= sends'[j]
  <2> SUFFICES ASSUME NEW i \in 1 .. Len(sends'), NEW j \in 1 .. Len(sends'), i < j
               PROVE  sends'[i] <= sends'[j]
    OBVIOUS
  <2>1. d + i \in 1 .. Len(sends) /\ d + j \in 1 .. Len(sends) /\ d + i < d + j
    BY <1>0, <1>6
  <2>2. sends[d + i] <= sends[d + j]
    BY <2>1 DEF Rated
  <2> QED
    BY <1>5, <2>2
<1>9. ASSUME NEW i \in 1 .. Len(sends')
      PROVE  now' - Window < sends'[i] /\ sends'[i] <= now'
  <2> DEFINE x == sends[d + i]
  <2>1. d + i \in 1 .. Len(sends) /\ d + 1 \in 1 .. Len(sends) /\ d < Len(sends)
    BY <1>0, <1>5, <1>6
  <2>2. x \in Int /\ x <= now /\ sends[d + 1] \in Int /\ sends[d + 1] >= t
    BY <1>0, <1>3, <2>1 DEF Rated
  <2>3. sends[d + 1] <= x
    <3>1. CASE i = 1
      BY <2>2, <3>1
    <3>2. CASE i # 1
      <4>1. d + 1 < d + i
        BY <3>2
      <4> QED
        BY <2>1, <4>1 DEF Rated
    <3> QED
      BY <3>1, <3>2
  <2>4. sends'[i] = x
    BY <1>5
  <2> HIDE DEF x
  <2> QED
    BY <1>0, <1>1, <1>2, <2>2, <2>3, <2>4
<1>10. stage' \in Admitted =>
         /\ \A i \in 1 .. Len(sends') : sends'[i] <= stamp'
         /\ Len(sends') <= MaxOrders
  BY <1>0, <1>1, <1>5, <1>6 DEF Rated
<1>11. stage' = "send" => \A i \in 1 .. Len(sends') - 1 : sends'[i] <= stamp'
  <2> SUFFICES ASSUME stage = "send", NEW i \in 1 .. Len(sends') - 1 PROVE sends'[i] <= stamp'
    BY <1>1
  <2>1. d + i \in 1 .. Len(sends) - 1 /\ i \in 1 .. Len(sends')
    BY <1>0, <1>5
  <2> QED
    BY <1>1, <1>5, <2>1 DEF Rated
<1>12. SubmissionsBounded'
  BY <1>0, <1>5 DEF Rated, SubmissionsBounded
<1> QED
  BY <1>1, <1>7, <1>8, <1>9, <1>10, <1>11, <1>12 DEF Rated

\* The window is trimmed where the limit is read.
LEMMA TrimmedInterleaved ==
  ASSUME TypeOK, Rated, stage # "send"
  PROVE  Interleaved(sends, InWindow(recent), 0)
<1> DEFINE t == now - Window
<1>0. /\ sends \in Seq(0..LastTick) /\ recent \in Seq(0..LastTick) /\ 0..LastTick \subseteq Int
      /\ now \in Int /\ Window \in Int /\ \A i \in 1 .. Len(sends) : sends[i] \in Int
  BY StampsTyped
<1>1. t \in Int
  BY <1>0
<1>2. \A k \in 1 .. Len(sends) : sends[k] >= t
  BY <1>0 DEF Rated
<1> HIDE DEF t
<1>3. PICK d \in 0 .. Len(recent) :
        /\ Since(recent, t) = SubSeq(recent, d + 1, Len(recent))
        /\ \A j \in 1 .. d : recent[j] < t
  BY <1>0, <1>1, SinceFacts
<1>4. Interleaved(sends, recent, 0)
  BY DEF Rated
<1>5. Interleaved(sends, SubSeq(recent, d + 1, Len(recent)), 0)
  BY <1>0, <1>1, <1>2, <1>3, <1>4, InterleavedTrimmed
<1> QED
  BY <1>3, <1>5 DEF InWindow, t

LEMMA LimitRated ==
  ASSUME TypeOK, Rated, stage = "idle", stage' \in {"idle", "sizing"},
         UNCHANGED <<now, sends>>, recent' = InWindow(recent), TypeOK',
         stage' = "sizing" => stamp' = now /\ Len(recent') < MaxOrders
  PROVE  Rated'
<1>0. Len(sends) \in Nat /\ MaxOrders \in Int /\ \A i \in 1 .. Len(sends) : sends[i] \in Int
  BY StampsTyped
<1>4. Len(recent') \in Nat
  <2>1. recent' \in Seq(0..LastTick)
    BY DEF TypeOK
  <2> QED
    BY <2>1
<1>1. Interleaved(sends', recent', 0)
  BY TrimmedInterleaved
<1>2. stage' \in Admitted =>
        /\ \A i \in 1 .. Len(sends') : sends'[i] <= stamp'
        /\ Len(sends') <= MaxOrders
  <2>1. Len(sends') <= Len(recent') + 1 + 0
    BY <1>1 DEF Interleaved
  <2> QED
    BY <1>0, <2>1 DEF Rated, Admitted
<1>3. SubmissionsBounded'
  BY DEF Rated, SubmissionsBounded
<1> QED
  BY <1>1, <1>2, <1>3 DEF Rated

\* What is counted is stamped no earlier than the sends before it.
LEMMA CountedRated ==
  ASSUME TypeOK, Rated, stage \in Admitted \cup {"send"}, Counted, Returns, UNCHANGED <<now, sends>>
  PROVE  Rated'
<1>0. /\ sends \in Seq(0..LastTick) /\ recent \in Seq(0..LastTick) /\ 0..LastTick \subseteq Int
      /\ stamp \in 0..LastTick
  BY StampsTyped
<1>1. recent' = Append(recent, stamp) /\ stage' = "idle" /\ "idle" \notin Admitted
  BY DEF Counted, Returns, Admitted
<1>2. CASE stage = "send"
  <2>1. Interleaved(sends, recent, 1) /\ \A k \in 1 .. Len(sends) - 1 : sends[k] <= stamp
    BY <1>2 DEF Rated
  <2>2. Interleaved(sends, Append(recent, stamp), 0)
    BY <1>0, <2>1, InterleavedCounted
  <2> QED
    BY <1>1, <2>2 DEF Rated, SubmissionsBounded
<1>3. CASE stage # "send"
  <2>1. Interleaved(sends, recent, 0) /\ \A k \in 1 .. Len(sends) : sends[k] <= stamp
    BY <1>3 DEF Rated
  <2>2. \A i, j \in 1 .. Len(sends) : i < j => sends[i] <= sends[j]
    BY DEF Rated
  <2>3. Interleaved(sends, Append(recent, stamp), 0)
    BY <1>0, <2>1, <2>2, InterleavedDeclined
  <2> QED
    BY <1>1, <2>3 DEF Rated, SubmissionsBounded
<1> QED
  BY <1>2, <1>3

LEMMA SentRated ==
  ASSUME TypeOK, Rated, EntrySent
  PROVE  Rated'
<1>0. /\ sends \in Seq(0..LastTick) /\ recent \in Seq(0..LastTick) /\ Len(sends) \in Nat
      /\ now \in 0..LastTick /\ now \in Int /\ Window \in Int /\ Window > 0 /\ MaxOrders \in Int
      /\ \A i \in 1 .. Len(sends) : sends[i] \in Int
  BY StampsTyped
<1>1. /\ stage = "inventory" /\ stage' = "send" /\ sends' = Append(sends, now)
      /\ UNCHANGED <<now, recent, stamp>>
  BY DEF EntrySent
<1>2. /\ Len(sends') = Len(sends) + 1 /\ sends'[Len(sends) + 1] = now
      /\ \A i \in 1 .. Len(sends) : sends'[i] = sends[i]
  BY <1>0, <1>1
<1>3. \A i \in 1 .. Len(sends') : i \in 1 .. Len(sends) \/ i = Len(sends) + 1
  BY <1>0, <1>2
<1>4. Interleaved(sends', recent', 1)
  BY <1>0, <1>1, InterleavedSent DEF Rated
<1>5. \A i, j \in 1 .. Len(sends') : i < j => sends'[i] <= sends'[j]
  <2> SUFFICES ASSUME NEW i \in 1 .. Len(sends'), NEW j \in 1 .. Len(sends'), i < j
               PROVE  sends'[i] <= sends'[j]
    OBVIOUS
  <2>1. i \in 1 .. Len(sends)
    BY <1>0, <1>2
  <2>2. CASE j \in 1 .. Len(sends)
    BY <1>2, <2>1, <2>2 DEF Rated
  <2>3. CASE j = Len(sends) + 1
    BY <1>2, <2>1, <2>3 DEF Rated
  <2> QED
    BY <1>3, <2>2, <2>3
<1>6. \A i \in 1 .. Len(sends') : now' - Window < sends'[i] /\ sends'[i] <= now'
  <2> SUFFICES ASSUME NEW i \in 1 .. Len(sends')
               PROVE  now - Window < sends'[i] /\ sends'[i] <= now
    BY <1>1
  <2>1. CASE i \in 1 .. Len(sends)
    BY <1>2, <2>1 DEF Rated
  <2>2. CASE i = Len(sends) + 1
    BY <1>0, <1>2, <2>2
  <2> QED
    BY <1>3, <2>1, <2>2
<1>7. \A i \in 1 .. Len(sends') - 1 : sends'[i] <= stamp'
  BY <1>0, <1>1, <1>2 DEF Rated, Admitted
<1>8. SubmissionsBounded'
  BY <1>0, <1>1, <1>2 DEF Rated, Admitted, SubmissionsBounded
<1> QED
  BY <1>1, <1>4, <1>5, <1>6, <1>7, <1>8 DEF Rated, Admitted

\* Every step keeps the window: what is sent, what is counted and what is in hand.
LEMMA StepRated ==
  ASSUME TypeOK, TypeOK', Rated, Next
  PROVE  Rated'
<1>1. CASE Tick
  BY <1>1, TickRated
<1>2. CASE Crash
  <2>1. sends' = <<>> /\ recent' = <<>> /\ stage' = "idle"
    BY <1>2 DEF Crash, Returns
  <2>2. Len(sends') = 0 /\ Len(recent') = 0
    BY <2>1
  <2>3. MaxOrders \in Nat
    BY CapFacts
  <2>4. Interleaved(sends', recent', 0)
    BY <2>2 DEF Interleaved
  <2>5. SubmissionsBounded'
    BY <2>2, <2>3 DEF SubmissionsBounded
  <2>6. \A i \in 1 .. Len(sends') : FALSE
    BY <2>2
  <2> QED
    BY <2>1, <2>4, <2>5, <2>6 DEF Rated, Admitted
<1>3. ASSUME NEW i \in Entries, EntryRateLimited(i) \/ EntryAdmitted(i) PROVE Rated'
  <2>1. /\ stage = "idle" /\ stage' \in {"idle", "sizing"}
        /\ UNCHANGED <<now, sends>> /\ recent' = InWindow(recent)
        /\ stage' = "sizing" => stamp' = now /\ Len(recent') < MaxOrders
    BY <1>3 DEF EntryRateLimited, EntryAdmitted, handVars
  <2> QED
    BY <2>1, LimitRated
<1>4. CASE EntrySent
  BY <1>4, SentRated
<1>5. CASE ExecutorDeclines \/ EntryRefused \/ EntryUnanswered \/ \E fee \in Fees : EntryFilled(fee)
  BY <1>5, CountedRated DEF ExecutorDeclines, EntryRefused, EntryUnanswered, EntryFilled, Admitted
<1>6. \/ Tick \/ Crash \/ EntrySent
      \/ \E i \in Entries : EntryRateLimited(i) \/ EntryAdmitted(i)
      \/ ExecutorDeclines \/ EntryRefused \/ EntryUnanswered \/ \E fee \in Fees : EntryFilled(fee)
      \/ /\ UNCHANGED <<now, sends, recent>>
         /\ \/ UNCHANGED <<stage, stamp>>
            \/ /\ stage # "send" /\ stage' # "send"
               /\ stage' \in Admitted => stage \in Admitted /\ stamp' = stamp
  BY DEF Next, NextBar, VenueCloses, SubmitExit, ClosureBooked, FundingBooked, ExitAccepted,
         FlipAccepted, ExitFails, EntryRejected, EntrySized, FlipBegins, EntryBegins, Returns,
         handVars, Admitted
<1> QED
  BY <1>1, <1>2, <1>3, <1>4, <1>5, <1>6, QuietRated

LEMMA InitLimits ==
  ASSUME Init
  PROVE  LInv
<1>0. 0 \in 0..LastTick /\ 0 \in 0..MaxPosition /\ MaxTotal \in Nat /\ MaxOrders \in Nat /\ MaxBooked \in Nat
  BY CapFacts
<1>1. TypeOK
  <2>1. booked \in [Days -> -MaxBooked..MaxBooked]
    BY <1>0 DEF Init
  <2>2. pos \in [Slots -> [qty : 0..MaxPosition, coll : Nat]] /\ \A s \in Slots : pos[s].qty = 0
    BY <1>0 DEF Init, Flat
  <2>3. gone \in [Slots -> Days \cup {NoDay}] /\ \A s \in Slots : gone[s] = NoDay
    BY DEF Init
  <2>4. intent \in [slot : Slots \cup {NoSlot}, ts : Nat, due : Nat, lev : Nat]
    BY DEF Init, NoIntent
  <2>5. recent \in Seq(0..LastTick) /\ sends \in Seq(0..LastTick)
    BY DEF Init
  <2> QED
    BY <1>0, <2>1, <2>2, <2>3, <2>4, <2>5 DEF Init, TypeOK, Stages
<1>2. Hands
  BY DEF Init, Hands, NoIntent
<1>3. ExposureBounded
  <2>1. pos \in Holding /\ \A s \in Slots : pos[s].qty = 0
    BY <1>1 DEF TypeOK, Holding, Init, Flat
  <2>2. Live(pos, gone) \in [Slots -> Int] /\ \A s \in Slots : Live(pos, gone)[s] = 0
    BY <2>1, LiveTyped DEF Live
  <2>3. Exposure(pos, gone) = 0
    BY <2>2, CapFacts, SumVanishes DEF Exposure
  <2>4. unresolved + Exposure(pos, gone) <= MaxTotal
    BY <1>0, <2>3 DEF Init
  <2> QED
    BY <2>4, ExposureIs
<1>4. NotionalFits /\ MarginFits /\ SentAlone
  BY DEF Init, NotionalFits, MarginFits, SentAlone, Sized
<1>5. Rated
  <2>1. stage = "idle" /\ Len(sends) = 0 /\ Len(recent) = 0
    BY DEF Init
  <2>2. Interleaved(sends, recent, 0)
    BY <2>1 DEF Interleaved
  <2>3. SubmissionsBounded
    BY <1>0, <2>1 DEF SubmissionsBounded
  <2>4. \A i \in 1 .. Len(sends) : FALSE
    BY <2>1
  <2> QED
    BY <2>1, <2>2, <2>3, <2>4 DEF Rated, Admitted
<1> QED
  BY <1>1, <1>2, <1>3, <1>4, <1>5 DEF LInv

\* The step preserves the limits.
LEMMA StepLimits ==
  ASSUME LInv, Next
  PROVE  LInv'
<1>0. OwnTypes /\ TypeOK /\ Hands /\ ExposureBounded /\ NotionalFits /\ MarginFits /\ Rated
  BY DEF LInv, OwnTypes, SentAlone
<1>1. TypeOK' /\ Hands'
  BY <1>0, StepTyped
<1>2. ExposureBounded'
  BY <1>0, <1>1, QuietExposure
<1>3. NotionalFits' /\ MarginFits' /\ SentAlone'
  BY <1>0, StepFits
<1>4. Rated'
  BY <1>0, <1>1, StepRated
<1> QED
  BY <1>1, <1>2, <1>3, <1>4 DEF LInv

\* The limits are an invariant: what is open and what may open stay below the aggregate cap,
\* the room an entry was given is still there, and each send but the last two is still
\* counted (guard.py:251-333, live_executor.py:905).
THEOREM LimitsInvariance == Spec => []LInv
<1>1. Init => LInv
  BY InitLimits
<1>2. LInv /\ [Next]_vars => LInv'
  <2> SUFFICES ASSUME LInv, [Next]_vars PROVE LInv'
    OBVIOUS
  <2>1. CASE Next
    BY <2>1, StepLimits
  <2>2. CASE UNCHANGED vars
    <3>1. TypeOK'
      BY <2>2 DEF LInv, TypeOK, vars
    <3>2. Hands' /\ SentAlone' /\ Rated'
      BY <2>2 DEF LInv, Hands, SentAlone, Rated, SubmissionsBounded, vars
    <3>3. ExposureBounded'
      BY <2>2 DEF LInv, ExposureBounded, vars
    <3>4. NotionalFits' /\ MarginFits'
      BY <2>2 DEF LInv, NotionalFits, MarginFits, OpenNotional, OpenMargin, Others, Quantities, vars
    <3> QED
      BY <3>1, <3>2, <3>3, <3>4 DEF LInv
  <2> QED
    BY <2>1, <2>2
<1> QED
  BY <1>1, <1>2, PTL DEF Spec

\* Every variable keeps its type, each position its cap, the exposure the aggregate cap, and
\* no window holds more than one submission above the limit (guard.py:251, guard.py:314).
THEOREM WithinLimitsAlways == Spec => []WithinLimits
<1>1. LInv => WithinLimits
  BY DEF LInv, Rated, WithinLimits
<1> QED
  BY <1>1, LimitsInvariance, PTL

\* When an entry is sent, after up to four awaits, its margin still fits beside the positions
\* then held, and its decision is not too old (guard.py:324, live_executor.py:395).
THEOREM SendsAlwaysStand == Spec => SendsStandAfterAwaits
<1>1. LInv /\ [Next]_vars =>
        (Sending => /\ OpenMargin(intent.slot) * 1000 * intent.lev
                         + size * (1001 + intent.lev) * Sats <= MaxMargin * Sats * 1000 * intent.lev
                    /\ now - intent.due <= MaxEntryAge)
  <2> SUFFICES ASSUME LInv, [Next]_vars, Sending
               PROVE  /\ OpenMargin(intent.slot) * 1000 * intent.lev
                           + size * (1001 + intent.lev) * Sats <= MaxMargin * Sats * 1000 * intent.lev
                      /\ now - intent.due <= MaxEntryAge
    OBVIOUS
  <2>1. stage' # stage /\ stage' = "send"
    BY DEF Sending
  <2>2. Next
    BY <2>1 DEF vars
  <2>3. EntrySent
    BY <2>1, <2>2 DEF Next, Tick, Crash, NextBar, VenueCloses, SubmitExit, ClosureBooked,
      FundingBooked, ExitAccepted, FlipAccepted, ExitFails, EntryRateLimited,
      EntryAdmitted, EntryRejected, ExecutorDeclines, EntrySized, FlipBegins,
      EntryBegins, EntryFilled, EntryRefused, EntryUnanswered, Returns, handVars
  <2> QED
    BY <2>3 DEF EntrySent, Admissible, Fresh, LInv, MarginFits, Sized
<1> QED
  BY <1>1, LimitsInvariance, PTL DEF Spec, SendsStandAfterAwaits, MarginBounded, NeverSentLate

=============================================================================
